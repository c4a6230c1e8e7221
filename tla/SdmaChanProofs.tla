----------------------------- MODULE SdmaChanProofs -----------------------------
(***************************************************************************)
(* Proofs about the channels of the SDMA library, for any processes,       *)
(* threads and channels, whatever the resource manager is told to take     *)
(* back: register_mutex keeps each write of HOSTOVR to the writer's own    *)
(* bit, and a process listens to channels of its own threads only.         *)
(***************************************************************************)
EXTENDS SdmaChan, TLAPS

\* Where a thread holds register_mutex.
Locked == {"s_read", "s_write", "s_unlock", "t_read", "t_write", "t_unlock", "r_evt_read",
           "r_evt_write", "r_host_read", "r_host_write", "r_enbl_read", "r_enbl_write", "r_unlock"}

\* Where a thread is about to write HOSTOVR.
Writing == {"s_write", "t_write", "r_host_write"}

\* Where irq.c may know of the channel of a thread.
CallsBack == {"held", "running", "r_lock", "r_callback"} \cup Locked
Masked    == CallsBack \cup {"a_event", "a_callback", "r_mask"}
Notified  == CallsBack \cup {"a_callback", "r_mask", "r_event"}

\* A thread has a channel from the resource manager's answer to its release.
OwnInv == \A t \in Thread : ch[t] = 0 <=> pc[t] \in {"out", "dead"}

MutexInv == \A t \in Thread : pc[t] \in Locked => regMutex = t

\* A value of HOSTOVR that is read under the mutex is still the register's when it is
\* written back.
ReadInv == \A t \in Thread : pc[t] \in Writing => tmp[t] = reg["hostovr"]

ChanInv == TypeOK /\ OwnInv /\ MutexInv /\ ReadInv

\* The threads of process p that hold channel c and are at a place in S.
Holder(p, c, S) == {t \in Thread : ProcOf[t] = p /\ ch[t] = c /\ pc[t] \in S}

\* What irq.c of process p knows of channel c comes from a thread that holds it and has not
\* yet taken it out.
IrqInv ==
  \A p \in Process, c \in Channel :
    /\ c \in mask[p] => Holder(p, c, Masked) # {}
    /\ c \in callback[p] => Holder(p, c, CallsBack) \cap Regen # {}
    /\ event[p][c] \in Holder(p, c, Notified) \cup {NoThread}

-----------------------------------------------------------------------------
\* The library starts with no channel given out and nothing running (register_init).
LEMMA ChanInit == Init => ChanInv /\ IrqInv
<1> SUFFICES ASSUME Init PROVE ChanInv /\ IrqInv
  OBVIOUS
<1> USE ThreadAssumption, ProcOfAssumption, ChannelAssumption
<1>1. TypeOK
  BY DEF Init, TypeOK, Register, Away
<1>2. OwnInv /\ MutexInv
  BY DEF Init, OwnInv, MutexInv, Locked
<1>3. ReadInv
  BY DEF Init, ReadInv, Writing
<1>4. IrqInv
  BY DEF Init, IrqInv
<1>5. QED
  BY <1>1, <1>2, <1>3, <1>4 DEF ChanInv

-----------------------------------------------------------------------------
(* Steps of any call, from one place to another *)

\* A step that neither takes nor gives back a channel and does not write HOSTOVR; it may take
\* or give back register_mutex and read the register under it (sdma_event_enable and the rest
\* of api.c).
LEMMA MoveStep ==
  ASSUME ChanInv, NEW t \in Thread, NEW from, NEW to \in {"held", "running"} \cup Calling,
         Goto(t, from, to), from \notin {"out", "dead"},
         \/ UNCHANGED regMutex /\ (to \in Locked => from \in Locked)
         \/ regMutex = NoThread /\ regMutex' = t
         \/ regMutex' = NoThread /\ from \in Locked /\ to \notin Locked,
         to \in Writing => tmp'[t] = reg["hostovr"],
         tmp' \in [Thread -> SUBSET Channel], \A u \in Thread \ {t} : tmp'[u] = tmp[u],
         reg' \in [Register -> SUBSET Channel], reg'["hostovr"] = reg["hostovr"],
         {hstart', intr'} \subseteq SUBSET Channel,
         mask' \in [Process -> SUBSET Channel],
         event' \in [Process -> [Channel -> Thread \cup {NoThread}]],
         callback' \in [Process -> SUBSET Channel],
         list' \in [Process -> SUBSET Channel],
         UNCHANGED <<ch, reserved, isr>>
  PROVE  ChanInv'
<1> USE ThreadAssumption, ProcOfAssumption, ChannelAssumption
<1>1. TypeOK'
  BY DEF ChanInv, TypeOK, Goto
<1>2. OwnInv'
  BY DEF ChanInv, TypeOK, OwnInv, Goto, Calling
<1>3. MutexInv'
  BY DEF ChanInv, TypeOK, MutexInv, Goto
<1>4. ReadInv'
  BY DEF ChanInv, TypeOK, ReadInv, Goto
<1>5. QED
  BY <1>1, <1>2, <1>3, <1>4 DEF ChanInv

\* What a thread writes to HOSTOVR is what the register holds, with the bit of its own
\* channel set or clear: no other channel is started or stopped (sdma_xfer_start, _abort,
\* sdma_channel_release).
LEMMA WriteStep ==
  ASSUME ChanInv, NEW t \in Thread,
         \/ SetBit(t, "hostovr", "s_write", "s_unlock")
         \/ ClearBit(t, "hostovr", "t_write", "t_unlock")
         \/ ClearBit(t, "hostovr", "r_host_write", "r_enbl_read")
  PROVE  /\ ChanInv'
         /\ ch[t] \in Channel /\ pc'[t] # pc[t]
         /\ \A c \in Channel \ {ch[t]} : c \in reg["hostovr"] <=> c \in reg'["hostovr"]
<1> USE ThreadAssumption, ProcOfAssumption, ChannelAssumption
<1>1. PICK from \in Writing, to \in {"s_unlock", "t_unlock", "r_enbl_read"} :
        /\ Goto(t, from, to) /\ from \in Locked /\ to \in Locked
        /\ reg' = [reg EXCEPT !["hostovr"] =
                     IF from = "s_write" THEN tmp[t] \cup {ch[t]} ELSE tmp[t] \ {ch[t]}]
        /\ tmp' = [tmp EXCEPT ![t] = {}]
        /\ UNCHANGED <<ch, reserved, hstart, intr, regMutex, irqVars, isr>>
  BY DEF SetBit, ClearBit, Goto, Locked, Writing
<1>2. tmp[t] = reg["hostovr"] /\ ch[t] \in Channel
  BY <1>1 DEF ChanInv, TypeOK, ReadInv, OwnInv, Goto, Writing
<1>3. /\ from = "s_write" => reg'["hostovr"] = reg["hostovr"] \cup {ch[t]}
      /\ from # "s_write" => reg'["hostovr"] = reg["hostovr"] \ {ch[t]}
      /\ reg' \in [Register -> SUBSET Channel]
  BY <1>1, <1>2 DEF ChanInv, TypeOK, Register
<1>4. TypeOK'
  BY <1>1, <1>3 DEF ChanInv, TypeOK, Goto, irqVars, Calling
<1>5. OwnInv'
  BY <1>1 DEF ChanInv, TypeOK, OwnInv, Goto, Writing
<1>6. MutexInv'
  BY <1>1 DEF ChanInv, TypeOK, MutexInv, Goto
<1>7. \A u \in Thread \ {t} : pc[u] = pc'[u] /\ pc[u] \notin Locked
  BY <1>1 DEF ChanInv, TypeOK, MutexInv, Goto
<1>8. \A u \in Thread : pc'[u] \notin Writing
  BY <1>1, <1>7 DEF Locked, Writing, Goto, ChanInv, TypeOK
<1>9. ReadInv'
  BY <1>8 DEF ReadInv
<1>10. pc'[t] # pc[t]
  BY <1>1 DEF Goto, Writing, ChanInv, TypeOK
<1>11. \A c \in Channel \ {ch[t]} : c \in reg["hostovr"] <=> c \in reg'["hostovr"]
  BY <1>3
<1>12. QED
  BY <1>2, <1>4, <1>5, <1>6, <1>9, <1>10, <1>11 DEF ChanInv

\* The resource manager gives a thread a channel.
LEMMA ReserveStep == ASSUME ChanInv, NEW t \in Thread, Reserve(t) PROVE ChanInv'
<1> USE ThreadAssumption, ProcOfAssumption, ChannelAssumption
<1>1. PICK c \in Channel \ reserved :
        reserved' = reserved \cup {c} /\ ch' = [ch EXCEPT ![t] = c] /\ intr' = intr \ {c}
  BY DEF Reserve
<1>2. /\ Goto(t, "out", "a_create") /\ UNCHANGED <<tmp, reg, hstart, regMutex, irqVars, isr>>
  BY DEF Reserve
<1>3. TypeOK'
  BY <1>1, <1>2 DEF ChanInv, TypeOK, Goto, irqVars, Calling
<1>4. OwnInv'
  BY <1>1, <1>2 DEF ChanInv, TypeOK, OwnInv, Goto
<1>5. MutexInv'
  BY <1>2 DEF ChanInv, TypeOK, MutexInv, Goto, Locked
<1>6. ReadInv'
  BY <1>1, <1>2 DEF ChanInv, TypeOK, ReadInv, Goto, Writing
<1>7. QED
  BY <1>3, <1>4, <1>5, <1>6 DEF ChanInv

\* Whatever number is read from the freed structure, the thread has no channel afterwards.
LEMMA GiveBackStep ==
  ASSUME ChanInv, NEW t \in Thread, CtxLoadFails(t) \/ Detach(t)
  PROVE  /\ ChanInv'
         /\ pc[t] \in {"a_load", "r_detach"} /\ pc' = [pc EXCEPT ![t] = "out"]
         /\ ch' = [ch EXCEPT ![t] = 0] /\ UNCHANGED <<mask, event, callback, reg>>
<1> USE ThreadAssumption, ProcOfAssumption, ChannelAssumption
<1>1. /\ pc[t] \in {"a_load", "r_detach"} /\ pc' = [pc EXCEPT ![t] = "out"]
      /\ ch' = [ch EXCEPT ![t] = 0] /\ reserved' \subseteq Channel
      /\ list' \in [Process -> SUBSET Channel]
      /\ UNCHANGED <<tmp, hwVars, regMutex, mask, event, callback, isr>>
  <2>1. CASE CtxLoadFails(t)
    BY <2>1 DEF CtxLoadFails, GiveBackFreed, Goto, ChanInv, TypeOK
  <2>2. CASE Detach(t)
    BY <2>2 DEF Detach, GiveBackFreed, Goto, ChanInv, TypeOK, irqVars
  <2>3. QED
    BY <2>1, <2>2
<1>2. TypeOK'
  BY <1>1 DEF ChanInv, TypeOK, hwVars
<1>3. OwnInv'
  BY <1>1 DEF ChanInv, TypeOK, OwnInv
<1>4. MutexInv'
  BY <1>1 DEF ChanInv, TypeOK, MutexInv, Locked
<1>5. ReadInv'
  BY <1>1 DEF ChanInv, TypeOK, ReadInv, Writing, hwVars
<1>6. QED
  BY <1>1, <1>2, <1>3, <1>4, <1>5 DEF ChanInv, hwVars

\* The process that ends leaves the registers as they are (the NULL of chan_create).
LEMMA CrashStep == ASSUME ChanInv, NEW t \in Thread, ChanCreateFails(t) PROVE ChanInv'
<1> USE ThreadAssumption, ProcOfAssumption, ChannelAssumption
<1> DEFINE Of == {u \in Thread : ProcOf[u] = ProcOf[t]}
<1>1. /\ pc' = [u \in Thread |-> IF u \in Of THEN "dead" ELSE pc[u]]
      /\ ch' = [u \in Thread |-> IF u \in Of THEN 0 ELSE ch[u]]
      /\ UNCHANGED <<tmp, hwVars, regMutex>>
  BY DEF ChanCreateFails
<1>2. TypeOK'
  <2>1. pc' \in [Thread -> {"out", "held", "running", "dead"} \cup Calling]
    BY <1>1 DEF ChanInv, TypeOK
  <2>2. ch' \in [Thread -> Channel \cup {0}]
    BY <1>1 DEF ChanInv, TypeOK
  <2>3. /\ mask' \in [Process -> SUBSET Channel] /\ callback' \in [Process -> SUBSET Channel]
        /\ list' \in [Process -> SUBSET Channel] /\ reserved' \subseteq Channel
    BY DEF ChanCreateFails, ChanInv, TypeOK
  <2>4. event' \in [Process -> [Channel -> Thread \cup {NoThread}]]
    BY DEF ChanCreateFails, ChanInv, TypeOK
  <2>5. isr' \in [Process -> [at : {"off", "claimed", "callback", "return"}, ch : Channel \cup {0}]]
    BY DEF ChanCreateFails, Away, ChanInv, TypeOK
  <2>6. QED
    BY <1>1, <2>1, <2>2, <2>3, <2>4, <2>5 DEF ChanInv, TypeOK, hwVars
<1>3. OwnInv'
  BY <1>1 DEF ChanInv, TypeOK, OwnInv
<1>4. MutexInv'
  BY <1>1 DEF ChanInv, TypeOK, MutexInv, Locked
<1>5. ReadInv'
  BY <1>1 DEF ChanInv, TypeOK, ReadInv, Writing, hwVars
<1>6. QED
  BY <1>2, <1>3, <1>4, <1>5 DEF ChanInv

\* Such a step outside the registers.
LEMMA TableStep ==
  ASSUME ChanInv, NEW t \in Thread, NEW from, NEW to \in {"held", "running"} \cup Calling,
         Goto(t, from, to), from \notin {"out", "dead"}, to \notin Locked,
         UNCHANGED <<ch, tmp, reserved, hwVars, regMutex, isr>>,
         mask' \in [Process -> SUBSET Channel],
         event' \in [Process -> [Channel -> Thread \cup {NoThread}]],
         callback' \in [Process -> SUBSET Channel],
         list' \in [Process -> SUBSET Channel]
  PROVE  ChanInv'
<1>1. /\ to \notin Writing
      /\ tmp' \in [Thread -> SUBSET Channel] /\ reg' \in [Register -> SUBSET Channel]
      /\ {hstart', intr'} \subseteq SUBSET Channel
      /\ \A u \in Thread \ {t} : tmp'[u] = tmp[u]
      /\ reg'["hostovr"] = reg["hostovr"]
  BY DEF ChanInv, TypeOK, hwVars, Locked, Writing
<1>2. QED
  BY <1>1, MoveStep

\* A register other than HOSTOVR is read or written, with or without the mutex held.
LEMMA OtherRegisterStep ==
  ASSUME ChanInv, NEW t \in Thread, NEW r \in {"evtovr", "chnenbl"},
         NEW from, NEW to \in Calling,
         ReadReg(t, r, from, to) \/ SetBit(t, r, from, to) \/ ClearBit(t, r, from, to),
         from \notin {"out", "dead"}, to \in Locked => from \in Locked,
         to \notin Writing
  PROVE  ChanInv'
<1>1. /\ Goto(t, from, to)
      /\ UNCHANGED <<ch, reserved, hstart, intr, regMutex, irqVars, isr>>
      /\ tmp'[t] \in SUBSET Channel
      /\ tmp' = [tmp EXCEPT ![t] = tmp'[t]]
      /\ reg'[r] \in SUBSET Channel
      /\ reg' = [reg EXCEPT ![r] = reg'[r]]
  <2>1. CASE ReadReg(t, r, from, to)
    BY <2>1 DEF ReadReg, ChanInv, TypeOK, hwVars, Register
  <2>2. CASE SetBit(t, r, from, to)
    <3>1. ch[t] \in Channel
      BY <2>2 DEF SetBit, Goto, ChanInv, TypeOK, OwnInv
    <3>2. QED
      BY <2>2, <3>1 DEF SetBit, ChanInv, TypeOK, Register
  <2>3. CASE ClearBit(t, r, from, to)
    BY <2>3 DEF ClearBit, ChanInv, TypeOK, Register
  <2>4. QED
    BY <2>1, <2>2, <2>3
<1>2. /\ tmp' \in [Thread -> SUBSET Channel] /\ reg' \in [Register -> SUBSET Channel]
      /\ {hstart', intr'} \subseteq SUBSET Channel
      /\ \A u \in Thread \ {t} : tmp'[u] = tmp[u]
      /\ reg'["hostovr"] = reg["hostovr"]
      /\ mask' \in [Process -> SUBSET Channel]
      /\ event' \in [Process -> [Channel -> Thread \cup {NoThread}]]
      /\ callback' \in [Process -> SUBSET Channel]
      /\ list' \in [Process -> SUBSET Channel]
  BY <1>1 DEF ChanInv, TypeOK, irqVars, Register
<1>3. UNCHANGED <<ch, reserved, isr>> /\ UNCHANGED regMutex
  BY <1>1
<1>4. QED
  BY <1>1, <1>2, <1>3, MoveStep
\* HOSTOVR is read with the mutex held.
LEMMA ReadHostStep ==
  ASSUME ChanInv, NEW t \in Thread,
         \/ ReadReg(t, "hostovr", "s_read", "s_write")
         \/ ReadReg(t, "hostovr", "t_read", "t_write")
         \/ ReadReg(t, "hostovr", "r_host_read", "r_host_write")
  PROVE  ChanInv'
<1>1. PICK from \in {"s_read", "t_read", "r_host_read"}, to \in Writing :
        /\ Goto(t, from, to)
        /\ tmp' = [tmp EXCEPT ![t] = reg["hostovr"]]
        /\ UNCHANGED <<ch, reserved, hwVars, regMutex, irqVars, isr>>
  BY DEF ReadReg, Goto, Writing
<1>2. /\ tmp' \in [Thread -> SUBSET Channel] /\ reg' \in [Register -> SUBSET Channel]
      /\ {hstart', intr'} \subseteq SUBSET Channel
      /\ \A u \in Thread \ {t} : tmp'[u] = tmp[u]
      /\ tmp'[t] = reg["hostovr"] /\ reg'["hostovr"] = reg["hostovr"]
      /\ mask' \in [Process -> SUBSET Channel]
      /\ event' \in [Process -> [Channel -> Thread \cup {NoThread}]]
      /\ callback' \in [Process -> SUBSET Channel]
      /\ list' \in [Process -> SUBSET Channel]
  BY <1>1 DEF ChanInv, TypeOK, irqVars, hwVars, Register
<1>3. /\ from \in Locked /\ from \notin {"out", "dead"} /\ to \in Calling
  BY <1>1 DEF Locked, Calling, Writing
<1>4. UNCHANGED <<ch, reserved, isr>> /\ UNCHANGED regMutex
  BY <1>1
<1>5. QED
  BY <1>1, <1>2, <1>3, <1>4, MoveStep

\* register_mutex is locked or unlocked, a channel started or stopped by software, or its
\* interrupt cleared.
LEMMA MutexStep ==
  ASSUME ChanInv, NEW t \in Thread,
         NEW from, NEW to \in {"held", "running"} \cup Calling,
         \/ LockReg(t, from, to)
         \/ UnlockReg(t, from, to) /\ from \in Locked /\ to \notin Locked
         \/ /\ Goto(t, from, to) /\ to \notin Locked
            /\ UNCHANGED <<ch, tmp, reserved, reg, regMutex, irqVars, isr>>
            /\ {hstart', intr'} \subseteq SUBSET Channel,
         from \notin {"out", "dead"}, to \notin Writing
  PROVE  ChanInv'
<1>1. /\ Goto(t, from, to)
      /\ UNCHANGED <<ch, tmp, reserved, reg, irqVars, isr>>
      /\ \/ UNCHANGED regMutex /\ (to \in Locked => from \in Locked)
         \/ regMutex = NoThread /\ regMutex' = t
         \/ regMutex' = NoThread /\ from \in Locked /\ to \notin Locked
      /\ {hstart', intr'} \subseteq SUBSET Channel
  BY DEF LockReg, UnlockReg, hwVars, ChanInv, TypeOK
<1>2. /\ tmp' \in [Thread -> SUBSET Channel] /\ reg' \in [Register -> SUBSET Channel]
      /\ \A u \in Thread \ {t} : tmp'[u] = tmp[u]
      /\ reg'["hostovr"] = reg["hostovr"]
      /\ mask' \in [Process -> SUBSET Channel]
      /\ event' \in [Process -> [Channel -> Thread \cup {NoThread}]]
      /\ callback' \in [Process -> SUBSET Channel]
      /\ list' \in [Process -> SUBSET Channel]
  BY <1>1 DEF ChanInv, TypeOK, irqVars
<1>3. UNCHANGED <<ch, reserved, isr>>
  BY <1>1
<1>4. QED
  BY <1>1, <1>2, <1>3, MoveStep

-----------------------------------------------------------------------------
\* The steps of attach and release in the tables of api.c and irq.c, and of attach in the
\* registers (sdma_channel_attach, sdma_channel_release).
LEMMA InsideStep == ASSUME ChanInv, NEW t \in Thread, Inside(t) PROVE ChanInv'
<1> DEFINE T == {"a_load", "a_evt_read", "a_mask", "a_event", "a_callback", "held", "r_mask",
                 "r_event", "r_destroy", "r_detach"}
           F == {"a_create", "a_load", "a_mask", "a_event", "a_callback", "r_callback",
                 "r_mask", "r_event", "r_destroy"}
<1>1. CASE CtxLoadFails(t) \/ Detach(t)
  BY <1>1, GiveBackStep
<1>2. CASE EnableEvent(t)
  BY <1>2, OtherRegisterStep DEF EnableEvent, Calling, Locked, Writing
<1>3. CASE ChanCreateFails(t)
  BY <1>3, CrashStep
<1>4. CASE ~(ChanCreateFails(t) \/ CtxLoadFails(t) \/ Detach(t) \/ EnableEvent(t))
  <2>1. ch[t] \in Channel
    BY <1>4 DEF Inside, ChanCreate, CtxLoad, EventAddMask, EventAddEvent, CallbackAdd,
                CallbackRemove, EventRemoveMask, EventRemoveEvent, ChanDestroy, Goto,
                ChanInv, TypeOK, OwnInv
  <2>2. PICK from \in F, to \in T : Goto(t, from, to)
    BY <1>4 DEF Inside, ChanCreate, CtxLoad, EventAddMask, EventAddEvent, CallbackAdd,
                CallbackRemove, EventRemoveMask, EventRemoveEvent, ChanDestroy
  <2>3. UNCHANGED <<ch, tmp, reserved, hwVars, regMutex, isr>>
    BY <1>4 DEF Inside, ChanCreate, CtxLoad, EventAddMask, EventAddEvent, CallbackAdd,
                CallbackRemove, EventRemoveMask, EventRemoveEvent, ChanDestroy
  <2>4. /\ mask' \in [Process -> SUBSET Channel] /\ list' \in [Process -> SUBSET Channel]
        /\ event' \in [Process -> [Channel -> Thread \cup {NoThread}]]
        /\ callback' \in [Process -> SUBSET Channel]
    <3> USE <2>1, ProcOfAssumption DEF ChanInv, TypeOK
    <3>1. CASE ChanCreate(t) \/ ChanDestroy(t)
      <4>1. list[ProcOf[t]] \cup {ch[t]} \in SUBSET Channel /\ list[ProcOf[t]] \ {ch[t]} \in SUBSET Channel
        OBVIOUS
      <4>2. PICK S \in SUBSET Channel : list' = [list EXCEPT ![ProcOf[t]] = S]
        BY <3>1, <4>1 DEF ChanCreate, ChanDestroy
      <4>3. QED
        BY <3>1, <4>2 DEF ChanCreate, ChanDestroy
    <3>2. CASE EventAddMask(t) \/ EventRemoveMask(t)
      <4>1. mask[ProcOf[t]] \cup {ch[t]} \in SUBSET Channel /\ mask[ProcOf[t]] \ {ch[t]} \in SUBSET Channel
        OBVIOUS
      <4>2. PICK S \in SUBSET Channel : mask' = [mask EXCEPT ![ProcOf[t]] = S]
        BY <3>2, <4>1 DEF EventAddMask, EventRemoveMask
      <4>3. QED
        BY <3>2, <4>2 DEF EventAddMask, EventRemoveMask
    <3>3. CASE EventAddEvent(t)
      BY <3>3 DEF EventAddEvent
    <3>4. CASE EventRemoveEvent(t)
      BY <3>4 DEF EventRemoveEvent
    <3>5. CASE CallbackAdd(t) \/ CallbackRemove(t)
      <4>1. callback[ProcOf[t]] \cup {ch[t]} \in SUBSET Channel /\ callback[ProcOf[t]] \ {ch[t]} \in SUBSET Channel
        OBVIOUS
      <4>2. PICK S \in SUBSET Channel : callback' = [callback EXCEPT ![ProcOf[t]] = S]
        BY <3>5, <4>1 DEF CallbackAdd, CallbackRemove
      <4>3. QED
        BY <3>5, <4>2 DEF CallbackAdd, CallbackRemove
    <3>6. CASE CtxLoad(t)
      BY <3>6 DEF CtxLoad, irqVars
    <3>7. QED
      BY <1>4, <3>1, <3>2, <3>3, <3>4, <3>5, <3>6 DEF Inside
  <2>5. /\ from \notin {"out", "dead"}
        /\ to \in {"held", "running"} \cup Calling /\ to \notin Locked
    BY <2>2 DEF Calling, Locked
  <2>6. QED
    BY <2>2, <2>3, <2>4, <2>5, TableStep
<1>5. QED
  BY <1>1, <1>2, <1>3, <1>4
\* Start, stop and the disabling of the event work on the registers under register_mutex
\* (sdma_xfer_start, sdma_xfer_abort, sdma_event_disable).
LEMMA RegistersStep == ASSUME ChanInv, NEW t \in Thread, Registers(t) PROVE ChanInv'
<1> USE DEF Calling, Locked, Writing
<1>1. CASE StartDriven(t)
  <2>1. CASE t \in Driven /\ LockReg(t, "held", "s_read")
    BY <2>1, MutexStep
  <2>2. CASE ReadReg(t, "hostovr", "s_read", "s_write") \/ SetBit(t, "hostovr", "s_write", "s_unlock")
    BY <2>2, ReadHostStep, WriteStep
  <2>3. CASE UnlockReg(t, "s_unlock", "running")
    BY <2>3, MutexStep
  <2>4. QED
    BY <1>1, <2>1, <2>2, <2>3 DEF StartDriven
<1>2. CASE StopDriven(t)
  <2>1. CASE t \in Driven /\ LockReg(t, "running", "t_read")
    BY <2>1, MutexStep
  <2>2. CASE ReadReg(t, "hostovr", "t_read", "t_write") \/ ClearBit(t, "hostovr", "t_write", "t_unlock")
    BY <2>2, ReadHostStep, WriteStep
  <2>3. CASE UnlockReg(t, "t_unlock", "held")
    BY <2>3, MutexStep
  <2>4. QED
    BY <1>2, <2>1, <2>2, <2>3 DEF StopDriven
<1>3. CASE DisableEvent(t)
  <2>1. CASE LockReg(t, "r_lock", "r_evt_read") \/ UnlockReg(t, "r_unlock", "r_callback")
    BY <2>1, MutexStep
  <2>2. CASE \/ ReadReg(t, "evtovr", "r_evt_read", "r_evt_write")
             \/ SetBit(t, "evtovr", "r_evt_write", "r_host_read")
    BY <2>2, OtherRegisterStep
  <2>3. CASE \/ ReadReg(t, "hostovr", "r_host_read", "r_host_write")
             \/ ClearBit(t, "hostovr", "r_host_write", "r_enbl_read")
    BY <2>3, ReadHostStep, WriteStep
  <2>4. CASE \/ ReadReg(t, "chnenbl", "r_enbl_read", "r_enbl_write")
             \/ ClearBit(t, "chnenbl", "r_enbl_write", "r_unlock")
    BY <2>4, OtherRegisterStep
  <2>5. QED
    BY <1>3, <2>1, <2>2, <2>3, <2>4 DEF DisableEvent
<1>4. QED
  BY <1>1, <1>2, <1>3 DEF Registers

\* A call begins: software starts and stops a channel without HOSTOVR.
LEMMA BeginStep == ASSUME ChanInv, NEW t \in Thread, Begin(t) PROVE ChanInv'
<1>1. CASE Reserve(t)
  BY <1>1, ReserveStep
<1>2. CASE ReserveFails(t)
  BY <1>2 DEF ReserveFails, vars, threadVars, hwVars, irqVars, ChanInv, TypeOK, OwnInv, MutexInv, ReadInv
<1>3. CASE StartSoftware(t) \/ StopSoftware(t) \/ ReleaseClear(t)
  <2>1. ch[t] \in Channel
    BY <1>3 DEF StartSoftware, StopSoftware, ReleaseClear, Goto, ChanInv, TypeOK, OwnInv
  <2>2. PICK from \in {"held", "running"}, to \in {"held", "running", "r_lock"} :
          /\ Goto(t, from, to)
          /\ UNCHANGED <<ch, tmp, reserved, reg, regMutex, irqVars, isr>>
    BY <1>3 DEF StartSoftware, StopSoftware, ReleaseClear, Goto, hwVars
  <2>3. hstart' \in SUBSET Channel /\ intr' \in SUBSET Channel
    BY <1>3, <2>1 DEF StartSoftware, StopSoftware, ReleaseClear, hwVars, ChanInv, TypeOK
  <2>4. QED
    BY <2>2, <2>3, MutexStep DEF Calling, Locked, Writing
<1>4. QED
  BY <1>1, <1>2, <1>3 DEF Begin

\* The controller and the interrupt handler write no register of the channels.
LEMMA HandlerStep ==
  ASSUME ChanInv,
         \/ \E c \in Channel : Complete(c)
         \/ \E p \in Process : IsrClaim(p) \/ IsrCallback(p) \/ IsrReturn(p)
  PROVE  ChanInv'
<1>1. /\ UNCHANGED <<threadVars, reserved, reg, regMutex, irqVars>>
      /\ hstart' \subseteq Channel /\ intr' \subseteq Channel
  BY DEF Complete, IsrClaim, IsrCallback, IsrReturn, hwVars, ChanInv, TypeOK
<1>2. isr' \in [Process -> [at : {"off", "claimed", "callback", "return"}, ch : Channel \cup {0}]]
  <2>1. CASE \E c \in Channel : Complete(c)
    BY <2>1 DEF Complete, ChanInv, TypeOK
  <2>2. ASSUME NEW p \in Process, IsrClaim(p) \/ IsrCallback(p) \/ IsrReturn(p)
        PROVE  isr' \in [Process -> [at : {"off", "claimed", "callback", "return"}, ch : Channel \cup {0}]]
    <3>1. CASE IsrClaim(p)
      BY <3>1 DEF IsrClaim, ChanInv, TypeOK
    <3>2. CASE IsrCallback(p)
      BY <3>2 DEF IsrCallback, ChanInv, TypeOK
    <3>3. CASE IsrReturn(p)
      BY <3>3 DEF IsrReturn, Away, ChanInv, TypeOK
    <3>4. QED
      BY <2>2, <3>1, <3>2, <3>3
  <2>3. QED
    BY <2>1, <2>2
<1>3. TypeOK'
  BY <1>1, <1>2 DEF ChanInv, TypeOK, threadVars, irqVars
<1>4. QED
  BY <1>1, <1>3 DEF ChanInv, OwnInv, MutexInv, ReadInv, threadVars

LEMMA ChanStep == ChanInv /\ [Next]_vars => ChanInv'
<1> SUFFICES ASSUME ChanInv, [Next]_vars PROVE ChanInv'
  OBVIOUS
<1>1. CASE UNCHANGED vars
  BY <1>1 DEF vars, threadVars, hwVars, irqVars, ChanInv, TypeOK, OwnInv, MutexInv, ReadInv
<1>2. CASE Next
  BY <1>2, BeginStep, InsideStep, RegistersStep, HandlerStep DEF Next
<1>3. QED
  BY <1>1, <1>2

LEMMA ChanAlways == Spec => []ChanInv
  BY ChanInit, ChanStep, PTL DEF Spec

\* The library's and the controller's state keep their types (sdma_channel_attach,
\* sdma_channel_release).
THEOREM TypeCorrect == Spec => []TypeOK
<1>1. ChanInv => TypeOK
  BY DEF ChanInv
<1>2. QED
  BY <1>1, ChanAlways, PTL

\* Any step but the three writes leaves HOSTOVR alone.
LEMMA HostOvrKept ==
  ASSUME ChanInv, [Next]_vars,
         \A t \in Thread : /\ ~SetBit(t, "hostovr", "s_write", "s_unlock")
                         /\ ~ClearBit(t, "hostovr", "t_write", "t_unlock")
                         /\ ~ClearBit(t, "hostovr", "r_host_write", "r_enbl_read")
  PROVE  reg'["hostovr"] = reg["hostovr"]
<1>1. CASE UNCHANGED vars
  BY <1>1 DEF vars, hwVars
<1>2. ASSUME NEW t \in Thread, Begin(t) PROVE reg' = reg
  BY <1>2 DEF Begin, Reserve, ReserveFails, StartSoftware, StopSoftware, ReleaseClear, hwVars, vars
<1>3. ASSUME NEW t \in Thread, EnableEvent(t) PROVE reg'["hostovr"] = reg["hostovr"]
  BY <1>3 DEF EnableEvent, ReadReg, SetBit, ClearBit, hwVars, ChanInv, TypeOK, Register
<1>4. ASSUME NEW t \in Thread, Inside(t), ~EnableEvent(t) PROVE reg' = reg
  BY <1>4, GiveBackStep DEF Inside, ChanCreate, ChanCreateFails, CtxLoad, EventAddMask, EventAddEvent,
     CallbackAdd, CallbackRemove, EventRemoveMask, EventRemoveEvent, ChanDestroy, hwVars
<1>5. ASSUME NEW t \in Thread, Registers(t) PROVE reg'["hostovr"] = reg["hostovr"]
  <2> USE DEF ReadReg, LockReg, UnlockReg, hwVars
  <2>1. CASE StartDriven(t) \/ StopDriven(t)
    BY <2>1 DEF StartDriven, StopDriven
  <2>2. CASE DisableEvent(t)
    BY <2>2 DEF DisableEvent, SetBit, ClearBit, ChanInv, TypeOK, Register
  <2>3. QED
    BY <1>5, <2>1, <2>2 DEF Registers
<1>6. ASSUME \/ \E c \in Channel : Complete(c)
             \/ \E p \in Process : IsrClaim(p) \/ IsrCallback(p) \/ IsrReturn(p)
      PROVE  reg' = reg
  BY <1>6 DEF Complete, IsrClaim, IsrCallback, IsrReturn, hwVars
<1>7. QED
  BY <1>1, <1>2, <1>3, <1>4, <1>5, <1>6 DEF Next

\* A thread that starts, stops or releases its channel changes the bit of no other in
\* HOSTOVR, for any processes, threads and channels, even if two threads were given one
\* channel (register_mutex in sdma_xfer_start, sdma_xfer_abort and sdma_channel_release).
THEOREM HostOvr == Spec => HostOvrOwnBit
<1> DEFINE OwnBit == \A c \in Channel : (c \in reg["hostovr"]) # (c \in reg'["hostovr"]) =>
                       \E t \in Thread : ch[t] = c /\ pc'[t] # pc[t]
<1>1. ASSUME ChanInv, [Next]_vars PROVE OwnBit
  <2>1. CASE \E t \in Thread : \/ SetBit(t, "hostovr", "s_write", "s_unlock")
                              \/ ClearBit(t, "hostovr", "t_write", "t_unlock")
                              \/ ClearBit(t, "hostovr", "r_host_write", "r_enbl_read")
    <3>1. PICK t \in Thread : /\ pc'[t] # pc[t]
                            /\ \A c \in Channel \ {ch[t]} : c \in reg["hostovr"] <=> c \in reg'["hostovr"]
      BY <1>1, <2>1, WriteStep
    <3>2. QED
      BY <3>1
  <2>2. CASE ~\E t \in Thread : \/ SetBit(t, "hostovr", "s_write", "s_unlock")
                               \/ ClearBit(t, "hostovr", "t_write", "t_unlock")
                               \/ ClearBit(t, "hostovr", "r_host_write", "r_enbl_read")
    BY <1>1, <2>2, HostOvrKept
  <2>3. QED
    BY <2>1, <2>2
<1>2. ChanInv /\ [Next]_vars => [OwnBit]_vars
  BY <1>1
<1>3. QED
  BY <1>2, ChanAlways, PTL DEF Spec, HostOvrOwnBit

-----------------------------------------------------------------------------
(* What irq.c knows of *)

\* A step of thread t that leaves the tables of irq.c alone, and does not leave the places
\* where they may know of its channel.
LEMMA KeepStep ==
  ASSUME IrqInv, NEW t \in Thread, UNCHANGED <<mask, event, callback>>,
         \A u \in Thread \ {t} : pc'[u] = pc[u] /\ ch'[u] = ch[u],
         \A S \in {Masked, CallsBack, Notified} : pc[t] \in S => pc'[t] \in S /\ ch'[t] = ch[t]
  PROVE  IrqInv'
<1>1. \A p \in Process, c \in Channel, S \in {Masked, CallsBack, Notified} :
        Holder(p, c, S) \subseteq Holder(p, c, S)'
  BY DEF Holder
<1>2. QED
  BY <1>1 DEF IrqInv

\* Such a step from one place to another with the same channel.
LEMMA GotoKnown ==
  ASSUME ChanInv, IrqInv, NEW t \in Thread, NEW from, NEW to,
         Goto(t, from, to), UNCHANGED <<ch, mask, event, callback>>,
         \A S \in {Masked, CallsBack, Notified} : from \in S => to \in S
  PROVE  IrqInv'
<1>1. pc[t] = from /\ pc'[t] = to /\ \A u \in Thread \ {t} : pc'[u] = pc[u]
  BY DEF Goto, ChanInv, TypeOK
<1>2. QED
  BY <1>1, KeepStep

\* A thread enters its channel in the tables of its process, or takes it out
\* (sdmairq_event_add, sdmairq_callback_add and their counterparts).
LEMMA TableKnown ==
  ASSUME ChanInv, IrqInv, NEW t \in Thread,
         \/ EventAddMask(t) \/ EventAddEvent(t) \/ CallbackAdd(t)
         \/ CallbackRemove(t) \/ EventRemoveMask(t) \/ EventRemoveEvent(t)
  PROVE  IrqInv'
<1> USE ThreadAssumption, ProcOfAssumption, ChannelAssumption
<1>1. /\ ch[t] \in Channel /\ ch' = ch /\ ProcOf[t] \in Process
      /\ pc' = [pc EXCEPT ![t] = pc'[t]]
      /\ \A u \in Thread \ {t} : pc'[u] = pc[u]
  BY DEF EventAddMask, EventAddEvent, CallbackAdd, CallbackRemove, EventRemoveMask,
         EventRemoveEvent, Goto, ChanInv, TypeOK, OwnInv
<1> SUFFICES ASSUME NEW p \in Process, NEW c \in Channel
             PROVE  /\ c \in mask'[p] => Holder(p, c, Masked)' # {}
                    /\ c \in callback'[p] => Holder(p, c, CallsBack)' \cap Regen # {}
                    /\ event'[p][c] \in Holder(p, c, Notified)' \cup {NoThread}
  BY DEF IrqInv
<1>2. /\ c \in mask[p] => \E u \in Thread : ProcOf[u] = p /\ ch[u] = c /\ pc[u] \in Masked
      /\ c \in callback[p] => \E u \in Regen : ProcOf[u] = p /\ ch[u] = c /\ pc[u] \in CallsBack
      /\ \/ event[p][c] = NoThread
         \/ LET u == event[p][c] IN
            u \in Thread /\ ProcOf[u] = p /\ ch[u] = c /\ pc[u] \in Notified
  <2>1. /\ c \in mask[p] => Holder(p, c, Masked) # {}
        /\ c \in callback[p] => Holder(p, c, CallsBack) \cap Regen # {}
        /\ event[p][c] \in Holder(p, c, Notified) \cup {NoThread}
    BY DEF IrqInv
  <2>2. c \in mask[p] => \E u \in Thread : ProcOf[u] = p /\ ch[u] = c /\ pc[u] \in Masked
    BY <2>1 DEF Holder
  <2>3. c \in callback[p] => \E u \in Regen : ProcOf[u] = p /\ ch[u] = c /\ pc[u] \in CallsBack
    BY <2>1 DEF Holder
  <2>4. \/ event[p][c] = NoThread
        \/ LET u == event[p][c] IN
           u \in Thread /\ ProcOf[u] = p /\ ch[u] = c /\ pc[u] \in Notified
    BY <2>1 DEF Holder
  <2>5. QED
    BY <2>2, <2>3, <2>4
<1> SUFFICES /\ c \in mask'[p] => \E u \in Thread : ProcOf[u] = p /\ ch[u] = c /\ pc'[u] \in Masked
             /\ c \in callback'[p] => \E u \in Regen : ProcOf[u] = p /\ ch[u] = c /\ pc'[u] \in CallsBack
             /\ \/ event'[p][c] = NoThread
                \/ LET u == event'[p][c] IN
                   u \in Thread /\ ProcOf[u] = p /\ ch[u] = c /\ pc'[u] \in Notified
  BY <1>1 DEF Holder
<1> USE <1>1, <1>2 DEF Goto, Masked, Notified, CallsBack, Locked, ChanInv, TypeOK
<1>3. CASE EventAddMask(t)
  <2>1. /\ pc[t] = "a_mask" /\ pc'[t] = "a_event" /\ UNCHANGED <<callback, event>>
        /\ c \in mask'[p] => c \in mask[p] \/ (p = ProcOf[t] /\ c = ch[t])
    BY <1>3 DEF EventAddMask
  <2>2. QED
    BY <2>1
<1>4. CASE EventAddEvent(t)
  <2>1. /\ pc[t] = "a_event" /\ pc'[t] = "a_callback" /\ UNCHANGED <<callback, mask>>
        /\ event'[p][c] = IF p = ProcOf[t] /\ c = ch[t] THEN t ELSE event[p][c]
    BY <1>4 DEF EventAddEvent
  <2>2. QED
    BY <2>1
<1>5. CASE CallbackAdd(t)
  <2>1. /\ pc[t] = "a_callback" /\ pc'[t] = "held" /\ UNCHANGED <<event, mask>>
        /\ c \in callback'[p] => c \in callback[p] \/ (p = ProcOf[t] /\ c = ch[t] /\ t \in Regen)
    BY <1>5 DEF CallbackAdd
  <2>2. QED
    BY <2>1
<1>6. CASE CallbackRemove(t)
  <2>1. /\ pc[t] = "r_callback" /\ pc'[t] = "r_mask" /\ UNCHANGED <<event, mask>>
        /\ c \in callback'[p] => c \in callback[p] /\ ~(p = ProcOf[t] /\ c = ch[t] /\ t \in Regen)
    BY <1>6 DEF CallbackRemove
  <2>2. QED
    BY <2>1
<1>7. CASE EventRemoveMask(t)
  <2>1. /\ pc[t] = "r_mask" /\ pc'[t] = "r_event" /\ UNCHANGED <<event, callback>>
        /\ c \in mask'[p] => c \in mask[p] /\ ~(p = ProcOf[t] /\ c = ch[t])
    BY <1>7 DEF EventRemoveMask
  <2>2. QED
    BY <2>1
<1>8. CASE EventRemoveEvent(t)
  <2>1. /\ pc[t] = "r_event" /\ pc'[t] = "r_destroy" /\ UNCHANGED <<mask, callback>>
        /\ event'[p][c] = IF p = ProcOf[t] /\ c = ch[t] THEN NoThread ELSE event[p][c]
    BY <1>8 DEF EventRemoveEvent
  <2>2. QED
    BY <2>1
<1>9. QED
  BY <1>3, <1>4, <1>5, <1>6, <1>7, <1>8

\* The tables of a process that ends go with it, and with those that live nothing changes.
LEMMA CrashKnown ==
  ASSUME ChanInv, IrqInv, NEW t \in Thread, ChanCreateFails(t) PROVE IrqInv'
<1> USE ThreadAssumption, ProcOfAssumption
<1> DEFINE p == ProcOf[t]
<1>1. ASSUME NEW c \in Channel
      PROVE  c \notin mask'[p] /\ c \notin callback'[p] /\ event'[p][c] = NoThread
  BY DEF ChanCreateFails, ChanInv, TypeOK
<1>2. ASSUME NEW q \in Process, q # p
      PROVE  /\ mask'[q] = mask[q] /\ callback'[q] = callback[q] /\ event'[q] = event[q]
             /\ \A c, S : Holder(q, c, S)' = Holder(q, c, S)
  <2>1. mask'[q] = mask[q] /\ callback'[q] = callback[q] /\ event'[q] = event[q]
    BY <1>2 DEF ChanCreateFails, ChanInv, TypeOK
  <2>2. \A u \in Thread : ProcOf[u] = q => pc'[u] = pc[u] /\ ch'[u] = ch[u]
    BY <1>2 DEF ChanCreateFails
  <2>3. QED
    BY <2>1, <2>2 DEF Holder
<1>3. QED
  BY <1>1, <1>2 DEF IrqInv

\* The registers are changed where irq.c knows of the channel already, or does not yet.
LEMMA RegistersKnown ==
  ASSUME ChanInv, IrqInv, NEW t \in Thread, Registers(t) \/ EnableEvent(t) PROVE IrqInv'
<1> DEFINE Before == {"a_evt_read", "a_evt_write", "a_enbl_read", "a_enbl_write"}
<1>1. /\ UNCHANGED <<ch, mask, event, callback>>
      /\ \E from, to : /\ Goto(t, from, to)
                       /\ \/ from \in Before /\ to \in Before \cup {"a_mask"}
                          \/ to \in CallsBack
  <2> USE DEF ReadReg, SetBit, ClearBit, LockReg, UnlockReg, irqVars, CallsBack, Locked
  <2>1. CASE EnableEvent(t)
    BY <2>1 DEF EnableEvent
  <2>2. CASE StartDriven(t)
    BY <2>2 DEF StartDriven
  <2>3. CASE StopDriven(t)
    BY <2>3 DEF StopDriven
  <2>4. CASE DisableEvent(t)
    BY <2>4 DEF DisableEvent
  <2>5. QED
    BY <2>1, <2>2, <2>3, <2>4 DEF Registers
<1>2. PICK from, to : Goto(t, from, to) /\ (from \in Before \/ to \in CallsBack)
  BY <1>1
<1>3. \A S \in {Masked, CallsBack, Notified} : from \in S => to \in S
  BY <1>2 DEF CallsBack, Masked, Notified, Locked
<1>4. QED
  BY <1>1, <1>2, <1>3, GotoKnown

LEMMA KnownStep == ChanInv /\ IrqInv /\ [Next]_vars => IrqInv'
<1> SUFFICES ASSUME ChanInv, IrqInv, [Next]_vars PROVE IrqInv'
  OBVIOUS
<1>1. CASE UNCHANGED <<ch, pc, mask, event, callback>>
  <2>1. \A p, c, S : Holder(p, c, S)' = Holder(p, c, S)
    BY <1>1 DEF Holder
  <2>2. QED
    BY <1>1, <2>1 DEF IrqInv
<1>2. ASSUME NEW t \in Thread, Begin(t) PROVE IrqInv'
  <2>1. CASE Reserve(t)
    <3>1. /\ pc[t] = "out" /\ UNCHANGED <<mask, event, callback>>
          /\ \A u \in Thread \ {t} : pc'[u] = pc[u] /\ ch'[u] = ch[u]
      BY <2>1 DEF Reserve, Goto, irqVars, ChanInv, TypeOK
    <3>2. QED
      BY <3>1, KeepStep DEF Masked, CallsBack, Notified, Locked
  <2>2. CASE ReserveFails(t)
    BY <1>1, <2>2 DEF ReserveFails, vars, threadVars, irqVars
  <2>3. CASE StartSoftware(t) \/ StopSoftware(t) \/ ReleaseClear(t)
    <3>1. PICK from \in {"held", "running"}, to \in {"held", "running", "r_lock"} :
            Goto(t, from, to) /\ UNCHANGED <<ch, mask, event, callback>>
      BY <2>3 DEF StartSoftware, StopSoftware, ReleaseClear, Goto, irqVars
    <3>2. QED
      BY <3>1, GotoKnown DEF CallsBack, Masked, Notified
  <2>4. QED
    BY <1>2, <2>1, <2>2, <2>3 DEF Begin
<1>3. ASSUME NEW t \in Thread, Inside(t) PROVE IrqInv'
  <2>1. CASE ChanCreate(t) \/ CtxLoad(t) \/ ChanDestroy(t)
    <3>1. PICK from \in {"a_create", "a_load", "r_destroy"},
               to \in {"a_load", "a_evt_read", "a_mask", "r_detach"} :
            Goto(t, from, to) /\ UNCHANGED <<ch, mask, event, callback>>
      BY <2>1 DEF ChanCreate, CtxLoad, ChanDestroy, irqVars
    <3>2. QED
      BY <3>1, GotoKnown DEF CallsBack, Masked, Notified, Locked
  <2>2. CASE CtxLoadFails(t) \/ Detach(t)
    <3>1. /\ pc[t] \in {"a_load", "r_detach"} /\ UNCHANGED <<mask, event, callback>>
          /\ \A u \in Thread \ {t} : pc'[u] = pc[u] /\ ch'[u] = ch[u]
      BY <2>2, GiveBackStep DEF ChanInv, TypeOK
    <3>2. QED
      BY <3>1, KeepStep DEF Masked, CallsBack, Notified, Locked
  <2>3. QED
    BY <1>3, <2>1, <2>2, CrashKnown, TableKnown, RegistersKnown DEF Inside
<1>4. ASSUME \/ \E c \in Channel : Complete(c)
             \/ \E p \in Process : IsrClaim(p) \/ IsrCallback(p) \/ IsrReturn(p)
      PROVE  IrqInv'
  BY <1>1, <1>4 DEF Complete, IsrClaim, IsrCallback, IsrReturn, threadVars, irqVars
<1>5. CASE UNCHANGED vars
  BY <1>1, <1>5 DEF vars, threadVars, irqVars
<1>6. QED
  BY <1>2, <1>3, <1>4, <1>5, RegistersKnown DEF Next

\* irq.c of a process listens for, calls back for and notifies of channels its own threads
\* hold, and no others, for any processes, threads and channels (sdmairq_event_add and
\* sdma_channel_release).
THEOREM Listens == Spec => []ListensToOwn
<1>1. Init => ChanInv /\ IrqInv
  BY ChanInit
<1>2. (ChanInv /\ IrqInv) /\ [Next]_vars => (ChanInv /\ IrqInv)'
  BY ChanStep, KnownStep
<1>3. ChanInv /\ IrqInv => ListensToOwn
  BY DEF IrqInv, Holder, ListensToOwn
<1>4. QED
  BY <1>1, <1>2, <1>3, PTL DEF Spec
=============================================================================
