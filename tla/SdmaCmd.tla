------------------------------- MODULE SdmaCmd -------------------------------
(***************************************************************************)
(* The command channel (channel 0) of the i.MX SDMA library: several       *)
(* threads of several processes load channel contexts into the controller  *)
(* through one buffer descriptor in shared physical memory.                *)
(*                                                                         *)
(* Modelled code: lib/dma/sdma/cmd.c (sdmacmd_ctx_load) and irq.c (the     *)
(* interrupt handler and the event table).  A thread stands for one call   *)
(* of sdma_channel_attach or sdma_xfer_abort and for the channel that call *)
(* loads: bd.ch is the channel named by the command word, bd.buf the       *)
(* channel whose context image the buffer address points at.               *)
(***************************************************************************)
EXTENDS Naturals, Sequences

CONSTANTS
  Process,      \* the processes linked with the library
  Thread,       \* the threads that load a context
  ProcOf,       \* the process of each thread
  NoThread,     \* "no thread": a free mutex, an empty register
  MayTimeOut,   \* may the controller take longer than SDMA_CMD_TIMOUT_NS?
  MaxPulses     \* bound of the model: the longest queue of pulses on one cmd_chid

ASSUME ThreadAssumption  == NoThread \notin Thread
ASSUME ProcOfAssumption  == ProcOf \in [Thread -> Process]
ASSUME TimeOutAssumption == MayTimeOut \in BOOLEAN
ASSUME PulsesAssumption  == MaxPulses \in Nat \ {0}

VARIABLES
  pc,       \* pc[t]: where thread t is in sdmacmd_ctx_load
  ret,      \* ret[t]: what the last call of t returns
  mutex,    \* command_mutex in the shared memory: its holder
  mask,     \* mask[p]: bit 0 of channel_mask in process p
  event,    \* event[p]: event_array[0] # NULL in process p
  isr,      \* isr[p]: the completion irq_handler of p has claimed and not answered
  pulses,   \* pulses[p]: completion pulses queued on cmd_chid of process p
  bd,       \* the command buffer descriptor cmd_bd_ptr[0]
  start,    \* SDMA_HSTART bit 0: the channel was started and has not run yet
  engine,   \* the command the controller has fetched, or NoCommand
  intr,     \* SDMA_INTR bit 0, as the thread whose command raised it
  ctx       \* ctx[t]: the image in t's slot of the context RAM since t's call began

threadVars == <<pc, ret, mutex>>
irqVars    == <<mask, event, isr>>
hwVars     == <<bd, start, engine, intr>>
vars       == <<threadVars, irqVars, pulses, hwVars, ctx>>

Nobody    == Thread \cup {NoThread}
Command   == [ch : Nobody, buf : Nobody]
NoCommand == [ch |-> NoThread, buf |-> NoThread]

\* The steps of sdmacmd_ctx_load made with command_mutex held.
Adding   == {"add_mask", "add_event"}
Filling  == {"status", "addr", "start"}
Removing == {"rem_mask", "rem_event", "unlock"}
Critical == Adding \cup Filling \cup {"wait"} \cup Removing

Init ==
  /\ pc     = [t \in Thread |-> "idle"]
  /\ ret    = [t \in Thread |-> "none"]
  /\ mutex  = NoThread
  /\ mask   = [p \in Process |-> FALSE]
  /\ event  = [p \in Process |-> FALSE]
  /\ isr    = [p \in Process |-> NoThread]
  /\ pulses = [p \in Process |-> <<>>]
  /\ bd     = [ch |-> NoThread, buf |-> NoThread, done |-> FALSE]
  /\ start  = FALSE
  /\ engine = NoCommand
  /\ intr   = NoThread
  /\ ctx    = [t \in Thread |-> NoThread]

Goto(t, from, to) == pc[t] = from /\ pc' = [pc EXCEPT ![t] = to]

-----------------------------------------------------------------------------
(* sdmacmd_ctx_load, in the order of its statements *)

\* The channel is freshly configured: its slot no longer holds this call's image.
Call(t) ==
  /\ Goto(t, "idle", "lock")
  /\ ret' = [ret EXCEPT ![t] = "none"]
  /\ ctx' = [ctx EXCEPT ![t] = NoThread]
  /\ UNCHANGED <<mutex, irqVars, pulses, hwVars>>

\* Mutated form of Lock: a mutex private to each process.
LockPrivate(t) ==
  /\ \A h \in Thread : mutex = h => ProcOf[h] # ProcOf[t]
  /\ Goto(t, "lock", "add_mask")
  /\ mutex' = t
  /\ UNCHANGED <<ret, irqVars, pulses, hwVars, ctx>>

Lock(t) ==
  /\ mutex = NoThread
  /\ Goto(t, "lock", "add_mask")
  /\ mutex' = t
  /\ UNCHANGED <<ret, irqVars, pulses, hwVars, ctx>>

\* sdmairq_event_add sets the mask bit first and stores the event after it.
EventAddMask(t) ==
  /\ Goto(t, "add_mask", "add_event")
  /\ mask' = [mask EXCEPT ![ProcOf[t]] = TRUE]
  /\ UNCHANGED <<ret, mutex, event, isr, pulses, hwVars, ctx>>

EventAddEvent(t) ==
  /\ Goto(t, "add_event", "status")
  /\ event' = [event EXCEPT ![ProcOf[t]] = TRUE]
  /\ UNCHANGED <<ret, mutex, mask, isr, pulses, hwVars, ctx>>

\* Mutated form of WriteStatus: the channel is started before the address is written.
WriteStatusAndStart(t) ==
  /\ Goto(t, "status", "addr")
  /\ bd' = [bd EXCEPT !.ch = t, !.done = TRUE]
  /\ start' = TRUE
  /\ UNCHANGED <<ret, mutex, irqVars, pulses, engine, intr, ctx>>

\* The command word, DONE bit included, is complete before the address is written.
WriteStatus(t) ==
  /\ Goto(t, "status", "addr")
  /\ bd' = [bd EXCEPT !.ch = t, !.done = TRUE]
  /\ UNCHANGED <<ret, mutex, irqVars, pulses, start, engine, intr, ctx>>

\* Mutated form of WriteAddr: the address of the previous command is left in place.
WriteAddrSkipped(t) ==
  /\ Goto(t, "addr", "start")
  /\ UNCHANGED <<ret, mutex, irqVars, pulses, hwVars, ctx>>

WriteAddr(t) ==
  /\ Goto(t, "addr", "start")
  /\ bd' = [bd EXCEPT !.buf = t]
  /\ UNCHANGED <<ret, mutex, irqVars, pulses, start, engine, intr, ctx>>

StartCommand(t) ==
  /\ Goto(t, "start", "wait")
  /\ start' = TRUE
  /\ UNCHANGED <<ret, mutex, irqVars, pulses, bd, engine, intr, ctx>>

ReceivePulse(t) ==
  LET p == ProcOf[t] IN
  /\ pulses[p] # <<>>
  /\ Goto(t, "wait", "rem_mask")
  /\ ret' = [ret EXCEPT ![t] = "ok"]
  /\ pulses' = [pulses EXCEPT ![p] = Tail(@)]
  /\ UNCHANGED <<mutex, irqVars, hwVars, ctx>>

\* Mutated form of TimeOut: the command is started again, without end.
TimeOutRetry(t) ==
  /\ MayTimeOut
  /\ pulses[ProcOf[t]] = <<>>
  /\ Goto(t, "wait", "start")
  /\ UNCHANGED <<ret, mutex, irqVars, pulses, hwVars, ctx>>

\* Mutated form of TimeOut: the error path unlocks without removing the event.
TimeOutKeepsEvent(t) ==
  /\ MayTimeOut
  /\ pulses[ProcOf[t]] = <<>>
  /\ Goto(t, "wait", "unlock")
  /\ ret' = [ret EXCEPT ![t] = "failed"]
  /\ UNCHANGED <<mutex, irqVars, pulses, hwVars, ctx>>

TimeOut(t) ==
  /\ MayTimeOut
  /\ pulses[ProcOf[t]] = <<>>
  /\ Goto(t, "wait", "rem_mask")
  /\ ret' = [ret EXCEPT ![t] = "failed"]
  /\ UNCHANGED <<mutex, irqVars, pulses, hwVars, ctx>>

\* Mutated form of EventRemoveMask: the mask bit stays set.
EventRemoveMaskSkipped(t) ==
  /\ Goto(t, "rem_mask", "rem_event")
  /\ UNCHANGED <<ret, mutex, irqVars, pulses, hwVars, ctx>>

EventRemoveMask(t) ==
  /\ Goto(t, "rem_mask", "rem_event")
  /\ mask' = [mask EXCEPT ![ProcOf[t]] = FALSE]
  /\ UNCHANGED <<ret, mutex, event, isr, pulses, hwVars, ctx>>

EventRemoveEvent(t) ==
  /\ Goto(t, "rem_event", "unlock")
  /\ event' = [event EXCEPT ![ProcOf[t]] = FALSE]
  /\ UNCHANGED <<ret, mutex, mask, isr, pulses, hwVars, ctx>>

Unlock(t) ==
  /\ Goto(t, "unlock", "idle")
  /\ mutex' = NoThread
  /\ UNCHANGED <<ret, irqVars, pulses, hwVars, ctx>>

-----------------------------------------------------------------------------
(* irq_handler of process p: it runs beside the threads of a multiprocessor, but *)
(* the kernel runs the handlers attached to one interrupt one after another      *)

\* It reads SDMA_INTR and channel_mask and clears the status bit ...
IsrClaim(p) ==
  /\ intr # NoThread /\ mask[p]
  /\ \A q \in Process : isr[q] = NoThread
  /\ isr' = [isr EXCEPT ![p] = intr]
  /\ intr' = NoThread
  /\ UNCHANGED <<threadVars, mask, event, pulses, bd, start, engine, ctx>>

\* ... and returns event_array[0], which the kernel delivers unless it is NULL.
IsrReturn(p) ==
  /\ isr[p] # NoThread
  /\ Len(pulses[p]) < MaxPulses
  /\ isr' = [isr EXCEPT ![p] = NoThread]
  /\ pulses' = IF event[p] THEN [pulses EXCEPT ![p] = Append(@, isr[p])] ELSE pulses
  /\ UNCHANGED <<threadVars, mask, event, hwVars, ctx>>

-----------------------------------------------------------------------------
(* The controller: external, as the descriptor protocol of cmd.c uses it *)

EngineFetch ==
  /\ start /\ engine = NoCommand
  /\ start' = FALSE
  /\ engine' = IF bd.done THEN [ch |-> bd.ch, buf |-> bd.buf] ELSE NoCommand
  /\ UNCHANGED <<threadVars, irqVars, pulses, bd, intr, ctx>>

\* The context is in RAM, the DONE bit is handed back, the interrupt is raised.
EngineFinish ==
  /\ engine # NoCommand
  /\ ctx' = [ctx EXCEPT ![engine.ch] = engine.buf]
  /\ bd' = [bd EXCEPT !.done = FALSE]
  /\ intr' = engine.ch
  /\ engine' = NoCommand
  /\ UNCHANGED <<threadVars, irqVars, pulses, start>>

-----------------------------------------------------------------------------
LockHeld(t) ==
  \/ EventAddMask(t) \/ EventAddEvent(t)
  \/ WriteStatus(t) \/ WriteAddr(t) \/ StartCommand(t)
  \/ ReceivePulse(t) \/ TimeOut(t)
  \/ EventRemoveMask(t) \/ EventRemoveEvent(t) \/ Unlock(t)

Next ==
  \/ \E t \in Thread : Call(t) \/ Lock(t) \/ LockHeld(t)
  \/ \E p \in Process : IsrClaim(p) \/ IsrReturn(p)
  \/ EngineFetch \/ EngineFinish

Spec == Init /\ [][Next]_vars

\* A thread in the library keeps running, and a free pthread mutex goes to each of
\* its waiters in turn.  Nothing makes a thread call, nothing is said of hardware.
ThreadFairness ==
  \A t \in Thread : WF_vars(LockHeld(t)) /\ SF_vars(Lock(t))

\* The controller answers and its interrupt is served.
ControllerFairness ==
  /\ \A p \in Process : WF_vars(IsrClaim(p)) /\ WF_vars(IsrReturn(p))
  /\ WF_vars(EngineFetch) /\ WF_vars(EngineFinish)

\* A controller that may answer late, or never.
LateSpec == Spec /\ ThreadFairness

LiveSpec == Spec /\ ThreadFairness /\ ControllerFairness

-----------------------------------------------------------------------------
(* Properties *)

\* The values the variables of the library and of the controller range over
\* (sdmacmd_ctx_load, irq_handler).
TypeOK ==
  /\ pc     \in [Thread -> {"idle", "lock"} \cup Critical]
  /\ ret    \in [Thread -> {"none", "ok", "failed"}]
  /\ mutex  \in Nobody
  /\ mask   \in [Process -> BOOLEAN]
  /\ event  \in [Process -> BOOLEAN]
  /\ isr    \in [Process -> Nobody]
  /\ pulses \in [Process -> Seq(Thread)]
  /\ bd     \in [ch : Nobody, buf : Nobody, done : BOOLEAN]
  /\ start  \in BOOLEAN
  /\ engine \in Command
  /\ intr   \in Nobody
  /\ ctx    \in [Thread -> Nobody]

\* One process at a time listens for the interrupt of channel 0, and it is the one
\* whose thread holds command_mutex: otherwise two handlers race for one status bit
\* (the event_add / event_remove pair inside the lock of sdmacmd_ctx_load).
OnlyHolderListens ==
  \A p \in Process : mask[p] \/ event[p] => mutex # NoThread /\ ProcOf[mutex] = p

\* A call that is about to return 0 has its own context in the context RAM
\* ("Load the 'context image' configured by the sdmacmd_ctx_config() func").
TruthfulReturn ==
  \A t \in Thread : ret[t] = "ok" => ctx[t] = t

\* A process that receives a completion pulse receives the one of the command its
\* own waiting thread issued ("so we don't receive notifications from other
\* processes using the command channel").
OwnNotifications ==
  \A p \in Process : \A i \in DOMAIN pulses[p] : ProcOf[pulses[p][i]] = p

\* The controller never works on a half-written descriptor: the command word of one
\* channel with the image of another (WriteStatus sets DONE before WriteAddr).
NoTornDescriptor == engine.ch = engine.buf

\* No call waits for ever: every sdmacmd_ctx_load returns, 0 or -1.
CallReturns == \A t \in Thread : pc[t] = "lock" ~> pc[t] = "idle"

\* The abstract call: busy from the request until its result is known.
AbsCall ==
  [t \in Thread |->
    IF ret[t] = "ok" THEN "ok" ELSE IF pc[t] = "idle" THEN "idle" ELSE "busy"]

Abs == INSTANCE CtxLoad WITH call <- AbsCall

\* A controller that answers in time makes sdmacmd_ctx_load keep its promise: the
\* caller's image, loaded once, before the call returns 0.
ImplementsCtxLoad == Abs!Spec
=============================================================================
