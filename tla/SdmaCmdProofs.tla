---------------------------- MODULE SdmaCmdProofs ----------------------------
(***************************************************************************)
(* Proofs about the command channel, for every number of processes and    *)
(* threads.  What holds whatever the controller does comes first; what     *)
(* needs a controller that answers in time (~MayTimeOut) comes second.     *)
(***************************************************************************)
EXTENDS SdmaCmd, TLAPS

-----------------------------------------------------------------------------
(* The lock, and who listens: true with late answers too *)

\* Exactly the holder of command_mutex is inside the critical section.
MutexInv == \A t \in Thread : pc[t] \in Critical <=> mutex = t

\* The mask bit and the event are set only by the holder, between its event_add
\* and its event_remove.
ListenInv ==
  \A p \in Process :
    /\ mask[p]  => /\ mutex \in Thread /\ ProcOf[mutex] = p
                   /\ pc[mutex] \in {"add_event", "wait", "rem_mask"} \cup Filling
    /\ event[p] => /\ mutex \in Thread /\ ProcOf[mutex] = p
                   /\ pc[mutex] \in {"wait", "rem_mask", "rem_event"} \cup Filling

LockInv == TypeOK /\ MutexInv /\ ListenInv

-----------------------------------------------------------------------------
(* The token: with a timely controller one completion is under way per wait *)

NoIsr   == \A p \in Process : isr[p] = NoThread
NoPulse == \A p \in Process : pulses[p] = <<>>

Quiet == ~start /\ engine = NoCommand /\ intr = NoThread /\ NoIsr /\ NoPulse

Described(h) == bd.ch = h /\ bd.buf = h /\ bd.done

\* The five places of the token of a waiting thread h.
Started(h) ==
  /\ start /\ engine = NoCommand /\ intr = NoThread /\ NoIsr /\ NoPulse
  /\ Described(h) /\ ctx[h] = NoThread
Running(h) ==
  /\ ~start /\ engine = [ch |-> h, buf |-> h] /\ intr = NoThread /\ NoIsr /\ NoPulse
  /\ ctx[h] = NoThread
Raised(h) ==
  /\ ~start /\ engine = NoCommand /\ intr = h /\ NoIsr /\ NoPulse
  /\ ctx[h] = h
Claimed(h) ==
  /\ ~start /\ engine = NoCommand /\ intr = NoThread /\ NoPulse
  /\ \A p \in Process : isr[p] = IF p = ProcOf[h] THEN h ELSE NoThread
  /\ ctx[h] = h
Pulsed(h) ==
  /\ ~start /\ engine = NoCommand /\ intr = NoThread /\ NoIsr
  /\ \A p \in Process : pulses[p] = IF p = ProcOf[h] THEN <<h>> ELSE <<>>
  /\ ctx[h] = h

Waiting(h) == Started(h) \/ Running(h) \/ Raised(h) \/ Claimed(h) \/ Pulsed(h)

\* What holds at each place of the holder h of the mutex.
HolderInv(h) ==
  /\ pc[h] = "wait" => Waiting(h)
  /\ pc[h] # "wait" => Quiet
  /\ pc[h] = "addr" => bd.ch = h /\ bd.done
  /\ pc[h] = "start" => Described(h)
  /\ pc[h] \in {"wait"} \cup Filling => event[ProcOf[h]]

TokenInv ==
  /\ mutex = NoThread => Quiet
  /\ mutex \in Thread => HolderInv(mutex)

\* A call that has not been answered has no result and, until the controller has
\* run its command, no context.
CallInv ==
  \A t \in Thread :
    /\ pc[t] = "lock" \/ pc[t] \in Adding \cup Filling => ret[t] = "none" /\ ctx[t] = NoThread
    /\ pc[t] = "wait" => ret[t] = "none"
    /\ pc[t] \in Removing => ret[t] = "ok"
    /\ ret[t] # "failed"

TimelyInv == LockInv /\ TokenInv /\ CallInv /\ TruthfulReturn

-----------------------------------------------------------------------------
(* Type correctness *)

LEMMA TypeInit == Init => TypeOK
<1> SUFFICES ASSUME Init PROVE TypeOK
  OBVIOUS
<1> USE DEF Init, Nobody
<1>1. pulses \in [Process -> Seq(Thread)]
  <2>1. <<>> \in Seq(Thread)
    OBVIOUS
  <2> QED
    BY <2>1
<1>2. /\ bd \in [ch : Nobody, buf : Nobody, done : BOOLEAN]
      /\ engine \in Command
  BY DEF NoCommand, Command
<1> QED
  BY <1>1, <1>2 DEF TypeOK

LEMMA TypeStep == TypeOK /\ [Next]_vars => TypeOK'
<1> SUFFICES ASSUME TypeOK, [Next]_vars PROVE TypeOK'
  OBVIOUS
<1> USE ProcOfAssumption DEF TypeOK, Critical, Adding, Filling, Removing, Goto, Nobody, Command,
                             NoCommand, threadVars, irqVars, hwVars
<1>1. ASSUME NEW t \in Thread, Call(t) PROVE TypeOK'
  BY <1>1 DEF Call
<1>2. ASSUME NEW t \in Thread, Lock(t) PROVE TypeOK'
  BY <1>2 DEF Lock
<1>3. ASSUME NEW t \in Thread, EventAddMask(t) \/ EventAddEvent(t) PROVE TypeOK'
  BY <1>3 DEF EventAddMask, EventAddEvent
<1>4. ASSUME NEW t \in Thread, WriteStatus(t) PROVE TypeOK'
  BY <1>4 DEF WriteStatus
<1>5. ASSUME NEW t \in Thread, WriteAddr(t) PROVE TypeOK'
  BY <1>5 DEF WriteAddr
<1>6. ASSUME NEW t \in Thread, StartCommand(t) PROVE TypeOK'
  BY <1>6 DEF StartCommand
<1>7. ASSUME NEW t \in Thread, ReceivePulse(t) PROVE TypeOK'
  <2>1. Tail(pulses[ProcOf[t]]) \in Seq(Thread)
    BY <1>7 DEF ReceivePulse
  <2> QED
    BY <1>7, <2>1 DEF ReceivePulse
<1>8. ASSUME NEW t \in Thread, TimeOut(t) PROVE TypeOK'
  BY <1>8 DEF TimeOut
<1>9. ASSUME NEW t \in Thread, EventRemoveMask(t) \/ EventRemoveEvent(t) PROVE TypeOK'
  BY <1>9 DEF EventRemoveMask, EventRemoveEvent
<1>10. ASSUME NEW t \in Thread, Unlock(t) PROVE TypeOK'
  BY <1>10 DEF Unlock
<1>11. ASSUME NEW p \in Process, IsrClaim(p) PROVE TypeOK'
  BY <1>11 DEF IsrClaim
<1>12. ASSUME NEW p \in Process, IsrReturn(p) PROVE TypeOK'
  <2>1. Append(pulses[p], isr[p]) \in Seq(Thread)
    BY <1>12 DEF IsrReturn
  <2> QED
    BY <1>12, <2>1 DEF IsrReturn
<1>13. CASE EngineFetch
  BY <1>13 DEF EngineFetch
<1>14. CASE EngineFinish
  BY <1>14 DEF EngineFinish
<1>15. CASE UNCHANGED vars
  BY <1>15 DEF vars
<1> QED
  BY <1>1, <1>2, <1>3, <1>4, <1>5, <1>6, <1>7, <1>8, <1>9, <1>10, <1>11, <1>12, <1>13, <1>14, <1>15
     DEF Next, LockHeld

\* The variables keep their types, whatever the controller does (TypeOK, of
\* sdmacmd_ctx_load and irq_handler).
THEOREM TypeCorrect == Spec => []TypeOK
BY TypeInit, TypeStep, PTL DEF Spec

-----------------------------------------------------------------------------
(* Mutual exclusion and the listener, with or without late answers *)

LEMMA LockInit == Init => LockInv
BY TypeInit, ThreadAssumption
   DEF Init, LockInv, MutexInv, ListenInv, Critical, Adding, Filling, Removing

LEMMA LockStep == LockInv /\ [Next]_vars => LockInv'
<1> SUFFICES ASSUME LockInv, [Next]_vars PROVE LockInv'
  OBVIOUS
<1>0. TypeOK'
  BY TypeStep DEF LockInv
<1> USE <1>0, ThreadAssumption, ProcOfAssumption
    DEF LockInv, TypeOK, MutexInv, ListenInv, Nobody,
        Critical, Adding, Filling, Removing, Goto, threadVars, irqVars
<1>1. ASSUME NEW t \in Thread, Call(t) PROVE LockInv'
  BY <1>1 DEF Call
<1>2. ASSUME NEW t \in Thread, Lock(t) PROVE LockInv'
  BY <1>2 DEF Lock
<1>3. ASSUME NEW t \in Thread, EventAddMask(t) PROVE LockInv'
  BY <1>3 DEF EventAddMask
<1>4. ASSUME NEW t \in Thread, EventAddEvent(t) PROVE LockInv'
  BY <1>4 DEF EventAddEvent
<1>5. ASSUME NEW t \in Thread, WriteStatus(t) \/ WriteAddr(t) \/ StartCommand(t) PROVE LockInv'
  BY <1>5 DEF WriteStatus, WriteAddr, StartCommand
<1>6. ASSUME NEW t \in Thread, ReceivePulse(t) \/ TimeOut(t) PROVE LockInv'
  BY <1>6 DEF ReceivePulse, TimeOut
<1>7. ASSUME NEW t \in Thread, EventRemoveMask(t) PROVE LockInv'
  BY <1>7 DEF EventRemoveMask
<1>8. ASSUME NEW t \in Thread, EventRemoveEvent(t) PROVE LockInv'
  BY <1>8 DEF EventRemoveEvent
<1>9. ASSUME NEW t \in Thread, Unlock(t) PROVE LockInv'
  BY <1>9 DEF Unlock
<1>10. ASSUME NEW p \in Process, IsrClaim(p) \/ IsrReturn(p) PROVE LockInv'
  BY <1>10 DEF IsrClaim, IsrReturn
<1>11. CASE EngineFetch \/ EngineFinish
  BY <1>11 DEF EngineFetch, EngineFinish
<1>12. CASE UNCHANGED vars
  BY <1>12 DEF vars
<1> QED
  BY <1>1, <1>2, <1>3, <1>4, <1>5, <1>6, <1>7, <1>8, <1>9, <1>10, <1>11, <1>12
     DEF Next, LockHeld

\* One process at a time listens for channel 0, and it is the holder's (OnlyHolderListens,
\* of the event_add / event_remove pair inside command_mutex), late answers or not.
THEOREM HolderListens == Spec => []OnlyHolderListens
<1>1. LockInv => OnlyHolderListens
  BY ThreadAssumption DEF LockInv, ListenInv, OnlyHolderListens
<1> QED
  BY <1>1, LockInit, LockStep, PTL DEF Spec

-----------------------------------------------------------------------------
(* A controller that answers in time *)

LEMMA TimelyInit == Init => TimelyInv
<1> SUFFICES ASSUME Init PROVE TimelyInv
  OBVIOUS
<1>1. LockInv
  BY LockInit
<1>2. TokenInv
  BY ThreadAssumption DEF Init, TokenInv, Quiet, NoIsr, NoPulse
<1>3. CallInv /\ TruthfulReturn
  BY DEF Init, CallInv, TruthfulReturn, Adding, Filling, Removing
<1> QED
  BY <1>1, <1>2, <1>3 DEF TimelyInv

\* A step of a thread that holds the mutex, from a place where nothing is under way.
LEMMA HolderStep ==
  ASSUME TimelyInv, NEW t \in Thread, pc[t] \in Critical
  PROVE  mutex = t /\ HolderInv(t)
BY DEF TimelyInv, LockInv, MutexInv, TokenInv

\* A step of the controller or of a handler only happens while the holder waits.
LEMMA TokenStep ==
  ASSUME TimelyInv, ~Quiet
  PROVE  mutex \in Thread /\ pc[mutex] = "wait" /\ Waiting(mutex) /\ event[ProcOf[mutex]]
BY DEF TimelyInv, LockInv, TypeOK, Nobody, TokenInv, HolderInv

LEMMA TimelyStep == ~MayTimeOut /\ TimelyInv /\ [Next]_vars => TimelyInv'
<1> SUFFICES ASSUME ~MayTimeOut, TimelyInv, [Next]_vars PROVE TimelyInv'
  OBVIOUS
<1>0. LockInv'
  BY LockStep DEF TimelyInv
<1> USE <1>0, ThreadAssumption, ProcOfAssumption
<1>a. TypeOK /\ TypeOK' /\ MutexInv /\ MutexInv' /\ LockInv
  BY DEF LockInv, TimelyInv
<1>b. SUFFICES TokenInv' /\ CallInv' /\ TruthfulReturn'
  BY DEF TimelyInv
<1>c. TokenInv /\ CallInv /\ TruthfulReturn
  BY DEF TimelyInv
<1> DEFINE Goal == TokenInv' /\ CallInv' /\ TruthfulReturn'
<1> USE DEF Goto, threadVars, irqVars, hwVars
<1>1. ASSUME NEW t \in Thread, Call(t) PROVE Goal
  <2>1. CallInv' /\ TruthfulReturn'
    BY <1>1, <1>a, <1>c DEF Call, CallInv, TruthfulReturn, TypeOK, Adding, Filling, Removing
  <2>2. mutex # t
    BY <1>1, <1>a DEF Call, MutexInv, Critical, Adding, Filling, Removing
  <2>3. TokenInv'
    BY <1>1, <1>a, <1>c, <2>2
       DEF Call, TokenInv, HolderInv, Waiting, Started, Running, Raised, Claimed, Pulsed,
           Quiet, NoIsr, NoPulse, Described, TypeOK
  <2> QED
    BY <2>1, <2>3
<1>2. ASSUME NEW t \in Thread, Lock(t) PROVE Goal
  <2>1. CallInv' /\ TruthfulReturn'
    BY <1>2, <1>a, <1>c DEF Lock, CallInv, TruthfulReturn, TypeOK, Adding, Filling, Removing
  <2>2. Quiet /\ Quiet'
    BY <1>2, <1>c DEF Lock, TokenInv, Quiet, NoIsr, NoPulse
  <2>3. mutex' = t /\ pc'[t] = "add_mask"
    BY <1>2, <1>a DEF Lock, TypeOK
  <2>4. TokenInv'
    BY <2>2, <2>3 DEF TokenInv, HolderInv, Filling
  <2> QED
    BY <2>1, <2>4
<1>3. ASSUME NEW t \in Thread,
             EventAddMask(t) \/ EventAddEvent(t) \/ WriteStatus(t) \/ WriteAddr(t) PROVE Goal
  <2>1. CallInv' /\ TruthfulReturn'
    BY <1>3, <1>a, <1>c
       DEF EventAddMask, EventAddEvent, WriteStatus, WriteAddr,
           CallInv, TruthfulReturn, TypeOK, Adding, Filling, Removing
  <2>2. mutex = t /\ HolderInv(t)
    BY <1>3, HolderStep
       DEF EventAddMask, EventAddEvent, WriteStatus, WriteAddr, Critical, Adding, Filling
  <2>3. Quiet /\ Quiet'
    BY <1>3, <2>2
       DEF EventAddMask, EventAddEvent, WriteStatus, WriteAddr, HolderInv, Quiet, NoIsr, NoPulse
  <2>4. mutex' = t /\ pc'[t] # "wait"
    BY <1>3, <1>a, <2>2 DEF EventAddMask, EventAddEvent, WriteStatus, WriteAddr, TypeOK
  <2>5. HolderInv(t)'
    BY <1>3, <1>a, <2>2, <2>3
       DEF EventAddMask, EventAddEvent, WriteStatus, WriteAddr, TypeOK, HolderInv, Described, Filling
  <2> QED
    BY <2>1, <2>4, <2>5 DEF TokenInv
<1>4. ASSUME NEW t \in Thread, StartCommand(t) PROVE Goal
  <2>1. CallInv' /\ TruthfulReturn'
    BY <1>4, <1>a, <1>c
       DEF StartCommand, CallInv, TruthfulReturn, TypeOK, Adding, Filling, Removing
  <2>2. mutex = t /\ HolderInv(t) /\ ctx[t] = NoThread
    BY <1>4, <1>c, HolderStep DEF StartCommand, Critical, Filling, CallInv
  <2>3. Started(t)'
    BY <1>4, <2>2 DEF StartCommand, HolderInv, Quiet, NoIsr, NoPulse, Started, Described
  <2>4. mutex' = t /\ pc'[t] = "wait" /\ event'[ProcOf[t]]
    BY <1>4, <1>a, <2>2 DEF StartCommand, TypeOK, HolderInv, Filling
  <2>5. HolderInv(t)'
    BY <2>3, <2>4 DEF HolderInv, Waiting
  <2> QED
    BY <2>1, <2>4, <2>5 DEF TokenInv
<1>5. ASSUME NEW t \in Thread, ReceivePulse(t) PROVE Goal
  <2>1. mutex = t /\ HolderInv(t)
    BY <1>5, HolderStep DEF ReceivePulse, Critical
  <2>2. Pulsed(t)
    BY <1>5, <2>1, <1>a
       DEF ReceivePulse, HolderInv, Waiting, Started, Running, Raised, Claimed, NoPulse, TypeOK
  <2>3. CallInv' /\ TruthfulReturn'
    BY <1>5, <1>a, <1>c, <2>2
       DEF ReceivePulse, CallInv, TruthfulReturn, TypeOK, Adding, Filling, Removing, Pulsed
  <2>4. Quiet'
    <3>1. pulses[ProcOf[t]] = <<t>>
      BY <2>2 DEF Pulsed
    <3>2. Tail(<<t>>) = <<>>
      OBVIOUS
    <3> QED
      BY <1>5, <1>a, <2>2, <3>1, <3>2 DEF ReceivePulse, Pulsed, Quiet, NoIsr, NoPulse, TypeOK
  <2>5. mutex' = t /\ pc'[t] = "rem_mask"
    BY <1>5, <1>a, <2>1 DEF ReceivePulse, TypeOK
  <2> QED
    BY <2>3, <2>4, <2>5 DEF TokenInv, HolderInv, Filling
<1>6. ASSUME NEW t \in Thread, TimeOut(t) PROVE Goal
  BY <1>6 DEF TimeOut
<1>7. ASSUME NEW t \in Thread, EventRemoveMask(t) \/ EventRemoveEvent(t) \/ Unlock(t) PROVE Goal
  <2>1. CallInv' /\ TruthfulReturn'
    BY <1>7, <1>a, <1>c
       DEF EventRemoveMask, EventRemoveEvent, Unlock,
           CallInv, TruthfulReturn, TypeOK, Adding, Filling, Removing
  <2>2. mutex = t /\ HolderInv(t)
    BY <1>7, HolderStep DEF EventRemoveMask, EventRemoveEvent, Unlock, Critical, Removing
  <2>3. Quiet /\ Quiet'
    BY <1>7, <2>2 DEF EventRemoveMask, EventRemoveEvent, Unlock, HolderInv, Quiet, NoIsr, NoPulse
  <2>4. /\ mutex' \in Thread => mutex' = t
        /\ pc'[t] \notin {"wait"} \cup Filling
    BY <1>7, <1>a, <2>2 DEF EventRemoveMask, EventRemoveEvent, Unlock, TypeOK, Filling
  <2> QED
    BY <2>1, <2>3, <2>4 DEF TokenInv, HolderInv, Filling
<1>8. ASSUME NEW p \in Process, IsrClaim(p) PROVE Goal
  <2>1. CallInv' /\ TruthfulReturn'
    BY <1>8, <1>c DEF IsrClaim, CallInv, TruthfulReturn
  <2>2. PICK h \in Thread : h = mutex /\ pc[h] = "wait" /\ Raised(h) /\ event[ProcOf[h]]
    BY <1>8, TokenStep
       DEF IsrClaim, Quiet, Waiting, Started, Running, Raised, Claimed, Pulsed
  <2>3. p = ProcOf[h]
    BY <1>8, <1>a, <2>2 DEF IsrClaim, LockInv, ListenInv
  <2>4. Claimed(h)'
    BY <1>8, <1>a, <2>2, <2>3 DEF IsrClaim, Raised, Claimed, TypeOK, NoIsr, NoPulse
  <2>5. HolderInv(h)'
    BY <1>8, <2>2, <2>4 DEF IsrClaim, HolderInv, Waiting
  <2>6. mutex' = h
    BY <1>8, <2>2 DEF IsrClaim
  <2> QED
    BY <2>1, <2>5, <2>6 DEF TokenInv
<1>9. ASSUME NEW p \in Process, IsrReturn(p) PROVE Goal
  <2>1. CallInv' /\ TruthfulReturn'
    BY <1>9, <1>c DEF IsrReturn, CallInv, TruthfulReturn
  <2>2. PICK h \in Thread : h = mutex /\ pc[h] = "wait" /\ Claimed(h) /\ event[ProcOf[h]]
    BY <1>9, TokenStep
       DEF IsrReturn, Quiet, Waiting, Started, Running, Raised, Claimed, Pulsed, NoIsr
  <2>3. p = ProcOf[h] /\ isr[p] = h /\ pulses[p] = <<>>
    BY <1>9, <2>2 DEF IsrReturn, Claimed, NoPulse
  <2>4. Append(pulses[p], isr[p]) = <<h>>
    BY <2>3
  <2>5. /\ pulses' = [pulses EXCEPT ![p] = <<h>>]
        /\ isr' = [isr EXCEPT ![p] = NoThread]
    BY <1>9, <2>2, <2>3, <2>4 DEF IsrReturn
  <2>6. NoIsr' /\ \A q \in Process : pulses'[q] = IF q = ProcOf[h] THEN <<h>> ELSE <<>>
    BY <1>a, <2>2, <2>3, <2>5 DEF Claimed, NoIsr, NoPulse, TypeOK
  <2>7. Pulsed(h)'
    BY <1>9, <2>2, <2>6 DEF IsrReturn, Claimed, Pulsed
  <2>8. HolderInv(h)'
    BY <1>9, <2>2, <2>7 DEF IsrReturn, HolderInv, Waiting
  <2>9. mutex' = h
    BY <1>9, <2>2 DEF IsrReturn
  <2> QED
    BY <2>1, <2>8, <2>9 DEF TokenInv
<1>10. CASE EngineFetch
  <2>1. CallInv' /\ TruthfulReturn'
    BY <1>10, <1>c DEF EngineFetch, CallInv, TruthfulReturn
  <2>2. PICK h \in Thread : h = mutex /\ pc[h] = "wait" /\ Started(h) /\ event[ProcOf[h]]
    BY <1>10, TokenStep
       DEF EngineFetch, Quiet, Waiting, Started, Running, Raised, Claimed, Pulsed
  <2>3. Running(h)'
    BY <1>10, <2>2 DEF EngineFetch, Started, Running, Described, NoIsr, NoPulse
  <2>4. HolderInv(h)' /\ mutex' = h
    BY <1>10, <2>2, <2>3 DEF EngineFetch, HolderInv, Waiting
  <2> QED
    BY <2>1, <2>4 DEF TokenInv
<1>11. CASE EngineFinish
  <2>1. PICK h \in Thread : h = mutex /\ pc[h] = "wait" /\ Running(h) /\ event[ProcOf[h]]
    BY <1>11, TokenStep
       DEF EngineFinish, Quiet, Waiting, Started, Running, Raised, Claimed, Pulsed
  <2>2. engine.ch = h /\ engine.buf = h /\ ctx' = [ctx EXCEPT ![h] = h]
    BY <1>11, <2>1 DEF EngineFinish, Running
  <2>3. CallInv' /\ TruthfulReturn'
    BY <1>11, <1>a, <1>c, <2>1, <2>2
       DEF EngineFinish, CallInv, TruthfulReturn, TypeOK, Adding, Filling
  <2>4. Raised(h)'
    BY <1>11, <1>a, <2>1, <2>2 DEF EngineFinish, Running, Raised, TypeOK, NoIsr, NoPulse
  <2>5. HolderInv(h)' /\ mutex' = h
    BY <1>11, <2>1, <2>4 DEF EngineFinish, HolderInv, Waiting
  <2> QED
    BY <2>3, <2>5 DEF TokenInv
<1>12. CASE UNCHANGED vars
  <2>1. CallInv' /\ TruthfulReturn'
    BY <1>12, <1>c DEF vars, CallInv, TruthfulReturn
  <2>2. TokenInv'
    BY <1>12, <1>c DEF vars, TokenInv, HolderInv, Waiting, Started, Running, Raised, Claimed, Pulsed,
                       Quiet, NoIsr, NoPulse, Described
  <2> QED
    BY <2>1, <2>2
<1> QED
  BY <1>1, <1>2, <1>3, <1>4, <1>5, <1>6, <1>7, <1>8, <1>9, <1>10, <1>11, <1>12
     DEF Next, LockHeld

-----------------------------------------------------------------------------
(* What the library promises when the controller answers in time *)

LEMMA TimelyAlways == ASSUME ~MayTimeOut PROVE Spec => []TimelyInv
<1>1. TimelyInv /\ [Next]_vars => TimelyInv'
  BY TimelyStep
<1> QED
  BY <1>1, TimelyInit, PTL DEF Spec

\* A call that returns 0 has loaded its own context (TruthfulReturn, the promise of
\* sdmacmd_ctx_load), if no command outlasts SDMA_CMD_TIMOUT_NS.
THEOREM TimelyTruth == ASSUME ~MayTimeOut PROVE Spec => []TruthfulReturn
<1>1. TimelyInv => TruthfulReturn
  BY DEF TimelyInv
<1> QED
  BY <1>1, TimelyAlways, PTL

\* No process receives another's completion (OwnNotifications, the reason sdmacmd_ctx_load
\* removes its event), if no command outlasts SDMA_CMD_TIMOUT_NS.
THEOREM TimelyOwn == ASSUME ~MayTimeOut PROVE Spec => []OwnNotifications
<1>1. ASSUME TimelyInv PROVE OwnNotifications
  <2>1. CASE Quiet
    BY <2>1 DEF Quiet, NoPulse, OwnNotifications
  <2>2. CASE ~Quiet
    <3>1. Waiting(mutex) /\ mutex \in Thread
      BY <1>1, <2>2, TokenStep
    <3>2. ASSUME NEW p \in Process
          PROVE  pulses[p] = <<>> \/ (p = ProcOf[mutex] /\ pulses[p] = <<mutex>>)
      BY <3>1 DEF Waiting, Started, Running, Raised, Claimed, Pulsed, NoPulse
    <3>3. \A i \in DOMAIN <<mutex>> : <<mutex>>[i] = mutex
      OBVIOUS
    <3> QED
      BY <3>2, <3>3 DEF OwnNotifications
  <2> QED
    BY <2>1, <2>2
<1> QED
  BY <1>1, TimelyAlways, PTL

\* The controller never fetches the command word of one channel with the image of another
\* (NoTornDescriptor, of the order of stores in sdmacmd_ctx_load), under the same condition.
THEOREM TimelyDescriptor == ASSUME ~MayTimeOut PROVE Spec => []NoTornDescriptor
<1>1. ASSUME TimelyInv PROVE NoTornDescriptor
  <2>1. CASE Quiet
    BY <2>1 DEF Quiet, NoCommand, NoTornDescriptor
  <2>2. CASE ~Quiet
    BY <1>1, <2>2, TokenStep
       DEF Waiting, Started, Running, Raised, Claimed, Pulsed, NoCommand, NoTornDescriptor
  <2> QED
    BY <2>1, <2>2
<1> QED
  BY <1>1, TimelyAlways, PTL

-----------------------------------------------------------------------------
(* Refinement of the abstract call *)

LEMMA AbsInit == Init => Abs!Init
BY DEF Init, Abs!Init, AbsCall

LEMMA AbsStep ==
  ~MayTimeOut /\ TimelyInv /\ TimelyInv' /\ [Next]_vars => [Abs!Next]_(Abs!vars)
<1> SUFFICES ASSUME ~MayTimeOut, TimelyInv, TimelyInv', [Next]_vars
             PROVE  Abs!Next \/ UNCHANGED <<AbsCall, ctx>>
  BY DEF Abs!vars
<1> USE ThreadAssumption DEF Goto, threadVars, irqVars, hwVars
<1>a. TypeOK /\ CallInv /\ TruthfulReturn /\ MutexInv
  BY DEF TimelyInv, LockInv
<1>1. ASSUME NEW t \in Thread, Call(t) PROVE Abs!Request(t)
  BY <1>1, <1>a DEF Call, Abs!Request, AbsCall, TypeOK, CallInv
<1>2. ASSUME NEW t \in Thread,
             Lock(t) \/ EventAddMask(t) \/ EventAddEvent(t) \/ WriteStatus(t) \/ WriteAddr(t)
             \/ StartCommand(t) \/ EventRemoveMask(t) \/ EventRemoveEvent(t)
      PROVE  UNCHANGED <<AbsCall, ctx>>
  BY <1>2, <1>a
     DEF Lock, EventAddMask, EventAddEvent, WriteStatus, WriteAddr, StartCommand,
         EventRemoveMask, EventRemoveEvent, AbsCall, TypeOK
<1>3. ASSUME NEW t \in Thread, ReceivePulse(t) PROVE Abs!Return(t)
  <2>1. ret[t] = "none" /\ ret' = [ret EXCEPT ![t] = "ok"] /\ ctx' = ctx
    BY <1>3, <1>a DEF ReceivePulse, CallInv
  <2>2. ctx[t] = t
    BY <2>1, <1>a DEF TimelyInv, TruthfulReturn, TypeOK
  <2> QED
    BY <1>3, <1>a, <2>1, <2>2 DEF ReceivePulse, Abs!Return, AbsCall, TypeOK
<1>4. ASSUME NEW t \in Thread, TimeOut(t) PROVE FALSE
  BY <1>4 DEF TimeOut
<1>5. ASSUME NEW t \in Thread, Unlock(t) PROVE UNCHANGED <<AbsCall, ctx>>
  <2>1. ret[t] = "ok"
    BY <1>5, <1>a DEF Unlock, CallInv, Removing
  <2> QED
    BY <1>5, <1>a, <2>1 DEF Unlock, AbsCall, TypeOK
<1>6. ASSUME NEW p \in Process, IsrClaim(p) \/ IsrReturn(p) PROVE UNCHANGED <<AbsCall, ctx>>
  BY <1>6 DEF IsrClaim, IsrReturn, AbsCall
<1>7. CASE EngineFetch
  BY <1>7 DEF EngineFetch, AbsCall
<1>8. CASE EngineFinish
  <2>1. PICK h \in Thread : pc[h] = "wait" /\ Running(h)
    BY <1>8, TokenStep
       DEF EngineFinish, Quiet, Waiting, Started, Running, Raised, Claimed, Pulsed
  <2>2. ctx[h] = NoThread /\ ctx' = [ctx EXCEPT ![h] = h] /\ UNCHANGED <<pc, ret>>
    BY <1>8, <2>1 DEF EngineFinish, Running
  <2>3. ret[h] = "none"
    BY <1>a, <2>1 DEF CallInv
  <2> QED
    BY <2>1, <2>2, <2>3 DEF Abs!Load, Abs!Next, AbsCall
<1>9. CASE UNCHANGED vars
  BY <1>9 DEF vars, AbsCall
<1> QED
  BY <1>1, <1>2, <1>3, <1>4, <1>5, <1>6, <1>7, <1>8, <1>9 DEF Next, LockHeld, Abs!Next

\* The protocol of mutex, descriptor, interrupt and pulse keeps the promise of CtxLoad
\* (ImplementsCtxLoad, of sdmacmd_ctx_load), if no command outlasts SDMA_CMD_TIMOUT_NS.
THEOREM TimelyRefines == ASSUME ~MayTimeOut PROVE Spec => ImplementsCtxLoad
<1>1. TimelyInv /\ TimelyInv' /\ [Next]_vars => [Abs!Next]_(Abs!vars)
  BY AbsStep
<1> QED
  BY <1>1, AbsInit, TimelyAlways, PTL DEF Spec, ImplementsCtxLoad, Abs!Spec

=============================================================================
