------------------------------- MODULE SdmaInit -------------------------------
(***************************************************************************)
(* The life cycle of the SDMA library: the constructor that creates the    *)
(* shared memory, sdma_init and sdma_fini in several threads of several    *)
(* processes, the count of processes that decides who resets the           *)
(* controller, and the command descriptor the first of them allocates.     *)
(*                                                                         *)
(* Modelled code: lib/dma/sdma/api.c (sdma_init, sdma_fini,                *)
(* register_init), init.c (ctor), sync.c, cmd.c (sdmacmd_cmdch_create and  *)
(* _destroy).                                                              *)
(***************************************************************************)
EXTENDS Naturals, FiniteSets

CONSTANTS
  Process,     \* the processes linked with the library
  Thread,      \* the threads that use it
  ProcOf,      \* the process of each thread
  NoThread,    \* a free mutex
  SerialLoad,  \* is the shared memory ready before a second process is loaded?
  MayFail      \* may the steps of sdma_init that can fail do so?

ASSUME ThreadAssumption == NoThread \notin Thread /\ IsFiniteSet(Thread)
ASSUME ProcessAssumption == IsFiniteSet(Process)
ASSUME ProcOfAssumption == ProcOf \in [Thread -> Process]
ASSUME FlagAssumption   == SerialLoad \in BOOLEAN /\ MayFail \in BOOLEAN

VARIABLES
  pc,        \* pc[t]: where thread t is; "out" and "up" are outside the library
  loaded,    \* loaded[p]: how far the constructor of p is
  shm,       \* "/SDMA_MUTEX": does not exist, exists, has its mutexes, is ready
  n_users,   \* n_users[p]: n_users_in_process of p
  procMutex, \* procMutex[p]: the holder of processinit_mutex of p
  libMutex,  \* libinit_mutex in the shared memory: its holder
  count,     \* process_cnt in the shared memory
  owner,     \* the process that allocated the descriptor ccb_ptr[0] points at
  live       \* is that memory still allocated?

loadVars == <<loaded, shm>>
bdVars   == <<owner, live>>
vars     == <<pc, loadVars, n_users, procMutex, libMutex, count, bdVars>>

Nobody == Thread \cup {NoThread}

\* The places of a thread: with processinit_mutex, with libinit_mutex as well.
Private  == {"prepare", "lib_lock", "proc_unlock", "fini_lock", "fini_rest"}
Counting == {"count", "reset", "command", "lib_unlock", "uncount", "destroy", "fini_unlock"}

Init ==
  /\ pc        = [t \in Thread |-> "out"]
  /\ loaded    = [p \in Process |-> "no"]
  /\ shm       = "none"
  /\ n_users   = [p \in Process |-> 0]
  /\ procMutex = [p \in Process |-> NoThread]
  /\ libMutex  = NoThread
  /\ count     = 0
  /\ owner     = NoThread
  /\ live      = FALSE

Goto(t, from, to) == pc[t] = from /\ pc' = [pc EXCEPT ![t] = to]

-----------------------------------------------------------------------------
(* ctor: the process whose shm_open(O_CREAT | O_EXCL) succeeds sets the memory up *)

Create(p) ==
  /\ loaded[p] = "no" /\ shm = "none"
  /\ loaded' = [loaded EXCEPT ![p] = "creating"]
  /\ shm' = "exists"
  /\ UNCHANGED <<pc, n_users, procMutex, libMutex, count, bdVars>>

\* shared_mem_init: the mutexes are initialised, locked or not ...
InitMutexes(p) ==
  /\ loaded[p] = "creating" /\ shm = "exists"
  /\ shm' = "mutexes"
  /\ libMutex' = NoThread
  /\ UNCHANGED <<pc, loaded, n_users, procMutex, count, bdVars>>

\* ... and then the count is cleared.
ClearCount(p) ==
  /\ loaded[p] = "creating" /\ shm = "mutexes"
  /\ loaded' = [loaded EXCEPT ![p] = "yes"]
  /\ shm' = "ready"
  /\ count' = 0
  /\ UNCHANGED <<pc, n_users, procMutex, libMutex, bdVars>>

\* The memory exists, so the constructor leaves it alone.
Attach(p) ==
  /\ loaded[p] = "no" /\ shm # "none"
  /\ SerialLoad => shm = "ready"
  /\ loaded' = [loaded EXCEPT ![p] = "yes"]
  /\ UNCHANGED <<pc, shm, n_users, procMutex, libMutex, count, bdVars>>

-----------------------------------------------------------------------------
(* sdma_init *)

\* Only the first user of a process has anything to initialise.
EnterInit(t) ==
  LET p == ProcOf[t] IN
  /\ loaded[p] = "yes" /\ procMutex[p] = NoThread
  /\ Goto(t, "out", IF n_users[p] = 0 THEN "prepare" ELSE "proc_unlock")
  /\ procMutex' = [procMutex EXCEPT ![p] = t]
  /\ n_users' = [n_users EXCEPT ![p] = @ + 1]
  /\ UNCHANGED <<loadVars, libMutex, count, bdVars>>

\* Options, shared memory, registers, interrupt and cache, all private to the process.
Prepare(t) ==
  /\ Goto(t, "prepare", "lib_lock")
  /\ UNCHANGED <<loadVars, n_users, procMutex, libMutex, count, bdVars>>

\* fail1 to fail4: everything is undone in the reverse order.
PrepareFails(t) ==
  LET p == ProcOf[t] IN
  /\ MayFail
  /\ Goto(t, "prepare", "out")
  /\ n_users' = [n_users EXCEPT ![p] = @ - 1]
  /\ procMutex' = [procMutex EXCEPT ![p] = NoThread]
  /\ UNCHANGED <<loadVars, libMutex, count, bdVars>>

\* Mutated form of LockLib: the mutex is not taken.
LockLibNot(t, from, to) ==
  /\ Goto(t, from, to)
  /\ UNCHANGED <<loadVars, n_users, procMutex, libMutex, count, bdVars>>

\* On a mutex nobody has initialised pthread_mutex_lock may fail, unnoticed.
LockLib(t, from, to) ==
  /\ Goto(t, from, to)
  /\ \/ libMutex = NoThread /\ libMutex' = t
     \/ shm = "exists" /\ UNCHANGED libMutex
  /\ UNCHANGED <<loadVars, n_users, procMutex, count, bdVars>>

UnlockLib(t) == libMutex' = IF libMutex = t THEN NoThread ELSE libMutex

InitLock(t) == LockLib(t, "lib_lock", "count")

\* sdmasync_process_cnt_incr
CountIn(t) ==
  /\ Goto(t, "count", "reset")
  /\ count' = count + 1
  /\ UNCHANGED <<loadVars, n_users, procMutex, libMutex, bdVars>>

IsFirst == count = 1

\* register_init: the first process resets the controller and everybody's channels.
RegisterInit(t) ==
  /\ Goto(t, "reset", "command")
  /\ UNCHANGED <<loadVars, n_users, procMutex, libMutex, count, bdVars>>

\* sdmacmd_cmdch_create: the first process allocates the command descriptor, the others
\* map the one ccb_ptr[0] points at.
CommandCreate(t) ==
  /\ Goto(t, "command", "lib_unlock")
  /\ IF IsFirst THEN owner' = ProcOf[t] /\ live' = TRUE ELSE UNCHANGED bdVars
  /\ UNCHANGED <<loadVars, n_users, procMutex, libMutex, count>>

\* Mutated form of CommandFails: fail5 without the decrement of process_cnt.
CommandFailsCounted(t) ==
  LET p == ProcOf[t] IN
  /\ MayFail
  /\ Goto(t, "command", "out")
  /\ IF IsFirst THEN owner' = p /\ live' = FALSE ELSE UNCHANGED bdVars
  /\ UnlockLib(t)
  /\ n_users' = [n_users EXCEPT ![p] = @ - 1]
  /\ procMutex' = [procMutex EXCEPT ![p] = NoThread]
  /\ UNCHANGED <<loadVars, count>>

\* Mutated form of CommandFails: fail5 without the unlock of libinit_mutex.
CommandFailsLocked(t) ==
  LET p == ProcOf[t] IN
  /\ MayFail
  /\ Goto(t, "command", "out")
  /\ IF IsFirst THEN owner' = p /\ live' = FALSE ELSE UNCHANGED bdVars
  /\ count' = count - 1
  /\ n_users' = [n_users EXCEPT ![p] = @ - 1]
  /\ procMutex' = [procMutex EXCEPT ![p] = NoThread]
  /\ UNCHANGED <<loadVars, libMutex>>

\* The descriptor is unmapped again, then fail5 and the labels below it.
CommandFails(t) ==
  LET p == ProcOf[t] IN
  /\ MayFail
  /\ Goto(t, "command", "out")
  /\ IF IsFirst THEN owner' = p /\ live' = FALSE ELSE UNCHANGED bdVars
  /\ count' = count - 1
  /\ UnlockLib(t)
  /\ n_users' = [n_users EXCEPT ![p] = @ - 1]
  /\ procMutex' = [procMutex EXCEPT ![p] = NoThread]
  /\ UNCHANGED loadVars

InitUnlock(t) ==
  /\ Goto(t, "lib_unlock", "proc_unlock")
  /\ UnlockLib(t)
  /\ UNCHANGED <<loadVars, n_users, procMutex, count, bdVars>>

LeaveInit(t) ==
  /\ Goto(t, "proc_unlock", "up")
  /\ procMutex' = [procMutex EXCEPT ![ProcOf[t]] = NoThread]
  /\ UNCHANGED <<loadVars, n_users, libMutex, count, bdVars>>

-----------------------------------------------------------------------------
(* sdma_fini, called once for every sdma_init that returned 0 *)

\* Mutated form of EnterFini: every user cleans up, not the last one only.
EnterFiniAlways(t) ==
  LET p == ProcOf[t] IN
  /\ procMutex[p] = NoThread
  /\ Goto(t, "up", "fini_lock")
  /\ procMutex' = [procMutex EXCEPT ![p] = t]
  /\ n_users' = [n_users EXCEPT ![p] = @ - 1]
  /\ UNCHANGED <<loadVars, libMutex, count, bdVars>>

\* Only the last user of a process has anything to clean up.
EnterFini(t) ==
  LET p == ProcOf[t] IN
  /\ procMutex[p] = NoThread
  /\ Goto(t, "up", IF n_users[p] = 1 THEN "fini_lock" ELSE "fini_rest")
  /\ procMutex' = [procMutex EXCEPT ![p] = t]
  /\ n_users' = [n_users EXCEPT ![p] = @ - 1]
  /\ UNCHANGED <<loadVars, libMutex, count, bdVars>>

FiniLock(t) == LockLib(t, "fini_lock", "uncount")

\* sdmasync_process_cnt_decr
CountOut(t) ==
  /\ Goto(t, "uncount", "destroy")
  /\ count' = count - 1
  /\ UNCHANGED <<loadVars, n_users, procMutex, libMutex, bdVars>>

\* sdmacmd_cmdch_destroy: unmapping frees what this process has allocated.
CommandDestroy(t) ==
  /\ Goto(t, "destroy", "fini_unlock")
  /\ live' = (live /\ owner # ProcOf[t])
  /\ UNCHANGED <<loadVars, n_users, procMutex, libMutex, count, owner>>

FiniUnlock(t) ==
  /\ Goto(t, "fini_unlock", "fini_rest")
  /\ UnlockLib(t)
  /\ UNCHANGED <<loadVars, n_users, procMutex, count, bdVars>>

LeaveFini(t) ==
  /\ Goto(t, "fini_rest", "out")
  /\ procMutex' = [procMutex EXCEPT ![ProcOf[t]] = NoThread]
  /\ UNCHANGED <<loadVars, n_users, libMutex, count, bdVars>>

-----------------------------------------------------------------------------
\* What a thread does once it is inside the library.
Inside(t) ==
  \/ Prepare(t) \/ PrepareFails(t)
  \/ CountIn(t) \/ RegisterInit(t) \/ CommandCreate(t) \/ CommandFails(t)
  \/ InitUnlock(t) \/ LeaveInit(t)
  \/ CountOut(t) \/ CommandDestroy(t) \/ FiniUnlock(t) \/ LeaveFini(t)

Next ==
  \/ \E p \in Process : Create(p) \/ InitMutexes(p) \/ ClearCount(p) \/ Attach(p)
  \/ \E t \in Thread : EnterInit(t) \/ EnterFini(t) \/ InitLock(t) \/ FiniLock(t) \/ Inside(t)

Spec == Init /\ [][Next]_vars

\* A thread in the library keeps running and gets libinit_mutex in its turn.  Nothing
\* makes a thread call sdma_init or sdma_fini.
Fairness ==
  \A t \in Thread : WF_vars(Inside(t)) /\ SF_vars(InitLock(t)) /\ SF_vars(FiniLock(t))

LiveSpec == Spec /\ Fairness

-----------------------------------------------------------------------------
\* The values of the library's state (sdma_init, sdma_fini, ctor).
TypeOK ==
  /\ pc \in [Thread -> {"out", "up"} \cup Private \cup Counting]
  /\ loaded \in [Process -> {"no", "creating", "yes"}]
  /\ shm \in {"none", "exists", "mutexes", "ready"}
  /\ n_users \in [Process -> Nat]
  /\ procMutex \in [Process -> Nobody]
  /\ libMutex \in Nobody
  /\ count \in Nat
  /\ owner \in Process \cup {NoThread}
  /\ live \in BOOLEAN

\* A process is joined from its increment of process_cnt to its decrement.
InCount(t) == pc[t] \in {"reset", "command", "lib_unlock", "proc_unlock", "up", "uncount", "fini_lock"}
Joined(p)  == \E t \in Thread : ProcOf[t] = p /\ InCount(t)

\* The places of a thread that has called sdma_init and not yet sdma_fini.
Using == {"prepare", "lib_lock", "count", "reset", "command", "lib_unlock", "proc_unlock", "up"}

\* process_cnt is the number of processes that use the controller and n_users_in_process
\* that of the threads of a process that do, on every path through sdma_init and sdma_fini,
\* the failing ones included.
CountsRight ==
  /\ shm = "ready" => count = Cardinality({p \in Process : Joined(p)})
  /\ \A p \in Process : n_users[p] = Cardinality({t \in Thread : ProcOf[t] = p /\ pc[t] \in Using})

\* Nobody resets the controller under another process: a process that finds itself first
\* in register_init is alone (sdmasync_is_first_process).
ResetAlone ==
  \A t \in Thread :
    pc[t] = "reset" /\ IsFirst => \A p \in Process : Joined(p) => p = ProcOf[t]

\* "allow only 1 process to init the sdma shared components at a time": as long as the
\* shared memory is ready before a second process is loaded (sdma_init, sdma_fini).
InitExclusive ==
  \A s, t \in Thread : pc[s] \in Counting /\ pc[t] \in Counting => s = t

\* "command channel already configured, so map onto the the buffer descriptor": what a
\* process that is up has mapped is allocated memory (sdmacmd_cmdch_create).
DescriptorLive == \A t \in Thread : pc[t] = "up" => live

\* No thread is stuck in the library, whichever step fails.
CallsReturn ==
  \A t \in Thread : pc[t] \in Private \cup Counting ~> pc[t] \in {"out", "up"}
===============================================================================
