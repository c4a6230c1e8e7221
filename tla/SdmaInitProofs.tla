----------------------------- MODULE SdmaInitProofs -----------------------------
(***************************************************************************)
(* Proofs about the life cycle of the SDMA library, for every number of    *)
(* processes and threads, if the shared memory is ready before a second    *)
(* process is loaded.                                                      *)
(***************************************************************************)
EXTENDS SdmaInit, FiniteSetTheorems, TLAPS

\* What the steps of the library need to know of the types.
LockTypes ==
  /\ pc \in [Thread -> {"out", "up"} \cup Private \cup Counting]
  /\ loaded \in [Process -> {"no", "creating", "yes"}]

\* A process that is loaded finds the shared memory ready, and only threads of loaded
\* processes use the library.
LoadInv ==
  /\ \A p \in Process : loaded[p] = "yes" => shm = "ready"
  /\ \A t \in Thread : pc[t] # "out" => loaded[ProcOf[t]] = "yes"

\* Whoever is in the shared part holds libinit_mutex.
LibInv == \A t \in Thread : pc[t] \in Counting => libMutex = t

ExclusiveInv == LockTypes /\ LoadInv /\ LibInv

-----------------------------------------------------------------------------
\* The program starts with nobody in the library (ctor has not run).
LEMMA ExclusiveInit == Init => ExclusiveInv
  BY ThreadAssumption, ProcOfAssumption
     DEF Init, ExclusiveInv, LockTypes, LoadInv, LibInv, Private, Counting

\* The three steps of shared_mem_create are made before anybody is loaded, so that
\* nobody's lock is undone; a later process finds the memory ready (ctor).
LEMMA LoadStep ==
  ASSUME SerialLoad, ExclusiveInv,
         NEW p \in Process, Create(p) \/ InitMutexes(p) \/ ClearCount(p) \/ Attach(p)
  PROVE  ExclusiveInv'
<1> USE ProcOfAssumption DEF ExclusiveInv, LockTypes, LoadInv, LibInv
<1>1. CASE Create(p)
  BY <1>1 DEF Create, bdVars
<1>2. CASE InitMutexes(p)
  <2>1. \A t \in Thread : pc[t] = "out"
    BY <1>2 DEF InitMutexes
  <2>2. QED
    BY <1>2, <2>1 DEF InitMutexes, bdVars, Counting
<1>3. CASE ClearCount(p)
  BY <1>3 DEF ClearCount, bdVars
<1>4. CASE Attach(p)
  BY <1>4 DEF Attach, bdVars
<1>5. QED
  BY <1>1, <1>2, <1>3, <1>4

\* A thread enters the shared part by locking the mutex only: it is never at rest in the
\* window in which pthread_mutex_lock could fail unnoticed (LockLib).
LEMMA LockStep ==
  ASSUME SerialLoad, ExclusiveInv, NEW t \in Thread, InitLock(t) \/ FiniLock(t)
  PROVE  ExclusiveInv'
<1> USE ProcOfAssumption, ThreadAssumption DEF ExclusiveInv, LockTypes, LoadInv, LibInv
<1>1. PICK from \in {"lib_lock", "fini_lock"}, to \in {"count", "uncount"} : LockLib(t, from, to)
  BY DEF InitLock, FiniLock
<1>2. pc[t] = from /\ pc' = [pc EXCEPT ![t] = to] /\ UNCHANGED loadVars
  BY <1>1 DEF LockLib, Goto
<1>3. shm = "ready"
  BY <1>2
<1>4. libMutex = NoThread /\ libMutex' = t
  BY <1>1, <1>3 DEF LockLib
<1>5. LockTypes' /\ LoadInv'
  BY <1>2 DEF Counting, loadVars
<1>6. \A s \in Thread : s # t => pc'[s] \notin Counting
  BY <1>2, <1>4
<1>7. QED
  BY <1>4, <1>5, <1>6

\* The steps that move a thread without taking the mutex, by whether they release it.
LEMMA InsideStep ==
  ASSUME SerialLoad, ExclusiveInv, NEW t \in Thread, EnterInit(t) \/ EnterFini(t) \/ Inside(t)
  PROVE  ExclusiveInv'
<1> USE ProcOfAssumption, ThreadAssumption DEF ExclusiveInv, LockTypes, LoadInv, LibInv
<1> DEFINE Move(from, to) == pc[t] \in from /\ \E l \in to : pc' = [pc EXCEPT ![t] = l]
           Outer == {"out", "up"} \cup Private
<1>1. ASSUME NEW from, NEW to, Move(from, to), to \subseteq Outer, UNCHANGED <<loadVars, libMutex>>,
             "out" \in from => loaded[ProcOf[t]] = "yes"
      PROVE  ExclusiveInv'
  BY <1>1 DEF loadVars, Private, Counting
<1>2. ASSUME NEW from, NEW to, Move(from, to), from \subseteq Counting, to \subseteq Outer,
             UNCHANGED loadVars, UnlockLib(t)
      PROVE  ExclusiveInv'
  <2>1. libMutex = t
    BY <1>2
  <2>2. \A s \in Thread : s # t => pc'[s] \notin Counting
    BY <1>2, <2>1
  <2>3. pc'[t] \notin Counting
    BY <1>2 DEF Private, Counting
  <2>4. LockTypes' /\ LoadInv'
    BY <1>2 DEF loadVars, Private, Counting
  <2>5. QED
    BY <2>2, <2>3, <2>4
<1>3. ASSUME NEW from, NEW to, Move(from, to), from \subseteq Counting, to \subseteq Counting,
             UNCHANGED <<loadVars, libMutex>>
      PROVE  ExclusiveInv'
  BY <1>3 DEF loadVars, Private, Counting
<1>4. CASE EnterInit(t)
  <2>1. Move({"out"}, {"prepare", "proc_unlock"}) /\ loaded[ProcOf[t]] = "yes"
    BY <1>4 DEF EnterInit, Goto
  <2>2. UNCHANGED <<loadVars, libMutex>>
    BY <1>4 DEF EnterInit
  <2>3. QED
    BY <1>1, <2>1, <2>2 DEF Private
<1>5. CASE EnterFini(t)
  <2>1. Move({"up"}, {"fini_lock", "fini_rest"}) /\ UNCHANGED <<loadVars, libMutex>>
    BY <1>5 DEF EnterFini, Goto
  <2>2. QED
    BY <1>1, <2>1 DEF Private
<1>6. CASE Prepare(t) \/ PrepareFails(t)
  <2>1. Move({"prepare"}, {"lib_lock", "out"}) /\ UNCHANGED <<loadVars, libMutex>>
    BY <1>6 DEF Prepare, PrepareFails, Goto
  <2>2. QED
    BY <1>1, <2>1 DEF Private
<1>7. CASE LeaveInit(t) \/ LeaveFini(t)
  <2>1. Move({"proc_unlock", "fini_rest"}, {"up", "out"}) /\ UNCHANGED <<loadVars, libMutex>>
    BY <1>7 DEF LeaveInit, LeaveFini, Goto
  <2>2. QED
    BY <1>1, <2>1 DEF Private
<1>8. CASE CommandFails(t) \/ InitUnlock(t) \/ FiniUnlock(t)
  <2>1. Move({"command", "lib_unlock", "fini_unlock"}, {"out", "proc_unlock", "fini_rest"})
        /\ UNCHANGED loadVars /\ UnlockLib(t)
    BY <1>8 DEF CommandFails, InitUnlock, FiniUnlock, Goto
  <2>2. QED
    BY <1>2, <2>1 DEF Private, Counting
<1>9. CASE CountIn(t) \/ RegisterInit(t) \/ CommandCreate(t) \/ CountOut(t) \/ CommandDestroy(t)
  <2>1. Move({"count", "reset", "command", "uncount", "destroy"},
             {"reset", "command", "lib_unlock", "destroy", "fini_unlock"})
        /\ UNCHANGED <<loadVars, libMutex>>
    BY <1>9 DEF CountIn, RegisterInit, CommandCreate, CountOut, CommandDestroy, Goto
  <2>2. QED
    BY <1>3, <2>1 DEF Counting
<1>10. QED
  BY <1>4, <1>5, <1>6, <1>7, <1>8, <1>9 DEF Inside

LEMMA ExclusiveStep == ASSUME SerialLoad PROVE ExclusiveInv /\ [Next]_vars => ExclusiveInv'
<1> SUFFICES ASSUME ExclusiveInv, [Next]_vars PROVE ExclusiveInv'
  OBVIOUS
<1>1. CASE UNCHANGED vars
  BY <1>1 DEF vars, loadVars, ExclusiveInv, LockTypes, LoadInv, LibInv
<1>2. CASE Next
  BY <1>2, LoadStep, LockStep, InsideStep DEF Next
<1>3. QED
  BY <1>1, <1>2

\* "allow only 1 process to init the sdma shared components at a time": for any processes
\* and threads, if the shared memory is ready before a second process is loaded
\* (sdma_init and sdma_fini under libinit_mutex).
THEOREM OneAtATime == ASSUME SerialLoad PROVE Spec => []InitExclusive
<1>1. Init => ExclusiveInv
  BY ExclusiveInit
<1>2. ExclusiveInv /\ [Next]_vars => ExclusiveInv'
  BY ExclusiveStep
<1>3. ExclusiveInv => InitExclusive
  BY DEF ExclusiveInv, LibInv, InitExclusive
<1>4. QED
  BY <1>1, <1>2, <1>3, PTL DEF Spec
-----------------------------------------------------------------------------
(* The counts *)

\* The threads of process p that use the library, and the processes that are joined.
Users(p) == {t \in Thread : ProcOf[t] = p /\ pc[t] \in Using}
Members  == {p \in Process : Joined(p)}

\* The first user of a process and the last one: no other one of the process is up.
FirstOrLast == {"prepare", "lib_lock", "count", "reset", "command", "fini_lock", "uncount"}

\* Whoever is in the library holds processinit_mutex.
HeldInv ==
  /\ procMutex \in [Process -> Nobody]
  /\ \A t \in Thread : pc[t] \in Private \cup Counting => procMutex[ProcOf[t]] = t

AloneInv ==
  \A s, t \in Thread :
    s # t /\ ProcOf[s] = ProcOf[t] /\ pc[t] \in FirstOrLast => pc[s] # "up"

SumsInv ==
  /\ n_users \in [Process -> Nat]
  /\ \A p \in Process : n_users[p] = Cardinality(Users(p))
  /\ count = Cardinality(Members)

CountInv == ExclusiveInv /\ HeldInv /\ AloneInv /\ SumsInv

\* A thread of process p is where it counts, and moves.
Moves(t, from, to) == pc[t] = from /\ pc' = [pc EXCEPT ![t] = to]

LEMMA UsersFinite ==
  /\ \A p \in Process : IsFiniteSet(Users(p)) /\ Cardinality(Users(p)) \in Nat
  /\ IsFiniteSet(Members) /\ Cardinality(Members) \in Nat
<1>1. \A p \in Process : Users(p) \in SUBSET Thread
  BY DEF Users
<1>2. Members \in SUBSET Process
  BY DEF Members
<1>3. QED
  BY <1>1, <1>2, ThreadAssumption, ProcessAssumption, FS_Subset, FS_CardinalityType

\* A thread that moves joins or leaves the users of its own process only.
LEMMA UsersMove ==
  ASSUME LockTypes, NEW t \in Thread, NEW from, NEW to, Moves(t, from, to), NEW p \in Process
  PROVE  /\ p # ProcOf[t] \/ (from \in Using <=> to \in Using) => Users(p)' = Users(p)
         /\ p = ProcOf[t] /\ from \notin Using /\ to \in Using => Users(p)' = Users(p) \cup {t}
         /\ p = ProcOf[t] /\ from \in Using /\ to \notin Using => Users(p)' = Users(p) \ {t}
         /\ t \in Users(p) <=> p = ProcOf[t] /\ from \in Using
<1>1. \A s \in Thread : pc'[s] = IF s = t THEN to ELSE pc[s]
  BY DEF LockTypes, Moves
<1>2. pc[t] = from
  BY DEF Moves
<1> HIDE DEF Moves, LockTypes, Using
<1>3. QED
  BY <1>1, <1>2 DEF Users

\* The count of a process's users follows a thread that moves.
LEMMA UsersCount ==
  ASSUME LockTypes, SumsInv, NEW t \in Thread, NEW from, NEW to, Moves(t, from, to),
         \/ (from \in Using <=> to \in Using) /\ n_users' = n_users
         \/ /\ from \notin Using /\ to \in Using
            /\ n_users' = [n_users EXCEPT ![ProcOf[t]] = @ + 1]
         \/ /\ from \in Using /\ to \notin Using
            /\ n_users' = [n_users EXCEPT ![ProcOf[t]] = @ - 1]
  PROVE  n_users' \in [Process -> Nat] /\ \A p \in Process : n_users'[p] = Cardinality(Users(p)')
<1> DEFINE q == ProcOf[t]
<1>1. q \in Process
  BY ProcOfAssumption
<1>2. \A p \in Process \ {q} : Users(p)' = Users(p)
  BY UsersMove
<1>3. n_users \in [Process -> Nat] /\ \A p \in Process : n_users[p] = Cardinality(Users(p))
  BY DEF SumsInv
<1>4. IsFiniteSet(Users(q)) /\ Cardinality(Users(q)) \in Nat
  BY <1>1, UsersFinite
<1> HIDE DEF q
<1>5. CASE (from \in Using <=> to \in Using) /\ n_users' = n_users
  <2>1. Users(q)' = Users(q)
    BY <1>1, <1>5, UsersMove
  <2>2. QED
    BY <1>2, <1>3, <1>5, <2>1
<1>6. CASE from \notin Using /\ to \in Using /\ n_users' = [n_users EXCEPT ![q] = @ + 1]
  <2>1. Users(q)' = Users(q) \cup {t} /\ t \notin Users(q)
    BY <1>1, <1>6, UsersMove DEF q
  <2>2. Cardinality(Users(q)') = Cardinality(Users(q)) + 1
    BY <1>4, <2>1, FS_AddElement
  <2>3. QED
    BY <1>1, <1>2, <1>3, <1>6, <2>2
<1>7. CASE from \in Using /\ to \notin Using /\ n_users' = [n_users EXCEPT ![q] = @ - 1]
  <2>1. Users(q)' = Users(q) \ {t} /\ t \in Users(q)
    BY <1>1, <1>7, UsersMove DEF q
  <2>2. IsFiniteSet(Users(q) \ {t}) /\ Cardinality(Users(q) \ {t}) = Cardinality(Users(q)) - 1
    BY <1>4, <2>1, FS_RemoveElement
  <2>3. Cardinality(Users(q)') = Cardinality(Users(q)) - 1 /\ Cardinality(Users(q)') \in Nat
    BY <2>1, <2>2, FS_CardinalityType
  <2>4. QED
    BY <1>1, <1>2, <1>3, <1>7, <2>3
<1>8. QED
  BY <1>5, <1>6, <1>7 DEF q
\* So does the count of the processes, which only the process of that thread joins or leaves.
LEMMA MembersCount ==
  ASSUME LockTypes, SumsInv, NEW t \in Thread, NEW from, NEW to, Moves(t, from, to),
         \/ (Joined(ProcOf[t]) <=> Joined(ProcOf[t])') /\ count' = count
         \/ ~Joined(ProcOf[t]) /\ Joined(ProcOf[t])' /\ count' = count + 1
         \/ Joined(ProcOf[t]) /\ ~Joined(ProcOf[t])' /\ count' = count - 1
  PROVE  count' = Cardinality(Members')
<1> DEFINE q == ProcOf[t]
<1>1. q \in Process
  BY ProcOfAssumption
<1>2. ASSUME NEW p \in Process \ {q} PROVE Joined(p)' <=> Joined(p)
  <2>1. \A s \in Thread \ {t} : pc'[s] = pc[s]
    BY DEF LockTypes, Moves
  <2>2. \A s \in Thread : ProcOf[s] = p => s # t
    OBVIOUS
  <2> HIDE DEF q, Moves, LockTypes
  <2>3. QED
    BY <2>1, <2>2 DEF Joined, InCount
<1>3. count = Cardinality(Members) /\ IsFiniteSet(Members) /\ count \in Nat
  BY UsersFinite DEF SumsInv
<1> HIDE DEF q
<1>4. CASE (Joined(q) <=> Joined(q)') /\ count' = count
  <2>1. Members' = Members
    BY <1>1, <1>2, <1>4 DEF Members
  <2>2. QED
    BY <1>3, <1>4, <2>1
<1>5. CASE ~Joined(q) /\ Joined(q)' /\ count' = count + 1
  <2>1. Members' = Members \cup {q} /\ q \notin Members
    BY <1>1, <1>2, <1>5 DEF Members
  <2>2. QED
    BY <1>3, <1>5, <2>1, FS_AddElement
<1>6. CASE Joined(q) /\ ~Joined(q)' /\ count' = count - 1
  <2>1. Members' = Members \ {q} /\ q \in Members
    BY <1>1, <1>2, <1>6 DEF Members
  <2>2. QED
    BY <1>3, <1>6, <2>1, FS_RemoveElement
<1>7. QED
  BY <1>4, <1>5, <1>6 DEF q

\* A thread that moves to a place of the same kind changes nothing of its process.
LEMMA JoinedStays ==
  ASSUME LockTypes, NEW t \in Thread, NEW from, NEW to, Moves(t, from, to), InCount(t) <=> InCount(t)'
  PROVE  Joined(ProcOf[t]) <=> Joined(ProcOf[t])'
<1>1. \A s \in Thread \ {t} : pc'[s] = pc[s]
  BY DEF LockTypes, Moves
<1>2. \A s \in Thread : InCount(s) <=> InCount(s)'
  BY <1>1 DEF InCount
<1>3. QED
  BY <1>2 DEF Joined

\* A thread that has the mutex of its process as the first or the last user is the only one
\* of the process that can be joined.
LEMMA JoinedAlone ==
  ASSUME LockTypes, HeldInv, AloneInv, NEW t \in Thread, pc[t] \in FirstOrLast,
         NEW s \in Thread, s # t, ProcOf[s] = ProcOf[t]
  PROVE  ~InCount(s)
<1>1. pc[t] \in Private \cup Counting
  BY DEF FirstOrLast, Private, Counting
<1>2. pc[s] \notin Private \cup Counting
  BY <1>1 DEF HeldInv
<1>3. pc[s] # "up"
  BY DEF AloneInv
<1>4. QED
  BY <1>2, <1>3 DEF InCount, Private, Counting
-----------------------------------------------------------------------------
(* The steps *)

\* A step inside the library that changes no count.
LEMMA StayStep ==
  ASSUME CountInv, NEW t \in Thread, NEW from, NEW to, Moves(t, from, to),
         {from, to} \subseteq Private \cup Counting, from \in Using <=> to \in Using,
         InCount(t) <=> InCount(t)', to \in FirstOrLast => from \in FirstOrLast,
         UNCHANGED <<n_users, procMutex, count>>
  PROVE  HeldInv' /\ AloneInv' /\ SumsInv'
<1>1. LockTypes /\ SumsInv
  BY DEF CountInv, ExclusiveInv
<1>2. HeldInv'
  BY <1>1 DEF CountInv, HeldInv, Moves, LockTypes
<1>3. AloneInv'
  BY <1>1 DEF CountInv, AloneInv, Moves, LockTypes, Private, Counting
<1>4. SumsInv'
  BY <1>1, UsersCount, JoinedStays, MembersCount DEF SumsInv
<1>5. QED
  BY <1>2, <1>3, <1>4

\* The first increment and the last decrement of process_cnt.
LEMMA CountBothStep ==
  ASSUME CountInv, NEW t \in Thread, CountIn(t) \/ CountOut(t)
  PROVE  HeldInv' /\ AloneInv' /\ SumsInv'
<1>1. LockTypes /\ SumsInv /\ HeldInv /\ AloneInv
  BY DEF CountInv, ExclusiveInv
<1>2. PICK from \in {"count", "uncount"}, to \in {"reset", "destroy"} :
        /\ Moves(t, from, to) /\ UNCHANGED <<n_users, procMutex>>
        /\ from = "count" <=> to = "reset"
        /\ count' = IF from = "count" THEN count + 1 ELSE count - 1
  BY DEF CountIn, CountOut, Goto, Moves
<1>3. HeldInv'
  BY <1>1, <1>2 DEF HeldInv, Moves, LockTypes, Private, Counting
<1>4. AloneInv'
  BY <1>1, <1>2 DEF AloneInv, Moves, LockTypes, FirstOrLast
<1>5. n_users' \in [Process -> Nat] /\ \A p \in Process : n_users'[p] = Cardinality(Users(p)')
  BY <1>1, <1>2, UsersCount DEF Using
<1>6. /\ from = "count" => ~Joined(ProcOf[t]) /\ Joined(ProcOf[t])'
      /\ from = "uncount" => Joined(ProcOf[t]) /\ ~Joined(ProcOf[t])'
  <2>1. \A s \in Thread \ {t} : ProcOf[s] = ProcOf[t] => ~InCount(s) /\ ~InCount(s)'
    <3>1. pc[t] \in FirstOrLast
      BY <1>2 DEF Moves, FirstOrLast
    <3>2. \A s \in Thread \ {t} : ProcOf[s] = ProcOf[t] => ~InCount(s)
      BY <1>1, <3>1, JoinedAlone
    <3>3. \A s \in Thread \ {t} : pc'[s] = pc[s]
      BY <1>1, <1>2 DEF LockTypes, Moves
    <3>4. QED
      BY <3>2, <3>3 DEF InCount
  <2>2. /\ from = "count" => ~InCount(t) /\ InCount(t)'
        /\ from = "uncount" => InCount(t) /\ ~InCount(t)'
    BY <1>1, <1>2 DEF LockTypes, Moves, InCount
  <2>3. QED
    BY <2>1, <2>2 DEF Joined
<1>7. count' = Cardinality(Members')
  BY <1>1, <1>2, <1>6, MembersCount
<1>8. QED
  BY <1>3, <1>4, <1>5, <1>7 DEF SumsInv

\* The mutex of the process is released on the way out.
LEMMA ReleaseStep ==
  ASSUME CountInv, NEW t \in Thread,
         PrepareFails(t) \/ CommandFails(t) \/ LeaveInit(t) \/ LeaveFini(t)
  PROVE  HeldInv' /\ AloneInv' /\ SumsInv'
<1>1. LockTypes /\ SumsInv /\ HeldInv /\ AloneInv
  BY DEF CountInv, ExclusiveInv
<1>2. PICK from \in {"prepare", "command", "proc_unlock", "fini_rest"}, to \in {"out", "up"} :
        /\ Moves(t, from, to) /\ procMutex' = [procMutex EXCEPT ![ProcOf[t]] = NoThread]
        /\ to = "up" <=> from = "proc_unlock"
        /\ n_users' = IF from \in {"prepare", "command"}
                      THEN [n_users EXCEPT ![ProcOf[t]] = @ - 1] ELSE n_users
        /\ count' = IF from = "command" THEN count - 1 ELSE count
  <2> DEFINE Left(from, to) ==
        /\ Moves(t, from, to) /\ procMutex' = [procMutex EXCEPT ![ProcOf[t]] = NoThread]
        /\ n_users' = IF from \in {"prepare", "command"}
                      THEN [n_users EXCEPT ![ProcOf[t]] = @ - 1] ELSE n_users
        /\ count' = IF from = "command" THEN count - 1 ELSE count
  <2>1. PrepareFails(t) => Left("prepare", "out")
    BY DEF PrepareFails, Goto, Moves
  <2>2. CommandFails(t) => Left("command", "out")
    BY DEF CommandFails, Goto, Moves
  <2>3. LeaveInit(t) => Left("proc_unlock", "up")
    BY DEF LeaveInit, Goto, Moves
  <2>4. LeaveFini(t) => Left("fini_rest", "out")
    BY DEF LeaveFini, Goto, Moves
  <2>5. QED
    BY <2>1, <2>2, <2>3, <2>4
<1>3. procMutex[ProcOf[t]] = t /\ \A s \in Thread \ {t} : pc'[s] = pc[s]
  BY <1>1, <1>2 DEF HeldInv, Moves, LockTypes, Private, Counting
<1>4. HeldInv'
  BY <1>1, <1>2, <1>3, ProcOfAssumption DEF HeldInv, Moves, LockTypes, Nobody, Private, Counting
<1>5. AloneInv'
  <2>1. \A s \in Thread \ {t} : ProcOf[s] = ProcOf[t] => pc[s] \notin FirstOrLast
    BY <1>1, <1>3 DEF HeldInv, FirstOrLast, Private, Counting
  <2>2. pc'[t] \notin FirstOrLast
    BY <1>1, <1>2 DEF Moves, LockTypes, FirstOrLast
  <2>3. QED
    BY <1>1, <1>3, <2>1, <2>2 DEF AloneInv
<1>6. n_users' \in [Process -> Nat] /\ \A p \in Process : n_users'[p] = Cardinality(Users(p)')
  <2>1. from \in Using <=> from # "fini_rest"
    BY DEF Using
  <2>2. to \in Using <=> to = "up"
    BY DEF Using
  <2>3. QED
    BY <1>1, <1>2, <2>1, <2>2, UsersCount
<1>7. CASE from # "command"
  <2>1. InCount(t) <=> InCount(t)'
    BY <1>1, <1>2, <1>7 DEF InCount, Moves, LockTypes
  <2>2. QED
    BY <1>1, <1>2, <1>4, <1>5, <1>6, <1>7, <2>1, JoinedStays, MembersCount DEF SumsInv
<1>8. CASE from = "command"
  <2>1. InCount(t) /\ ~InCount(t)' /\ pc[t] \in FirstOrLast
    BY <1>1, <1>2, <1>8 DEF InCount, Moves, LockTypes, FirstOrLast
  <2>2. \A s \in Thread \ {t} : ProcOf[s] = ProcOf[t] => ~InCount(s)
    BY <1>1, <2>1, JoinedAlone
  <2>3. \A s \in Thread \ {t} : ProcOf[s] = ProcOf[t] => ~InCount(s)'
    BY <1>3, <2>2 DEF InCount
  <2>4. Joined(ProcOf[t]) /\ ~Joined(ProcOf[t])'
    BY <2>1, <2>3 DEF Joined
  <2>5. QED
    BY <1>1, <1>2, <1>4, <1>5, <1>6, <1>8, <2>4, MembersCount DEF SumsInv
<1>9. QED
  BY <1>7, <1>8

\* While processinit_mutex is free the users of the process are its threads that are up.
LEMMA FreeUp ==
  ASSUME CountInv, NEW p \in Process, procMutex[p] = NoThread, NEW s \in Users(p)
  PROVE  pc[s] = "up" /\ InCount(s)
<1>1. s \in Thread /\ ProcOf[s] = p /\ pc[s] \in Using
  BY DEF Users
<1>2. pc[s] \notin Private \cup Counting
  BY <1>1, ThreadAssumption DEF CountInv, HeldInv
<1>3. QED
  BY <1>1, <1>2 DEF CountInv, ExclusiveInv, LockTypes, InCount, Using

\* What a thread that takes processinit_mutex leaves as it is.
LEMMA EnterHeld ==
  ASSUME CountInv, NEW t \in Thread, NEW from, NEW to, Moves(t, from, to),
         procMutex[ProcOf[t]] = NoThread, procMutex' = [procMutex EXCEPT ![ProcOf[t]] = t]
  PROVE  HeldInv'
<1>1. LockTypes /\ HeldInv
  BY DEF CountInv, ExclusiveInv
<1>2. ProcOf[t] \in Process
  BY ProcOfAssumption
<1>3. \A s \in Thread \ {t} : pc'[s] = pc[s]
  BY <1>1 DEF LockTypes, Moves
<1>4. procMutex' \in [Process -> Nobody]
  BY <1>1 DEF HeldInv, Nobody
<1>5. \A s \in Thread : pc[s] \in Private \cup Counting => ProcOf[s] # ProcOf[t]
  BY <1>1, ThreadAssumption DEF HeldInv
<1>6. procMutex'[ProcOf[t]] = t
  BY <1>1, <1>2 DEF HeldInv
<1>7. \A s \in Thread : ProcOf[s] # ProcOf[t] => procMutex'[ProcOf[s]] = procMutex[ProcOf[s]]
  BY <1>1, ProcOfAssumption DEF HeldInv
<1> HIDE DEF Moves, LockTypes
<1>8. \A s \in Thread : pc'[s] \in Private \cup Counting => procMutex'[ProcOf[s]] = s
  BY <1>1, <1>3, <1>5, <1>6, <1>7 DEF HeldInv
<1>9. QED
  BY <1>4, <1>8 DEF HeldInv

\* The first user of a process finds nobody there; a later one finds a thread that is up.
LEMMA EnterInitStep ==
  ASSUME CountInv, NEW t \in Thread, EnterInit(t)
  PROVE  HeldInv' /\ AloneInv' /\ SumsInv'
<1> DEFINE p == ProcOf[t]
           to == IF n_users[p] = 0 THEN "prepare" ELSE "proc_unlock"
<1>1. LockTypes /\ SumsInv /\ HeldInv /\ AloneInv /\ p \in Process
  BY ProcOfAssumption DEF CountInv, ExclusiveInv
<1>2. Moves(t, "out", to) /\ procMutex[p] = NoThread /\ count' = count
      /\ procMutex' = [procMutex EXCEPT ![p] = t] /\ n_users' = [n_users EXCEPT ![p] = @ + 1]
  BY DEF EnterInit, Goto, Moves
<1>3. \A s \in Thread \ {t} : pc'[s] = pc[s]
  BY <1>1, <1>2 DEF LockTypes, Moves
<1>4. pc[t] = "out" /\ pc'[t] = to
  BY <1>1, <1>2 DEF LockTypes, Moves
<1>5. n_users[p] = Cardinality(Users(p)) /\ IsFiniteSet(Users(p))
  BY <1>1, UsersFinite DEF SumsInv
<1>6. to \in Using /\ "out" \notin Using /\ to \in {"prepare", "proc_unlock"}
  BY DEF Using
<1>7. HeldInv'
  BY <1>2, EnterHeld
<1>8. n_users' \in [Process -> Nat] /\ \A q \in Process : n_users'[q] = Cardinality(Users(q)')
  BY <1>1, <1>2, <1>6, UsersCount
<1>9. CASE n_users[p] = 0
  <2>1. Users(p) = {}
    BY <1>5, <1>9, FS_EmptySet
  <2>2. \A s \in Thread \ {t} : ProcOf[s] = p => pc[s] # "up"
    BY <2>1 DEF Users, Using
  <2>3. AloneInv'
    BY <1>1, <1>3, <1>4, <1>6, <2>2 DEF AloneInv
  <2>4. ~InCount(t) /\ ~InCount(t)'
    BY <1>4, <1>9 DEF InCount
  <2>5. Joined(p) <=> Joined(p)'
    BY <1>1, <1>2, <2>4, JoinedStays
  <2>6. QED
    BY <1>1, <1>2, <1>7, <1>8, <2>3, <2>5, MembersCount DEF SumsInv
<1>10. CASE n_users[p] # 0
  <2>1. Users(p) # {}
    BY <1>5, <1>10, FS_EmptySet
  <2>2. PICK u \in Users(p) : InCount(u)
    BY <1>1, <1>2, <2>1, FreeUp
  <2>3. u \in Thread /\ u # t /\ ProcOf[u] = p
    BY <1>4, <1>6 DEF Users
  <2>4. Joined(p) /\ Joined(p)'
    <3>1. InCount(u)'
      BY <1>3, <2>2, <2>3 DEF InCount
    <3>2. QED
      BY <2>2, <2>3, <3>1 DEF Joined
  <2>5. AloneInv'
    BY <1>1, <1>3, <1>4, <1>10 DEF AloneInv, FirstOrLast
  <2>6. QED
    BY <1>1, <1>2, <1>7, <1>8, <2>4, <2>5, MembersCount DEF SumsInv
<1>11. QED
  BY <1>9, <1>10

\* The last user of a process leaves nobody up; one that is not the last leaves another.
LEMMA EnterFiniStep ==
  ASSUME CountInv, NEW t \in Thread, EnterFini(t)
  PROVE  HeldInv' /\ AloneInv' /\ SumsInv'
<1> DEFINE p == ProcOf[t]
           to == IF n_users[p] = 1 THEN "fini_lock" ELSE "fini_rest"
<1>1. LockTypes /\ SumsInv /\ HeldInv /\ AloneInv /\ p \in Process
  BY ProcOfAssumption DEF CountInv, ExclusiveInv
<1>2. Moves(t, "up", to) /\ procMutex[p] = NoThread /\ count' = count
      /\ procMutex' = [procMutex EXCEPT ![p] = t] /\ n_users' = [n_users EXCEPT ![p] = @ - 1]
  BY DEF EnterFini, Goto, Moves
<1>3. \A s \in Thread \ {t} : pc'[s] = pc[s]
  BY <1>1, <1>2 DEF LockTypes, Moves
<1>4. pc[t] = "up" /\ pc'[t] = to
  BY <1>1, <1>2 DEF LockTypes, Moves
<1>5. n_users[p] = Cardinality(Users(p)) /\ IsFiniteSet(Users(p))
  BY <1>1, UsersFinite DEF SumsInv
<1>6. to \notin Using /\ "up" \in Using /\ to \in {"fini_lock", "fini_rest"}
  BY DEF Using
<1>7. HeldInv'
  BY <1>2, EnterHeld
<1>8. n_users' \in [Process -> Nat] /\ \A q \in Process : n_users'[q] = Cardinality(Users(q)')
  BY <1>1, <1>2, <1>6, UsersCount
<1>9. t \in Users(p)
  BY <1>4, <1>6 DEF Users
<1>10. CASE n_users[p] = 1
  <2>1. Users(p) = {t}
    <3>1. \E x : Users(p) = {x}
      BY <1>5, <1>10, FS_Singleton
    <3>2. QED
      BY <1>9, <3>1
  <2>2. \A s \in Thread \ {t} : ProcOf[s] = p => pc[s] # "up"
    BY <1>6, <2>1 DEF Users
  <2>3. AloneInv'
    BY <1>1, <1>3, <1>4, <1>6, <2>2 DEF AloneInv
  <2>4. InCount(t) /\ InCount(t)'
    BY <1>4, <1>10 DEF InCount
  <2>5. Joined(p) <=> Joined(p)'
    BY <1>1, <1>2, <2>4, JoinedStays
  <2>6. QED
    BY <1>1, <1>2, <1>7, <1>8, <2>3, <2>5, MembersCount DEF SumsInv
<1>11. CASE n_users[p] # 1
  <2>1. Users(p) # {t}
    BY <1>5, <1>11, FS_Singleton
  <2>2. PICK u \in Users(p) : u # t
    BY <1>9, <2>1
  <2>3. u \in Thread /\ ProcOf[u] = p /\ InCount(u)
    BY <1>1, <1>2, FreeUp DEF Users
  <2>4. Joined(p) /\ Joined(p)'
    <3>1. InCount(u)'
      BY <1>3, <2>2, <2>3 DEF InCount
    <3>2. QED
      BY <2>3, <3>1 DEF Joined
  <2>5. AloneInv'
    BY <1>1, <1>3, <1>4, <1>11 DEF AloneInv, FirstOrLast
  <2>6. QED
    BY <1>1, <1>2, <1>7, <1>8, <2>4, <2>5, MembersCount DEF SumsInv
<1>12. QED
  BY <1>10, <1>11
-----------------------------------------------------------------------------
\* Nobody is counted at the start.
LEMMA CountInit == Init => CountInv
<1> SUFFICES ASSUME Init PROVE CountInv
  OBVIOUS
<1>1. HeldInv /\ AloneInv
  BY ProcOfAssumption DEF Init, HeldInv, AloneInv, Nobody, Private, Counting, FirstOrLast
<1>2. \A p \in Process : Users(p) = {}
  BY DEF Init, Users, Using
<1>3. Members = {}
  BY DEF Init, Members, Joined, InCount
<1>4. SumsInv
  BY <1>2, <1>3, FS_EmptySet DEF Init, SumsInv
<1>5. QED
  BY <1>1, <1>4, ExclusiveInit DEF CountInv

\* The constructor clears the count while no thread is in the library.
LEMMA CtorStep ==
  ASSUME CountInv, NEW p \in Process, Create(p) \/ InitMutexes(p) \/ ClearCount(p) \/ Attach(p)
  PROVE  HeldInv' /\ AloneInv' /\ SumsInv'
<1>1. HeldInv /\ AloneInv /\ SumsInv /\ LoadInv /\ LockTypes
  BY DEF CountInv, ExclusiveInv
<1>2. pc' = pc /\ n_users' = n_users /\ procMutex' = procMutex
  BY DEF Create, InitMutexes, ClearCount, Attach
<1>3. HeldInv' /\ AloneInv' /\ Members' = Members /\ \A q \in Process : Users(q)' = Users(q)
  BY <1>1, <1>2 DEF HeldInv, AloneInv, Members, Users, Joined, InCount
<1>4. CASE count' = count
  BY <1>1, <1>2, <1>3, <1>4 DEF SumsInv
<1>5. CASE ClearCount(p)
  <2>1. \A t \in Thread : pc[t] = "out"
    BY <1>1, <1>5, ProcOfAssumption DEF LoadInv, ClearCount
  <2>2. Members = {}
    BY <2>1 DEF Members, Joined, InCount
  <2>3. count' = Cardinality(Members)
    BY <1>5, <2>2, FS_EmptySet DEF ClearCount
  <2>4. QED
    BY <1>1, <1>2, <1>3, <2>3 DEF SumsInv
<1>6. QED
  BY <1>4, <1>5 DEF Create, InitMutexes, Attach

\* The steps in which a thread goes on and no count changes.
LEMMA OnwardStep ==
  ASSUME CountInv, NEW t \in Thread,
         \/ Prepare(t) \/ InitLock(t) \/ RegisterInit(t) \/ CommandCreate(t) \/ InitUnlock(t)
         \/ FiniLock(t) \/ CommandDestroy(t) \/ FiniUnlock(t)
  PROVE  HeldInv' /\ AloneInv' /\ SumsInv'
<1>1. LockTypes
  BY DEF CountInv, ExclusiveInv
<1>2. UNCHANGED <<n_users, procMutex, count>>
  BY DEF Prepare, InitLock, FiniLock, LockLib, RegisterInit, CommandCreate, InitUnlock,
         CommandDestroy, FiniUnlock
<1>3. \E way \in {<<"prepare", "lib_lock">>, <<"lib_lock", "count">>, <<"reset", "command">>,
                  <<"command", "lib_unlock">>, <<"lib_unlock", "proc_unlock">>,
                  <<"fini_lock", "uncount">>, <<"destroy", "fini_unlock">>,
                  <<"fini_unlock", "fini_rest">>} : Moves(t, way[1], way[2])
  BY DEF Prepare, InitLock, FiniLock, LockLib, RegisterInit, CommandCreate, InitUnlock,
         CommandDestroy, FiniUnlock, Goto, Moves
<1>4. PICK from, to :
        /\ Moves(t, from, to) /\ {from, to} \subseteq Private \cup Counting
        /\ from \in Using <=> to \in Using
        /\ from \in {"reset", "command", "lib_unlock", "proc_unlock", "uncount", "fini_lock"}
             <=> to \in {"reset", "command", "lib_unlock", "proc_unlock", "uncount", "fini_lock"}
        /\ from # "up" /\ to # "up"
        /\ to \in FirstOrLast => from \in FirstOrLast
  BY <1>3 DEF Private, Counting, Using, FirstOrLast
<1>5. InCount(t) <=> InCount(t)'
  BY <1>1, <1>4 DEF InCount, Moves, LockTypes
<1>6. QED
  BY <1>2, <1>4, <1>5, StayStep

LEMMA CountStep == ASSUME SerialLoad PROVE CountInv /\ [Next]_vars => CountInv'
<1> SUFFICES ASSUME CountInv, [Next]_vars PROVE CountInv'
  OBVIOUS
<1>1. ExclusiveInv'
  BY ExclusiveStep DEF CountInv
<1>2. CASE UNCHANGED vars
  BY <1>1, <1>2 DEF vars, CountInv, HeldInv, AloneInv, SumsInv, Users, Members, Joined, InCount
<1>3. CASE \E p \in Process : Create(p) \/ InitMutexes(p) \/ ClearCount(p) \/ Attach(p)
  BY <1>1, <1>3, CtorStep DEF CountInv
<1>4. ASSUME NEW t \in Thread,
             EnterInit(t) \/ EnterFini(t) \/ InitLock(t) \/ FiniLock(t) \/ Inside(t)
      PROVE  HeldInv' /\ AloneInv' /\ SumsInv'
  BY <1>4, EnterInitStep, EnterFiniStep, OnwardStep, CountBothStep, ReleaseStep DEF Inside
<1>5. QED
  BY <1>1, <1>2, <1>3, <1>4 DEF Next, CountInv

\* process_cnt is the number of processes that use the controller and n_users_in_process
\* that of the threads of a process that do, whichever step of sdma_init fails.
THEOREM Counted == ASSUME SerialLoad PROVE Spec => []CountsRight
<1>1. Init => CountInv
  BY CountInit
<1>2. CountInv /\ [Next]_vars => CountInv'
  BY CountStep
<1>3. CountInv => CountsRight
  BY DEF CountInv, SumsInv, CountsRight, Users, Members
<1>4. QED
  BY <1>1, <1>2, <1>3, PTL DEF Spec

\* Nobody resets the controller under another process: the one that register_init finds
\* first by process_cnt is the only one joined.
THEOREM ResetsAlone == ASSUME SerialLoad PROVE Spec => []ResetAlone
<1>1. Init => CountInv
  BY CountInit
<1>2. CountInv /\ [Next]_vars => CountInv'
  BY CountStep
<1>3. CountInv => ResetAlone
  <2> SUFFICES ASSUME CountInv, NEW t \in Thread, pc[t] = "reset", IsFirst
               PROVE  \A p \in Process : Joined(p) => p = ProcOf[t]
    BY DEF ResetAlone
  <2>1. Cardinality(Members) = 1 /\ IsFiniteSet(Members)
    BY UsersFinite DEF CountInv, SumsInv, IsFirst
  <2>2. \E q : Members = {q}
    BY <2>1, FS_Singleton
  <2>3. ProcOf[t] \in Members
    BY ProcOfAssumption DEF Members, Joined, InCount
  <2>4. QED
    BY <2>2, <2>3 DEF Members
<1>4. QED
  BY <1>1, <1>2, <1>3, PTL DEF Spec
===============================================================================
