-------------------------------- MODULE EnetTx --------------------------------
(***************************************************************************)
(* The transmit side of the Ethernet driver: a ring of descriptors between *)
(* the driver and the controller, mx6q_start called by the stack and by    *)
(* the interrupt's work, the periodic monitor, and stopping the interface. *)
(*                                                                         *)
(* Modelled code: hardware/devnp/mx6x, transmit.c, event.c, mii.c and      *)
(* mx6q_stop of detect.c, for the one queue of the i.MX6Q.  The receive    *)
(* side is EnetRx.  The controller is external.                            *)
(***************************************************************************)
EXTENDS Naturals, Sequences, FiniteSets

CONSTANTS
  N,           \* num_tx_descriptors
  MaxFrags,    \* MX6Q_MAX_FRAGS
  Frames,      \* bound: the frames the stack ever sends
  Polls,       \* bound: the PHY accesses of the monitor
  LosesKick,   \* does the controller ignore a kick in the last frame it knows of?
  StopsBusy    \* is the interface stopped while frames are pending?

ASSUME RingAssumption  == N \in Nat /\ MaxFrags \in Nat \ {0} /\ 2 * MaxFrags < N
ASSUME BoundAssumption == Frames \in Nat /\ Polls \in Nat
ASSUME KindAssumption  == {LosesKick, StopsBusy} \subseteq BOOLEAN

VARIABLES
  q,        \* the ring: descriptors, tx_pkts, tx_pidx, tx_cidx, tx_descr_inuse
  oactive,  \* IFF_OACTIVE: the stack does not call mx6q_start
  lock,     \* if_snd_ex: its holder
  pc,       \* pc[p]: where process p is
  cur,      \* cur[p]: the first and the last descriptor p is filling
  offered,  \* the frames the stack has put in if_snd, taken of them put in the ring
  taken,
  reaped,   \* tx_reaped
  seen,     \* is the transmit bit in the value mii.c has read from IEVENT?
  polls,    \* the PHY accesses so far
  eng,      \* the controller: next descriptor, in a frame, has seen no next frame
  tdar,     \* X_DES_ACTIVE
  tfint,    \* TFINT in IEVENT
  tfien,    \* TFIEN in IMASK
  asleep,   \* ECNTRL_SLEEP
  sent,     \* the frames on the wire, in order
  freed,    \* the frames whose buffers are freed
  mishap    \* history: a "kick" ignored, an "event" cleared by mii.c, "short" of descriptors

swVars  == <<q, oactive, lock, pc, cur, offered, taken, reaped, seen, polls, freed>>
hwVars  == <<eng, tdar, tfint, tfien, asleep, sent>>
vars    == <<swVars, hwVars, mishap>>

Process == {"send", "intr", "stack"}
Nobody  == "nobody"
Ring    == 0 .. N - 1
Clean   == [r |-> FALSE, l |-> FALSE, bdu |-> FALSE, f |-> 0]

\* The descriptor k places after i (NEXT_TX k times), and the places from i to j.
After(i, k) == IF i + k >= N THEN i + k - N ELSE i + k
Dist(i, j)  == IF i <= j THEN j - i ELSE N + j - i

Init ==
  /\ q = [bd |-> [i \in Ring |-> Clean], pkt |-> [i \in Ring |-> 0],
          pidx |-> 0, cidx |-> 0, inuse |-> 0]
  /\ oactive = FALSE
  /\ lock = Nobody
  /\ pc = [p \in Process |-> "away"]
  /\ cur = [p \in Process |-> <<0, 0>>]
  /\ offered = 0 /\ taken = 0
  /\ reaped = FALSE /\ seen = FALSE /\ polls = 0
  /\ eng = [i |-> 0, busy |-> FALSE, missed |-> FALSE]
  /\ tdar = FALSE /\ tfint = FALSE /\ tfien = TRUE /\ asleep = FALSE
  /\ sent = <<>>
  /\ freed = {}
  /\ mishap = {}

-----------------------------------------------------------------------------
(* mx6q_transmit_complete, and the loading of descriptors in mx6q_tx *)

\* Mutated form of Done: the READY bit is not looked at.
DoneNoReady(b) == b.l => b.bdu

\* The controller does not own the descriptor any more.
Done(b) == ~b.r /\ (b.l => b.bdu)

\* The number of descriptors reaped from ring s: all that are done, up to the producer.
Reapable(s) ==
  Cardinality({k \in 1 .. Dist(s.cidx, s.pidx) :
                 \A j \in 0 .. k - 1 : Done(s.bd[After(s.cidx, j)])})

Window(s, i) == Dist(s.cidx, i) < Reapable(s)

\* Mutated form of Reap: the count is reset.
ReapResets(s) ==
  [bd    |-> [i \in Ring |-> IF Window(s, i) THEN Clean ELSE s.bd[i]],
   pkt   |-> [i \in Ring |-> IF Window(s, i) THEN 0 ELSE s.pkt[i]],
   pidx  |-> s.pidx, cidx  |-> After(s.cidx, Reapable(s)), inuse |-> 0]

Reap(s) ==
  [bd    |-> [i \in Ring |-> IF Window(s, i) THEN Clean ELSE s.bd[i]],
   pkt   |-> [i \in Ring |-> IF Window(s, i) THEN 0 ELSE s.pkt[i]],
   pidx  |-> s.pidx,
   cidx  |-> After(s.cidx, Reapable(s)),
   inuse |-> s.inuse - Reapable(s)]

\* The frames whose buffers a reaping of s frees.
Frees(s) == {s.pkt[i] : i \in {j \in Ring : Window(s, j)}} \ {0}

\* The next m descriptors point at the fragments of frame f; all but the first are READY.
Fill(s, f, m) ==
  [i \in Ring |-> IF Dist(s.pidx, i) < m
                  THEN [s.bd[i] EXCEPT !.f = f, !.r = (i # s.pidx)] ELSE s.bd[i]]

Load(s, f, n) ==
  [s EXCEPT !.bd = Fill(s, f, n), !.pkt[s.pidx] = f,
            !.pidx = After(s.pidx, n), !.inuse = @ + n]

\* The first of the next n descriptors that is READY already, n if none is.
Hit(s, n) == CHOOSE k \in 0 .. n : /\ \A j \in 0 .. k - 1 : ~s.bd[After(s.pidx, j)].r
                                   /\ k < n => s.bd[After(s.pidx, k)].r

-----------------------------------------------------------------------------
(* mx6q_start, called with if_snd_ex held *)

Goto(p, from, to) == pc[p] = from /\ pc' = [pc EXCEPT ![p] = to]

Home(p) == IF p = "send" THEN "away" ELSE "i_read"

\* Mutated form of Short: as many descriptors as a frame may need are enough.
ShortEqual(s) == N - s.inuse < MaxFrags

Short(s) == N - s.inuse <= MaxFrags

\* The ring at the top of the loop, reaped if it is short of descriptors.
Looked == IF Short(q) THEN Reap(q) ELSE q

LookAtRing ==
  /\ freed' = freed \cup IF Short(q) THEN Frees(q) ELSE {}
  /\ reaped' = (reaped \/ Short(q))

\* The stack queues a frame and, unless the transmitter is out of descriptors, starts it.
\* IFF_RUNNING of if_flags_tx is set by the first mx6q_init and never cleared.
SendFrame ==
  /\ pc["send"] = "away" /\ lock = Nobody /\ offered < Frames
  /\ offered' = offered + 1
  /\ IF oactive THEN UNCHANGED <<oactive, lock, pc>>
     ELSE oactive' = TRUE /\ lock' = "send" /\ pc' = [pc EXCEPT !["send"] = "loop"]
  /\ UNCHANGED <<q, cur, taken, reaped, seen, polls, freed, hwVars, mishap>>

\* IFF_OACTIVE stays, so that the stack does not call again.
OutOfDescriptors(p) ==
  /\ Goto(p, "loop", Home(p)) /\ Short(Looked)
  /\ q' = Looked /\ LookAtRing
  /\ lock' = Nobody
  /\ mishap' = mishap \cup {"short"}
  /\ UNCHANGED <<oactive, cur, offered, taken, seen, polls, hwVars>>

QueueEmpty(p) ==
  /\ Goto(p, "loop", Home(p)) /\ ~Short(Looked) /\ taken = offered
  /\ q' = Looked /\ LookAtRing
  /\ oactive' = FALSE /\ lock' = Nobody
  /\ UNCHANGED <<cur, offered, taken, seen, polls, hwVars, mishap>>

\* mx6q_defrag finds no memory for a frame of too many fragments: it is dropped as if it had
\* never been offered.
DropFrame(p) ==
  /\ pc[p] = "loop" /\ ~Short(Looked) /\ taken < offered
  /\ offered' = offered - 1
  /\ q' = Looked /\ LookAtRing
  /\ UNCHANGED <<oactive, lock, pc, cur, taken, seen, polls, hwVars, mishap>>

\* mx6q_tx up to the first READY bit.  A descriptor that is READY already drops the frame
\* and unlocks if_snd_ex in the middle of the loop.
TakeFrame(p) ==
  /\ pc[p] = "loop" /\ ~Short(Looked) /\ taken < offered
  /\ taken' = taken + 1
  /\ reaped' = (reaped \/ Short(q))
  /\ \E n \in 1 .. MaxFrags :
       LET s == Looked
           f == taken + 1
           k == Hit(s, n)
       IN IF k = n
          THEN /\ q' = Load(s, f, n)
               /\ cur' = [cur EXCEPT ![p] = <<s.pidx, After(s.pidx, n - 1)>>]
               /\ pc' = [pc EXCEPT ![p] = "ready"]
               /\ freed' = freed \cup IF Short(q) THEN Frees(q) ELSE {}
               /\ UNCHANGED lock
          ELSE /\ q' = [s EXCEPT !.bd = Fill(s, f, k)]
               /\ freed' = freed \cup {f} \cup IF Short(q) THEN Frees(q) ELSE {}
               /\ lock' = Nobody
               /\ UNCHANGED <<cur, pc>>
  /\ UNCHANGED <<oactive, offered, seen, polls, hwVars, mishap>>

\* Mutated form of MarkReady: the last descriptor is not marked LAST.
MarkReadyOnly(s, c) == [s EXCEPT !.bd[c[1]].r = TRUE]

MarkReady(s, c) == [s EXCEPT !.bd[c[2]].l = TRUE, !.bd[c[1]].r = TRUE]

FrameReady(p) ==
  /\ Goto(p, "ready", "kick")
  /\ q' = MarkReady(q, cur[p])
  /\ UNCHANGED <<oactive, lock, cur, offered, taken, reaped, seen, polls, freed, hwVars, mishap>>

Kick(p) ==
  /\ Goto(p, "kick", "loop")
  /\ tdar' = TRUE
  /\ mishap' = mishap \cup IF eng.missed THEN {"kick"} ELSE {}
  /\ UNCHANGED <<q, oactive, lock, cur, offered, taken, reaped, seen, polls, freed,
                 eng, tfint, tfien, asleep, sent>>

-----------------------------------------------------------------------------
(* mx6q_isr, mx6q_process_interrupt and mx6q_enable_interrupt *)

Isr ==
  /\ tfint /\ tfien
  /\ Goto("intr", "away", "i_read")
  /\ tfien' = FALSE
  /\ UNCHANGED <<q, oactive, lock, cur, offered, taken, reaped, seen, polls, freed,
                 eng, tdar, tfint, asleep, sent, mishap>>

\* No frame waits for a time stamp: for one that does the ring is reaped here without the
\* lock, which is left out.
IntrRead ==
  /\ Goto("intr", "i_read", IF tfint THEN "i_lock" ELSE "i_enable")
  /\ tfint' = FALSE
  /\ UNCHANGED <<q, oactive, lock, cur, offered, taken, reaped, seen, polls, freed,
                 eng, tdar, tfien, asleep, sent, mishap>>

Pending(s) == \E i \in Ring : Dist(s.cidx, i) < Dist(s.cidx, s.pidx) /\ s.bd[i].r

\* Mutated form of IntrStart: who is out of descriptors is left to the stack.
IntrStartNot ==
  /\ lock = Nobody /\ oactive
  /\ Goto("intr", "i_lock", "i_read")
  /\ UNCHANGED <<q, oactive, lock, cur, offered, taken, reaped, seen, polls, freed, hwVars, mishap>>

\* mx6q_start is called again if it ran out of descriptors ...
IntrStart ==
  /\ lock = Nobody /\ oactive
  /\ Goto("intr", "i_lock", "loop")
  /\ lock' = "intr"
  /\ UNCHANGED <<q, oactive, cur, offered, taken, reaped, seen, polls, freed, hwVars, mishap>>

\* Mutated form of IntrKick: the controller is not kicked again.
IntrKickNot ==
  /\ lock = Nobody /\ ~oactive
  /\ Goto("intr", "i_lock", "i_read")
  /\ UNCHANGED <<q, oactive, lock, cur, offered, taken, reaped, seen, polls, freed, hwVars, mishap>>

\* ... and otherwise a controller that has stopped before a READY frame is kicked.
IntrKick ==
  /\ lock = Nobody /\ ~oactive
  /\ Goto("intr", "i_lock", "i_read")
  /\ tdar' = (tdar \/ Pending(q))
  /\ UNCHANGED <<q, oactive, lock, cur, offered, taken, reaped, seen, polls, freed,
                 eng, tfint, tfien, asleep, sent, mishap>>

IntrEnable ==
  /\ Goto("intr", "i_enable", "away")
  /\ tfien' = TRUE
  /\ UNCHANGED <<q, oactive, lock, cur, offered, taken, reaped, seen, polls, freed,
                 eng, tdar, tfint, asleep, sent, mishap>>

-----------------------------------------------------------------------------
(* mx6q_MDI_MonitorPhy every two seconds, and mx6q_stop and mx6q_init *)

\* mx6q_mii_read and _write set a bit of IEVENT by reading and writing it back, which
\* clears every bit that was read; the PHY is not accessed every time.
MonitorBegin ==
  /\ polls < Polls
  /\ Goto("stack", "away", "m_write")
  /\ polls' = polls + 1
  /\ seen' \in {tfint, FALSE}
  /\ UNCHANGED <<q, oactive, lock, cur, offered, taken, reaped, freed, hwVars, mishap>>

MiiWrite ==
  /\ Goto("stack", "m_write", "m_reap")
  /\ tfint' = (tfint /\ ~seen)
  /\ mishap' = mishap \cup IF tfint /\ seen THEN {"event"} ELSE {}
  /\ UNCHANGED <<q, oactive, lock, cur, offered, taken, reaped, seen, polls, freed,
                 eng, tdar, tfien, asleep, sent>>

\* A ring that nobody has reaped since the last time is reaped.
MonitorReap ==
  /\ Goto("stack", "m_reap", "away")
  /\ IF reaped THEN UNCHANGED <<q, freed>>
     ELSE lock = Nobody /\ q' = Reap(q) /\ freed' = freed \cup Frees(q)
  /\ reaped' = FALSE /\ seen' = FALSE
  /\ UNCHANGED <<oactive, lock, cur, offered, taken, polls, hwVars, mishap>>

\* Asleep at the end of a frame.  Of a pending frame the first descriptor is taken back.
Stop ==
  LET s == Reap(q) IN
  /\ pc["stack"] = "away" /\ lock = Nobody /\ ~eng.busy /\ ~asleep
  /\ StopsBusy \/ s.pidx = s.cidx
  /\ q' = [bd    |-> [i \in Ring |-> IF s.pkt[i] = 0 THEN s.bd[i]
                                     ELSE [s.bd[i] EXCEPT !.r = FALSE, !.l = FALSE]],
           pkt   |-> [i \in Ring |-> 0],
           pidx  |-> s.cidx, cidx |-> s.cidx, inuse |-> 0]
  /\ freed' = freed \cup ({q.pkt[i] : i \in Ring} \ {0})
  /\ oactive' = FALSE /\ asleep' = TRUE /\ reaped' = TRUE
  /\ UNCHANGED <<lock, pc, cur, offered, taken, seen, polls, eng, tdar, tfint, tfien, sent, mishap>>

Restart ==
  /\ pc["stack"] = "away" /\ asleep
  /\ asleep' = FALSE
  /\ UNCHANGED <<swVars, eng, tdar, tfint, tfien, sent, mishap>>

-----------------------------------------------------------------------------
(* The controller: external *)

\* The descriptors from i to the end of its frame.
FrameLen(i) ==
  CHOOSE n \in 1 .. N :
    /\ \A k \in 0 .. n - 2 : ~q.bd[After(i, k)].l /\ q.bd[After(i, k + 1)].r
    /\ q.bd[After(i, n - 1)].l \/ n = N \/ ~q.bd[After(i, n)].r

\* The controller starts on the next frame, or stops where none is READY.
Fetch ==
  /\ tdar /\ ~asleep /\ ~eng.busy
  /\ IF q.bd[eng.i].r THEN eng' = [eng EXCEPT !.busy = TRUE] /\ UNCHANGED tdar
                      ELSE tdar' = FALSE /\ UNCHANGED eng
  /\ UNCHANGED <<swVars, tfint, tfien, asleep, sent, mishap>>

\* It looks past the end of the frame it is sending and finds no next one.
LookAhead ==
  /\ LosesKick /\ eng.busy /\ ~eng.missed
  /\ ~q.bd[After(eng.i, FrameLen(eng.i))].r
  /\ eng' = [eng EXCEPT !.missed = TRUE]
  /\ UNCHANGED <<swVars, tdar, tfint, tfien, asleep, sent, mishap>>

\* Descriptors are handed back, one or more at a time; with the last one the frame is sent,
\* and if no next one had been seen the controller stops, whatever was written to X_DES_ACTIVE meanwhile.
Transmit ==
  LET n == FrameLen(eng.i)
      last == q.bd[After(eng.i, n - 1)]
  IN
  /\ eng.busy
  /\ \E k \in 1 .. n :
       /\ q' = [q EXCEPT !.bd = [i \in Ring |->
                 IF Dist(eng.i, i) < k
                 THEN [q.bd[i] EXCEPT !.r = FALSE, !.bdu = (q.bd[i].bdu \/ Dist(eng.i, i) = n - 1)]
                 ELSE q.bd[i]]]
       /\ eng' = [i |-> After(eng.i, k), busy |-> k < n, missed |-> k < n /\ eng.missed]
       /\ tfint' = (tfint \/ k = n)
       /\ tdar' = (tdar /\ ~(k = n /\ eng.missed))
       /\ sent' = IF k < n THEN sent ELSE Append(sent, IF last.l THEN last.f ELSE 0)
  /\ UNCHANGED <<oactive, lock, pc, cur, offered, taken, reaped, seen, polls, freed,
                 tfien, asleep, mishap>>

-----------------------------------------------------------------------------
Start(p) ==
  \/ OutOfDescriptors(p) \/ QueueEmpty(p) \/ DropFrame(p)
  \/ TakeFrame(p) \/ FrameReady(p) \/ Kick(p)

Intr == IntrRead \/ IntrStart \/ IntrKick \/ IntrEnable

Monitor == MonitorBegin \/ MiiWrite \/ MonitorReap

Next ==
  \/ SendFrame \/ Isr \/ Intr
  \/ \E p \in {"send", "intr"} : Start(p)
  \/ Monitor \/ Stop \/ Restart
  \/ Fetch \/ LookAhead \/ Transmit

Spec == Init /\ [][Next]_vars

\* Threads run and get the lock in turn; interrupts are served; the controller sends.
LiveSpec ==
  /\ Spec
  /\ WF_vars(Start("send")) /\ WF_vars(Start("intr")) /\ WF_vars(Isr) /\ SF_vars(Intr)
  /\ WF_vars(Fetch) /\ WF_vars(Transmit)

-----------------------------------------------------------------------------
Frame == 0 .. Frames

\* The values of the driver's and the controller's state.
TypeOK ==
  /\ q.bd \in [Ring -> [r : BOOLEAN, l : BOOLEAN, bdu : BOOLEAN, f : Frame]]
  /\ q.pkt \in [Ring -> Frame]
  /\ q.pidx \in Ring /\ q.cidx \in Ring /\ q.inuse \in 0 .. N
  /\ {oactive, reaped, seen, tdar, tfint, tfien, asleep, eng.busy, eng.missed} \subseteq BOOLEAN
  /\ lock \in Process \cup {Nobody}
  /\ pc \in [Process -> {"away", "loop", "ready", "kick", "i_read", "i_lock", "i_enable",
                         "m_write", "m_reap"}]
  /\ cur \in [Process -> Ring \X Ring]
  /\ offered \in Frame /\ taken \in Frame /\ polls \in 0 .. Polls
  /\ eng.i \in Ring
  /\ freed \subseteq Frame
  /\ mishap \subseteq {"kick", "event", "short"}

\* tx_descr_inuse is the number of descriptors between the two indices, and never all of
\* them, for then the indices are equal and mx6q_transmit_complete takes the ring for empty.
InuseCounts == q.inuse < N /\ q.pidx = After(q.cidx, q.inuse)

\* "this should NEVER happen" (transmit.c:181): where mx6q_start finds descriptors enough,
\* none of those a frame may take is READY.
NeverHitsEnd ==
  \A p \in Process : pc[p] = "loop" /\ ~Short(q) =>
    \A k \in 0 .. MaxFrags - 1 : ~q.bd[After(q.pidx, k)].r

\* Only the frame the controller is sending may have its buffers freed under it: a chain is
\* freed with its first descriptor, though the controller may own the others (transmit.c:376).
FreedIsUnderway ==
  \A i \in Ring : q.bd[i].r /\ q.bd[i].f \in freed =>
    eng.busy /\ Dist(eng.i, i) < FrameLen(eng.i)

\* Frames leave whole, in the order the stack queued them, each once.
SentInOrder == \A k \in DOMAIN sent : sent[k] = k

\* mx6q_start is not left out of descriptors: it is called again and clears IFF_OACTIVE,
\* unless a kick was lost or mii.c cleared the event.
OutOfDescriptorsEnds == oactive ~> (~oactive \/ mishap \cap {"kick", "event"} # {} \/ asleep)

\* "If mis-queued, kick the DMA engine" (event.c:257): frames in the ring are sent though a
\* kick was lost, as long as the ring has never been short and mii.c cleared no event.
KickRepaired ==
  Len(sent) < taken ~> (Len(sent) = taken \/ mishap \cap {"short", "event"} # {} \/ asleep)

\* The same when the ring has been short of descriptors.
MisqueuedIsKicked ==
  Len(sent) < taken ~> (Len(sent) = taken \/ "event" \in mishap \/ asleep)
===============================================================================
