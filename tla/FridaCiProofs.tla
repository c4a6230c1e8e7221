---------------------------- MODULE FridaCiProofs ----------------------------
(***************************************************************************)
(* Proofs about the build master, for every set of builders and every      *)
(* recipe that rolls and waits in an order BehindAssumption and            *)
(* NeedsAssumption accept; commands may fail and waits may time out.  If   *)
(* none does, and the bundles come in stages, no waits cross.              *)
(***************************************************************************)
EXTENDS FridaCi, FiniteSetTheorems, TLAPS

\* Whoever publishes x has made sure of what is behind x, in the same version.
BehindInv ==
  \A x, y \in Bundle : \A r \in Revision :
    <<x, y>> \in Behind /\ <<x, Version[r]>> \in avail => <<y, Version[r]>> \in avail

\* What a build's halting commands have rolled or awaited is there ...
AssuredInv == \A b \in Builder : Building(b) => Has(b, Assured(b, build[b].at))

\* ... and what all of them have, if none has failed.
TriedInv == \A b \in Builder : Building(b) /\ ~build[b].flunked => Has(b, Tried(b, build[b].at))

Inv == TypeOK /\ BehindInv /\ AssuredInv /\ TriedInv

-----------------------------------------------------------------------------
(* The recipes *)

LEMMA CommandType ==
  ASSUME NEW b \in Builder, NEW i \in DOMAIN Recipe[b]
  PROVE  Recipe[b][i] \in Command /\ Recipe[b][i].bundles \subseteq Bundle
<1>1. Recipe[b][i] \in Command
  BY RecipeAssumption
<1> QED
  BY <1>1 DEF Command

LEMMA TriedBundles ==
  ASSUME NEW b \in Builder, NEW i \in DOMAIN Recipe[b]
  PROVE  Tried(b, i) \subseteq Bundle /\ Assured(b, i) \subseteq Bundle
<1>1. \A j \in Dependency(b, i) : j \in DOMAIN Recipe[b]
  BY RecipeAssumption DEF Dependency
<1> QED
  BY <1>1, CommandType DEF Tried, Assured

\* One command further on, at most the command just passed has been added.
LEMMA TriedGrows ==
  ASSUME NEW b \in Builder, NEW i \in DOMAIN Recipe[b]
  PROVE  /\ Tried(b, i + 1) =
              Tried(b, i) \cup (IF Recipe[b][i].op \in {"roll", "wait"} THEN Recipe[b][i].bundles ELSE {})
         /\ Assured(b, i + 1) =
              Assured(b, i) \cup (IF Recipe[b][i].op \in {"roll", "wait"} /\ Recipe[b][i].halts
                                    THEN Recipe[b][i].bundles ELSE {})
<1>1. i \in Nat /\ i >= 1
  BY RecipeAssumption
<1>2. 1..((i + 1) - 1) = (1..(i - 1)) \cup {i}
  BY <1>1
<1>3. Dependency(b, i + 1) =
        Dependency(b, i) \cup (IF Recipe[b][i].op \in {"roll", "wait"} THEN {i} ELSE {})
  BY <1>2 DEF Dependency
<1> QED
  BY <1>3 DEF Tried, Assured

LEMMA TriedNothing == ASSUME NEW b \in Builder PROVE Tried(b, 1) = {} /\ Assured(b, 1) = {}
<1>1. Dependency(b, 1) = {}
  BY DEF Dependency
<1> QED
  BY <1>1 DEF Tried, Assured

-----------------------------------------------------------------------------
(* The steps *)

LEMMA InvInit == Init => Inv
BY RevisionAssumption
   DEF Init, Inv, TypeOK, BehindInv, AssuredInv, TriedInv, Building, Idle, Revision

\* What a build that goes on to its next command has to show.
LEMMA AdvanceBuild ==
  ASSUME TypeOK, NEW b \in Builder, Building(b), NEW bad \in BOOLEAN, Advance(b, bad)
  PROVE  /\ build' = [build EXCEPT ![b] = build'[b]]
         /\ \/ build'[b] = Idle
            \/ /\ build'[b].rev = build[b].rev
               /\ build'[b].at = build[b].at + 1 /\ build'[b].at \in DOMAIN Recipe[b]
               /\ build'[b].flunked = (build[b].flunked \/ bad)
         /\ build' \in [Builder -> [rev : 0..MaxRevision, at : Nat, flunked : BOOLEAN]]
<1>1. build[b].at \in DOMAIN Recipe[b] /\ build[b] \in [rev : 0..MaxRevision, at : Nat, flunked : BOOLEAN]
  BY DEF TypeOK
<1>2. Len(Recipe[b]) \in Nat /\ DOMAIN Recipe[b] = 1..Len(Recipe[b])
  BY RecipeAssumption
<1>3. CASE build[b].at = Len(Recipe[b])
  BY <1>3, RevisionAssumption DEF Advance, TypeOK, Idle
<1>4. CASE build[b].at # Len(Recipe[b])
  <2> DEFINE next == [rev |-> build[b].rev, at |-> build[b].at + 1,
                     flunked |-> build[b].flunked \/ bad]
  <2>1. build' = [build EXCEPT ![b] = next]
    BY <1>4 DEF Advance, TypeOK
  <2>2. /\ next.rev = build[b].rev /\ next.at = build[b].at + 1
        /\ next.flunked = (build[b].flunked \/ bad)
    BY <1>1
  <2>3. (build[b].flunked \/ bad) \in BOOLEAN /\ build[b].at + 1 \in Nat
    BY <1>1
  <2>4. next \in [rev : 0..MaxRevision, at : Nat, flunked : BOOLEAN]
    BY <1>1, <2>3
  <2>5. build[b].at + 1 \in DOMAIN Recipe[b]
    BY <1>1, <1>2, <1>4
  <2> HIDE DEF next
  <2>6. build'[b] = next /\ build' \in [Builder -> [rev : 0..MaxRevision, at : Nat, flunked : BOOLEAN]]
    BY <2>1, <2>4 DEF TypeOK
  <2> QED
    BY <2>1, <2>2, <2>5, <2>6
<1> QED
  BY <1>3, <1>4

LEMMA TypeStep == TypeOK /\ [Next]_vars => TypeOK'
<1> SUFFICES ASSUME TypeOK, [Next]_vars PROVE TypeOK'
  OBVIOUS
<1>1. CASE Commit
  BY <1>1, RevisionAssumption DEF Commit, TypeOK, Building
<1>2. ASSUME NEW b \in Builder, ForceBuild(b) PROVE TypeOK'
  BY <1>2, RevisionAssumption DEF ForceBuild, TypeOK, Building
<1>3. ASSUME NEW b \in Builder, Start(b) PROVE TypeOK'
  <2>1. 1 \in DOMAIN Recipe[b]
    BY RecipeAssumption
  <2> QED
    BY <1>3, <2>1, RevisionAssumption DEF Start, TypeOK, Building
<1>4. ASSUME NEW b \in Builder, Run(b) PROVE TypeOK'
  <2>1. Building(b) /\ UNCHANGED <<rev, pending, forced>>
    BY <1>4 DEF Run, RollDone, WaitDone, MakeDone, Fail, GiveUp, Failed
  <2>2. CASE build' = [build EXCEPT ![b] = Idle] \/ \E bad \in BOOLEAN : Advance(b, bad)
    <3>1. /\ build' \in [Builder -> [rev : 0..MaxRevision, at : Nat, flunked : BOOLEAN]]
          /\ \A c \in Builder : build'[c].rev # 0 => build'[c].at \in DOMAIN Recipe[c]
      <4>1. CASE build' = [build EXCEPT ![b] = Idle]
        BY <4>1, RevisionAssumption DEF TypeOK, Idle, Building
      <4>2. ASSUME NEW bad \in BOOLEAN, Advance(b, bad)
            PROVE  /\ build' \in [Builder -> [rev : 0..MaxRevision, at : Nat, flunked : BOOLEAN]]
                   /\ \A c \in Builder : build'[c].rev # 0 => build'[c].at \in DOMAIN Recipe[c]
        <5>1. \A c \in Builder : c # b => build'[c] = build[c]
          BY <4>2 DEF Advance, TypeOK
        <5> QED
          BY <2>1, <4>2, <5>1, AdvanceBuild DEF TypeOK, Idle, Building
      <4> QED
        BY <2>2, <4>1, <4>2
    <3>2. avail' \subseteq Bundle \X {Version[r] : r \in Revision}
      <4>1. CASE RollDone(b)
        <5>1. Current(b).bundles \subseteq Bundle /\ build[b].rev \in Revision
          BY <2>1, CommandType, RevisionAssumption DEF TypeOK, Building, Current, Revision
        <5> QED
          BY <4>1, <5>1 DEF RollDone, TypeOK
      <4>2. CASE UNCHANGED avail
        BY <4>2 DEF TypeOK
      <4> QED
        BY <1>4, <4>1, <4>2 DEF Run, WaitDone, MakeDone, Fail, GiveUp, Failed
    <3> QED
      BY <2>1, <3>1, <3>2 DEF TypeOK, Building
  <2> QED
    BY <1>4, <2>2 DEF Run, RollDone, WaitDone, MakeDone, Fail, GiveUp, Failed
<1>5. CASE UNCHANGED vars
  BY <1>5 DEF vars, TypeOK, Building
<1> QED
  BY <1>1, <1>2, <1>3, <1>4, <1>5 DEF Next

\* The values of the master's state (TypeOK, of the schedulers and builders of master.cfg).
THEOREM TypeCorrect == Spec => []TypeOK
<1>1. Init => TypeOK
  BY InvInit DEF Inv
<1> QED
  BY <1>1, TypeStep, PTL DEF Spec

LEMMA Unpublished ==
  ASSUME [Next]_vars PROVE UNCHANGED avail \/ \E b \in Builder : RollDone(b)
<1>1. ASSUME NEW b \in Builder, Run(b) PROVE UNCHANGED avail \/ RollDone(b)
  <2>1. CASE WaitDone(b)
    BY <2>1 DEF WaitDone
  <2>2. CASE MakeDone(b)
    BY <2>2 DEF MakeDone
  <2>3. CASE Failed(b)
    BY <2>3 DEF Failed
  <2> QED
    BY <1>1, <2>1, <2>2, <2>3 DEF Run, Fail, GiveUp
<1>2. CASE Commit \/ \E b \in Builder : ForceBuild(b) \/ Start(b)
  BY <1>2 DEF Commit, ForceBuild, Start
<1>3. CASE UNCHANGED vars
  BY <1>3 DEF vars
<1> QED
  BY <1>1, <1>2, <1>3 DEF Next

\* AssuredInv and TriedInv for c after a step.
HasNext(c, S) == \A x \in S : <<x, Version[build'[c].rev]>> \in avail'
GoodNext(c) ==
  build'[c].rev # 0 =>
    /\ HasNext(c, Assured(c, build'[c].at))
    /\ ~build'[c].flunked => HasNext(c, Tried(c, build'[c].at))

\* Nothing that is published is ever taken back, so a build that stays where it is keeps
\* what it has.
LEMMA Kept ==
  ASSUME Inv, avail \subseteq avail', NEW c \in Builder, build'[c] = build[c]
  PROVE  GoodNext(c)
BY DEF Inv, AssuredInv, TriedInv, Has, Building, GoodNext, HasNext

LEMMA BehindStep == Inv /\ [Next]_vars => BehindInv'
<1> SUFFICES ASSUME Inv, [Next]_vars PROVE BehindInv'
  OBVIOUS
<1>1. CASE UNCHANGED avail
  BY <1>1 DEF Inv, BehindInv
<1>2. ASSUME NEW b \in Builder, RollDone(b) PROVE BehindInv'
  <2> DEFINE i == build[b].at
             v == Version[build[b].rev]
  <2>1. i \in DOMAIN Recipe[b] /\ Recipe[b][i].op = "roll" /\ Building(b)
    BY <1>2 DEF RollDone, Current, Inv, TypeOK
  <2>2. avail' = avail \cup (Recipe[b][i].bundles \X {v})
    BY <1>2 DEF RollDone, Current
  <2>3. \A z \in Assured(b, i) : <<z, v>> \in avail
    BY <2>1 DEF Inv, AssuredInv, Has
  <2>4. Assured(b, i) \subseteq Bundle /\ build[b].rev \in Revision
    BY <2>1, TriedBundles, RevisionAssumption DEF Inv, TypeOK, Building, Revision
  <2>5. ASSUME NEW x \in Bundle, NEW y \in Bundle, NEW r \in Revision,
               <<x, y>> \in Behind, <<x, Version[r]>> \in avail'
        PROVE  <<y, Version[r]>> \in avail'
    <3>1. CASE <<x, Version[r]>> \in avail
      BY <2>2, <2>5, <3>1 DEF Inv, BehindInv
    <3>2. CASE x \in Recipe[b][i].bundles /\ Version[r] = v
      <4>1. y \in Backed(Assured(b, i))
        BY <2>1, <2>5, <3>2, BehindAssumption
      <4>2. CASE y \in Assured(b, i)
        BY <2>2, <2>3, <3>2, <4>2
      <4>3. ASSUME NEW z \in Assured(b, i), <<z, y>> \in Behind PROVE <<y, v>> \in avail
        BY <2>3, <2>4, <2>5, <4>3 DEF Inv, BehindInv
      <4> QED
        BY <2>2, <3>2, <4>1, <4>2, <4>3 DEF Backed
    <3> QED
      BY <2>2, <2>5, <3>1, <3>2
  <2> QED
    BY <2>5 DEF BehindInv
<1> QED
  BY <1>1, <1>2, Unpublished

LEMMA BuildStep == Inv /\ [Next]_vars => AssuredInv' /\ TriedInv'
<1> SUFFICES ASSUME Inv, [Next]_vars PROVE AssuredInv' /\ TriedInv'
  OBVIOUS
<1>a. avail \subseteq avail'
  <2>1. ASSUME NEW b \in Builder, RollDone(b) PROVE avail \subseteq avail'
    BY <2>1 DEF RollDone
  <2> QED
    BY <2>1, Unpublished
<1>b. SUFFICES ASSUME NEW c \in Builder PROVE GoodNext(c)
  BY DEF AssuredInv, TriedInv, GoodNext, HasNext, Building, Has
<1>1. CASE build'[c] = build[c]
  BY <1>1, <1>a, Kept
<1>2. ASSUME build'[c] # build[c], Start(c) PROVE GoodNext(c)
  <2>1. build'[c].at = 1
    BY <1>2 DEF Start, Inv, TypeOK
  <2> QED
    BY <2>1, TriedNothing DEF GoodNext, HasNext
<1>3. ASSUME build'[c] # build[c], Run(c) PROVE GoodNext(c)
  <2> DEFINE i == build[c].at
  <2>1. Building(c) /\ i \in DOMAIN Recipe[c]
    BY <1>3 DEF Run, RollDone, WaitDone, MakeDone, Fail, GiveUp, Inv, TypeOK
  <2>2. CASE build'[c] = Idle
    BY <2>2 DEF GoodNext, Idle
  <2>3. ASSUME NEW bad \in BOOLEAN, Advance(c, bad), build'[c] # Idle,
               Current(c).op \in {"roll", "wait"} /\ ~bad =>
                 \A x \in Current(c).bundles : <<x, Version[build[c].rev]>> \in avail',
               bad => ~Current(c).halts
        PROVE  GoodNext(c)
    <3>1. /\ build'[c].rev = build[c].rev /\ build'[c].at = i + 1
          /\ build'[c].flunked = (build[c].flunked \/ bad)
      BY <2>1, <2>3, AdvanceBuild DEF Inv
    <3>2. \A x \in Assured(c, i) : <<x, Version[build[c].rev]>> \in avail'
      BY <1>a, <2>1 DEF Inv, AssuredInv, Has
    <3>3. ~build[c].flunked => \A x \in Tried(c, i) : <<x, Version[build[c].rev]>> \in avail'
      BY <1>a, <2>1 DEF Inv, TriedInv, Has
    <3>4. HasNext(c, Assured(c, i + 1))
      BY <2>1, <2>3, <3>1, <3>2, TriedGrows DEF HasNext, Current
    <3>5. ASSUME ~build'[c].flunked PROVE HasNext(c, Tried(c, i + 1))
      <4>1. ~bad /\ ~build[c].flunked
        BY <3>1, <3>5
      <4> QED
        BY <2>1, <2>3, <3>1, <3>3, <4>1, TriedGrows DEF HasNext, Current
    <3> QED
      BY <3>1, <3>4, <3>5 DEF GoodNext
  <2>4. CASE RollDone(c)
    <3>1. Advance(c, FALSE) /\ \A x \in Current(c).bundles : <<x, Version[build[c].rev]>> \in avail'
      BY <2>4 DEF RollDone
    <3> QED
      BY <2>2, <2>3, <3>1
  <2>5. CASE WaitDone(c)
    <3>1. Advance(c, FALSE) /\ \A x \in Current(c).bundles : <<x, Version[build[c].rev]>> \in avail'
      BY <2>5 DEF WaitDone, Has
    <3> QED
      BY <2>2, <2>3, <3>1
  <2>6. CASE MakeDone(c)
    <3>1. Advance(c, FALSE) /\ Current(c).op \notin {"roll", "wait"}
      BY <2>6 DEF MakeDone
    <3> QED
      BY <2>2, <2>3, <3>1
  <2>7. CASE Failed(c)
    <3>1. build' = [build EXCEPT ![c] = Idle] => build'[c] = Idle
      BY DEF Inv, TypeOK
    <3>2. build'[c] = Idle \/ (Advance(c, TRUE) /\ ~Current(c).halts)
      BY <2>7, <3>1 DEF Failed
    <3> QED
      BY <2>2, <2>3, <3>2
  <2> QED
    BY <1>3, <2>4, <2>5, <2>6, <2>7 DEF Run, Fail, GiveUp
<1>4. ASSUME NEW b \in Builder, b # c, Start(b) \/ Run(b) PROVE build'[c] = build[c]
  BY <1>4 DEF Start, Run, RollDone, WaitDone, MakeDone, Fail, GiveUp, Failed, Advance, Inv, TypeOK
<1> QED
  BY <1>1, <1>2, <1>3, <1>4 DEF Next, Commit, ForceBuild, vars

LEMMA InvStep == Inv /\ [Next]_vars => Inv'
BY TypeStep, BehindStep, BuildStep DEF Inv

LEMMA InvDeps == Inv => DepsReady
<1> SUFFICES ASSUME Inv, NEW b \in Builder, Building(b), Current(b).op \in {"make", "release"},
                    ~build[b].flunked,
                    NEW y \in Current(b).bundles
             PROVE  <<y, Version[build[b].rev]>> \in avail
  BY DEF DepsReady, Has
<1> DEFINE i == build[b].at
<1>1. i \in DOMAIN Recipe[b] /\ build[b].rev \in Revision
  BY RevisionAssumption DEF Inv, TypeOK, Building, Revision
<1>2. y \in Backed(Tried(b, i)) /\ Tried(b, i) \subseteq Bundle
  BY <1>1, NeedsAssumption, TriedBundles DEF Current
<1>3. \A z \in Tried(b, i) : <<z, Version[build[b].rev]>> \in avail
  BY DEF Inv, TriedInv, Has
<1> QED
  BY <1>1, <1>2, <1>3 DEF Backed, Inv, BehindInv

\* Every compile and release of a build without a failed step finds all the bundles it is
\* built from (DepsReady, of the roll and wait lines of master.cfg), whatever fails, however
\* the builds interleave and whichever revisions the scheduler skips.
THEOREM DepsAlwaysReady == Spec => []DepsReady
BY InvDeps, InvInit, InvStep, PTL DEF Spec

-----------------------------------------------------------------------------
(* Waits that cross *)

\* No command fails for a reason of its own, no wait times out, and every revision asks for
\* the same bundles.
Reliable   == ~MayFail /\ ~MayGiveUp
OneVersion == \A r, s \in Revision : Version[r] = Version[s]

\* b has rolled everything it rolls.
Rolled(b) ==
  \A j \in DOMAIN Recipe[b] : Recipe[b][j].op = "roll" =>
    \A x \in Recipe[b][j].bundles : <<x, Version[rev]>> \in avail

\* A build has no failed step, and a builder that has nothing to do has rolled its bundles.
RolledInv ==
  /\ \A b \in Builder : Building(b) => ~build[b].flunked
  /\ \A b \in Builder : pending[b] # 0 \/ Building(b) => rev > 0
  /\ \A b \in Builder : rev > 0 /\ pending[b] = 0 /\ ~Building(b) => Rolled(b)

LEMMA RolledInit == Init => RolledInv
BY DEF Init, RolledInv, Building, Idle

\* A build that was never without a bundle ends with its last command.
LEMMA NoFailure ==
  ASSUME Inv, RolledInv, Reliable, NEW b \in Builder, Run(b)
  PROVE  Advance(b, FALSE) /\ (RollDone(b) \/ WaitDone(b) \/ MakeDone(b))
<1>1. ASSUME Fail(b) PROVE FALSE
  <2>1. Building(b) /\ Current(b).op \notin {"roll", "wait"} /\ ~Has(b, Current(b).bundles)
    BY <1>1 DEF Fail, Reliable
  <2>2. Current(b).op \in {"make", "release"}
    BY <2>1, CommandType DEF Inv, TypeOK, Current, Command
  <2> QED
    BY <2>1, <2>2, InvDeps DEF DepsReady, RolledInv
<1>2. ~GiveUp(b)
  BY DEF GiveUp, Reliable
<1> QED
  BY <1>1, <1>2 DEF Run, RollDone, WaitDone, MakeDone

LEMMA RolledStep == Inv /\ RolledInv /\ Reliable /\ OneVersion /\ [Next]_vars => RolledInv'
<1> SUFFICES ASSUME Inv, RolledInv, Reliable, OneVersion, [Next]_vars PROVE RolledInv'
  OBVIOUS
<1>1. CASE Commit
  BY <1>1, RevisionAssumption DEF Commit, RolledInv, Inv, TypeOK, Building, Rolled
<1>2. ASSUME NEW b \in Builder, ForceBuild(b) PROVE RolledInv'
  BY <1>2 DEF ForceBuild, RolledInv, Inv, TypeOK, Building, Rolled
<1>3. ASSUME NEW b \in Builder, Start(b) PROVE RolledInv'
  BY <1>3, RevisionAssumption DEF Start, RolledInv, Inv, TypeOK, Building, Rolled
<1>4. ASSUME NEW b \in Builder, Run(b) PROVE RolledInv'
  <2> DEFINE i == build[b].at
  <2>1. /\ Building(b) /\ Advance(b, FALSE) /\ rev' = rev /\ pending' = pending
        /\ RollDone(b) \/ WaitDone(b) \/ MakeDone(b)
    BY <1>4, NoFailure DEF RollDone, WaitDone, MakeDone
  <2>2. i \in DOMAIN Recipe[b] /\ build[b].rev \in Revision /\ rev \in Revision /\ rev > 0
    BY <2>1, RevisionAssumption DEF Inv, TypeOK, Building, Revision, RolledInv
  <2>3. Version[build[b].rev] = Version[rev]
    BY <2>2 DEF OneVersion
  <2>4. avail \subseteq avail'
    BY <2>1 DEF RollDone, WaitDone, MakeDone
  <2>5. \A c \in Builder : c # b => build'[c] = build[c]
    BY <2>1 DEF Advance, Inv, TypeOK
  <2>6. build'[b] = Idle \/ (build'[b].rev # 0 /\ ~build'[b].flunked)
    BY <2>1, AdvanceBuild DEF Inv, Building, RolledInv
  <2>7. ASSUME build'[b] = Idle PROVE Rolled(b)'
    <3>1. i = Len(Recipe[b])
      <4>1. i # Len(Recipe[b]) => build'[b].rev = build[b].rev
        BY <2>1 DEF Advance, Inv, TypeOK
      <4> QED
        BY <2>1, <2>7, <4>1 DEF Building, Idle
    <3>2. ASSUME NEW j \in DOMAIN Recipe[b], Recipe[b][j].op = "roll",
                 NEW x \in Recipe[b][j].bundles
          PROVE  <<x, Version[rev]>> \in avail'
      <4>1. CASE j = i
        <5>1. RollDone(b)
          BY <2>1, <3>2, <4>1 DEF WaitDone, MakeDone, Current
        <5> QED
          BY <2>3, <3>2, <4>1, <5>1 DEF RollDone, Current
      <4>2. CASE j # i
        <5>1. j \in 1 .. (i - 1)
          BY <3>1, <4>2, RecipeAssumption
        <5>2. x \in Tried(b, i)
          BY <3>2, <5>1 DEF Tried, Dependency
        <5> QED
          BY <2>1, <2>3, <2>4, <5>2 DEF Inv, TriedInv, RolledInv, Has
      <4> QED
        BY <4>1, <4>2
    <3> QED
      BY <2>1, <3>2 DEF Rolled
  <2>8. ASSUME NEW c \in Builder, Rolled(c) PROVE Rolled(c)'
    BY <2>1, <2>4, <2>8 DEF Rolled
  <2> QED
    BY <2>1, <2>2, <2>5, <2>6, <2>7, <2>8 DEF RolledInv, Building, Idle
<1>5. CASE UNCHANGED vars
  BY <1>5 DEF vars, RolledInv, Building, Rolled
<1> QED
  BY <1>1, <1>2, <1>3, <1>4, <1>5 DEF Next

\* A set of natural numbers has a least one: the intervals 0 .. n are finite, and finite
\* sets are well-founded.
LEMMA Least ==
  ASSUME NEW T, T \subseteq Nat, T # {} PROVE \E m \in T : \A n \in T : ~(n < m)
<1> DEFINE Below == {0 .. n : n \in T}
<1>1. Below \subseteq FiniteSubsetsOf(Nat) /\ Below # {}
  <2>1. ASSUME NEW n \in T PROVE 0 .. n \subseteq Nat /\ IsFiniteSet(0 .. n)
    <3>1. n \in Int /\ 0 \in Int
      OBVIOUS
    <3> QED
      BY <3>1, FS_Interval
  <2> QED
    BY <2>1 DEF FiniteSubsetsOf
<1>2. IsWellFoundedOn(StrictSubsetOrdering(Nat), FiniteSubsetsOf(Nat))
  BY FS_StrictSubsetOrderingWellFounded
<1>3. PICK B \in Below : \A A \in Below : <<A, B>> \notin StrictSubsetOrdering(Nat)
  <2> HIDE DEF Below
  <2> QED
    BY <1>1, <1>2, WFMin
<1>4. PICK m \in T : B = 0 .. m
  BY <1>3
<1>5. ASSUME NEW n \in T, n < m PROVE FALSE
  <2>1. 0 .. n \in Below
    OBVIOUS
  <2>2. 0 .. n \subseteq 0 .. m /\ m \in 0 .. m /\ m \notin 0 .. n
    BY <1>5
  <2>3. <<0 .. n, 0 .. m>> \in StrictSubsetOrdering(Nat)
    BY <2>2 DEF StrictSubsetOrdering
  <2> QED
    BY <1>3, <1>4, <2>1, <2>3
<1> QED
  BY <1>5

\* Of all bundles that are awaited and missing, take one of the earliest stage: whoever
\* rolls it does not wait.
LEMMA InvNoCircle ==
  ASSUME NEW Stage \in [Bundle -> Nat], Staged(Recipe, Stage), OneVersion, Inv, RolledInv
  PROVE  NoCircle
<1> SUFFICES ASSUME NEW b0 \in Builder, pending[b0] # 0 \/ Building(b0),
                    \A b \in Builder : ~CanGoOn(b)
             PROVE  FALSE
  BY DEF NoCircle
<1> DEFINE Missing(b) == {x \in Current(b).bundles : <<x, Version[rev]>> \notin avail}
           T == UNION {{Stage[x] : x \in Missing(b)} : b \in {c \in Builder : Building(c)}}
<1>1. rev \in Revision /\ rev > 0
  BY RevisionAssumption DEF RolledInv, Inv, TypeOK, Revision
<1>2. ASSUME NEW b \in Builder, Building(b)
      PROVE  /\ build[b].at \in DOMAIN Recipe[b] /\ Current(b).op = "wait" /\ Missing(b) # {}
             /\ Current(b).bundles \subseteq Bundle
             /\ Version[build[b].rev] = Version[rev]
  <2>1. build[b].at \in DOMAIN Recipe[b] /\ build[b].rev \in Revision
    BY <1>2, RevisionAssumption DEF Inv, TypeOK, Building, Revision
  <2>2. Version[build[b].rev] = Version[rev]
    BY <1>1, <2>1 DEF OneVersion
  <2> QED
    BY <1>2, <2>1, <2>2, CommandType DEF CanGoOn, Has, Current
<1>3. Building(b0)
  BY DEF CanGoOn
<1>4. ASSUME NEW b \in Builder, Building(b), NEW x \in Missing(b)
      PROVE  Stage[x] \in Nat /\ Stage[x] \in T
  <2>1. x \in Bundle
    BY <1>2, <1>4
  <2> QED
    BY <1>4, <2>1
<1>5. T \subseteq Nat /\ T # {}
  <2>1. ASSUME NEW n \in T PROVE n \in Nat
    <3>1. PICK b \in Builder : Building(b) /\ n \in {Stage[x] : x \in Missing(b)}
      OBVIOUS
    <3>2. PICK x \in Missing(b) : n = Stage[x]
      BY <3>1
    <3> QED
      BY <1>4, <3>1, <3>2
  <2>2. PICK x \in Missing(b0) : TRUE
    BY <1>2, <1>3
  <2> QED
    BY <1>3, <1>4, <2>1, <2>2
<1>6. PICK m \in T : \A n \in T : ~(n < m)
  <2> HIDE DEF T
  <2> QED
    BY <1>5, Least
<1>7. PICK b \in Builder : Building(b) /\ \E x \in Missing(b) : m = Stage[x]
  BY <1>6
<1>8. PICK x \in Missing(b) : m = Stage[x]
  BY <1>7
<1> DEFINE First(c, j) ==
             /\ Recipe[c][j].op = "roll" /\ x \in Recipe[c][j].bundles
             /\ \A k \in 1..(j - 1) : \A y \in Recipe[c][k].bundles :
                  Recipe[c][k].op = "wait" => Stage[y] < Stage[x]
<1>9. \E c \in Builder : \E j \in DOMAIN Recipe[c] : First(c, j)
  <2>1. DOMAIN Recipe = Builder
    BY RecipeAssumption
  <2> QED
    BY <1>2, <1>7, <2>1 DEF Staged, Current
<1>10. PICK c \in Builder : \E j \in DOMAIN Recipe[c] : First(c, j)
  BY <1>9
<1>11. PICK j \in DOMAIN Recipe[c] : First(c, j)
  BY <1>10
<1>12. Building(c)
  <2>1. ~Rolled(c)
    BY <1>11 DEF Rolled
  <2> QED
    BY <1>1, <2>1 DEF CanGoOn, RolledInv
<1> DEFINE i == build[c].at
<1>13. i \in DOMAIN Recipe[c] /\ Recipe[c][i].op = "wait"
  BY <1>2, <1>12 DEF Current
<1>14. ~(j < i)
  <2>1. ASSUME j < i PROVE x \in Tried(c, i)
    <3>1. j \in 1 .. (i - 1)
      BY <1>13, <2>1, RecipeAssumption
    <3> QED
      BY <1>11, <3>1 DEF Tried, Dependency
  <2>2. x \in Tried(c, i) => <<x, Version[rev]>> \in avail
    BY <1>2, <1>12 DEF Inv, TriedInv, RolledInv, Has
  <2> QED
    BY <2>1, <2>2
<1>15. i \in 1 .. (j - 1)
  BY <1>11, <1>13, <1>14, RecipeAssumption
<1>16. PICK y \in Missing(c) : TRUE
  BY <1>2, <1>12
<1>17. Stage[y] \in T /\ Stage[y] < m
  <2>1. Stage[y] \in T
    BY <1>12, <1>16, <1>4
  <2>2. y \in Recipe[c][i].bundles
    BY <1>16 DEF Current
  <2>3. Stage[y] < Stage[x]
    BY <1>11, <1>13, <1>15, <2>2
  <2> QED
    BY <1>8, <2>1, <2>3
<1> QED
  BY <1>6, <1>17

\* Builders that wait for one another never wait in a circle (NoCircle, of the wait lines of
\* master.cfg, which cross), however the builds interleave and whichever revisions the
\* scheduler skips: if the bundles come in stages, which those of master.cfg do, nothing
\* fails and the dependency version stays.  A version that is skipped with a revision is
\* awaited in vain, and so is a roll that failed.
THEOREM NeverACircle ==
  ASSUME NEW CONSTANT Stage \in [Bundle -> Nat], Staged(Recipe, Stage), Reliable, OneVersion
  PROVE  Spec => []NoCircle
<1>1. Init => Inv /\ RolledInv
  BY InvInit, RolledInit
<1>2. Inv /\ RolledInv /\ [Next]_vars => Inv' /\ RolledInv'
  BY InvStep, RolledStep
<1>3. Inv /\ RolledInv => NoCircle
  BY InvNoCircle
<1> QED
  BY <1>1, <1>2, <1>3, PTL DEF Spec

=============================================================================
