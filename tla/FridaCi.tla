------------------------------- MODULE FridaCi -------------------------------
(***************************************************************************)
(* The Buildbot master of master.cfg: one request per builder and stable   *)
(* revision, builders that run their commands beside one another, and the  *)
(* dependency bundles that releng/deps.py publishes ("roll") on one        *)
(* builder and awaits ("wait") on another.                                 *)
(*                                                                         *)
(* What a builder runs is its Recipe, a sequence of commands; the recipes  *)
(* of master.cfg are in FridaRecipes.  Buildbot and deps.py are not in the *)
(* repository: they are modelled from how master.cfg uses them.            *)
(***************************************************************************)
EXTENDS Naturals, Sequences, FiniteSets

CONSTANTS
  Builder,      \* the builders of c['builders']
  Recipe,       \* Recipe[b]: the commands of b's BuildFactory
  Bundle,       \* the toolchains and SDKs the recipes name
  Behind,       \* <<x, y>> \in Behind: whoever publishes x has made sure of y
  MaxRevision,  \* bound of the model: the number of stable revisions
  Version,      \* Version[r]: the dependency version revision r asks for
  MayFail,      \* may commands fail?
  MayGiveUp,    \* does a step that waits too long time out?
  MaxForced     \* bound of the model: the number of forced builds

Revision == 1..MaxRevision
Command  == [op : {"roll", "wait", "make", "release"}, bundles : SUBSET Bundle, halts : BOOLEAN]

\* The commands of b before its i-th that roll or await a bundle.
Dependency(b, i) == {j \in 1..(i - 1) : Recipe[b][j].op \in {"roll", "wait"}}

\* The bundles b's earlier commands name, and those among them that must exist for b to
\* be there at all, because the failure of their command would have halted the build.
Tried(b, i)   == UNION {Recipe[b][j].bundles : j \in Dependency(b, i)}
Assured(b, i) == UNION {Recipe[b][j].bundles : j \in {k \in Dependency(b, i) : Recipe[b][k].halts}}

Backed(S) == S \cup {y \in Bundle : \E x \in S : <<x, y>> \in Behind}

ASSUME RecipeAssumption   == /\ Recipe \in [Builder -> Seq(Command)]
                             /\ \A b \in Builder : Recipe[b] # <<>>
ASSUME RevisionAssumption == MaxRevision \in Nat /\ MaxForced \in Nat
ASSUME FailureAssumption  == MayFail \in BOOLEAN /\ MayGiveUp \in BOOLEAN

\* The bundles come in stages: what a recipe of R awaits, some recipe rolls, and has
\* awaited bundles of earlier stages only until then.
Staged(R, Stage) ==
  \A b \in DOMAIN R : \A i \in DOMAIN R[b] : \A x \in R[b][i].bundles :
    R[b][i].op = "wait" =>
      \E c \in DOMAIN R : \E j \in DOMAIN R[c] :
        /\ R[c][j].op = "roll" /\ x \in R[c][j].bundles
        /\ \A k \in 1..(j - 1) : \A y \in R[c][k].bundles :
             R[c][k].op = "wait" => Stage[y] < Stage[x]

\* A roll publishes a bundle only where all that is to be behind it is backed already.
ASSUME BehindAssumption ==
  \A b \in Builder : \A i \in DOMAIN Recipe[b] : \A x, y \in Bundle :
    Recipe[b][i].op = "roll" /\ x \in Recipe[b][i].bundles /\ <<x, y>> \in Behind
      => y \in Backed(Assured(b, i))

\* What a command is built from is behind what its builder has rolled or awaited.
ASSUME NeedsAssumption ==
  \A b \in Builder : \A i \in DOMAIN Recipe[b] :
    Recipe[b][i].op \in {"make", "release"} => Recipe[b][i].bundles \subseteq Backed(Tried(b, i))

VARIABLES
  rev,      \* the newest stable revision of frida/frida, 0 before the first
  pending,  \* pending[b]: the revision of b's unclaimed request, 0 for none
  build,    \* build[b]: the revision b builds (0: idle), its command, has one failed?
  avail,    \* the published <<bundle, version>> pairs
  forced    \* the number of forced builds so far

vars == <<rev, pending, build, avail, forced>>

Idle == [rev |-> 0, at |-> 0, flunked |-> FALSE]

Init ==
  /\ rev = 0
  /\ pending = [b \in Builder |-> 0]
  /\ build = [b \in Builder |-> Idle]
  /\ avail = {}
  /\ forced = 0

Building(b) == build[b].rev # 0
Current(b)  == Recipe[b][build[b].at]
Has(b, S)   == \A x \in S : <<x, Version[build[b].rev]>> \in avail

\* b goes on to its next command, or is done.
Advance(b, bad) ==
  LET now  == build[b]
      next == [rev |-> now.rev, at |-> now.at + 1, flunked |-> now.flunked \/ bad]
  IN  build' = [build EXCEPT ![b] = IF now.at = Len(Recipe[b]) THEN Idle ELSE next]

-----------------------------------------------------------------------------
\* The scheduler "all" sees a stable revision and asks every builder for it; a newer
\* request takes the place of an unclaimed older one.
Commit ==
  /\ rev < MaxRevision
  /\ rev' = rev + 1
  /\ pending' = [b \in Builder |-> rev + 1]
  /\ UNCHANGED <<build, avail, forced>>

\* The scheduler "force": somebody asks for the newest revision on one builder.
ForceBuild(b) ==
  /\ rev > 0 /\ pending[b] = 0 /\ forced < MaxForced
  /\ pending' = [pending EXCEPT ![b] = rev]
  /\ forced' = forced + 1
  /\ UNCHANGED <<rev, build, avail>>

\* A builder runs one build at a time; a worker runs the builds of all its builders.
Start(b) ==
  /\ pending[b] # 0 /\ ~Building(b)
  /\ build' = [build EXCEPT ![b] = [rev |-> pending[b], at |-> 1, flunked |-> FALSE]]
  /\ pending' = [pending EXCEPT ![b] = 0]
  /\ UNCHANGED <<rev, avail, forced>>

\* deps.py roll: the bundle is built and uploaded, unless it already is.
RollDone(b) ==
  /\ Building(b) /\ Current(b).op = "roll"
  /\ avail' = avail \cup (Current(b).bundles \X {Version[build[b].rev]})
  /\ Advance(b, FALSE)
  /\ UNCHANGED <<rev, pending, forced>>

\* Mutated form of WaitDone: any version of the bundle will do.
WaitAnyVersion(b) ==
  /\ Building(b) /\ Current(b).op = "wait"
  /\ \A x \in Current(b).bundles : \E r \in Revision : <<x, Version[r]>> \in avail
  /\ Advance(b, FALSE)
  /\ UNCHANGED <<rev, pending, avail, forced>>

\* deps.py wait: the bundle is there.
WaitDone(b) ==
  /\ Building(b) /\ Current(b).op = "wait" /\ Has(b, Current(b).bundles)
  /\ Advance(b, FALSE)
  /\ UNCHANGED <<rev, pending, avail, forced>>

\* make, a test or a release: it needs the bundles it is built from.
MakeDone(b) ==
  /\ Building(b) /\ Current(b).op \in {"make", "release"} /\ Has(b, Current(b).bundles)
  /\ Advance(b, FALSE)
  /\ UNCHANGED <<rev, pending, avail, forced>>

\* What becomes of the build when a command fails: haltOnFailure ends it.
Failed(b) ==
  /\ IF Current(b).halts THEN build' = [build EXCEPT ![b] = Idle] ELSE Advance(b, TRUE)
  /\ UNCHANGED <<rev, pending, avail, forced>>

\* A roll, a make or a release fails, for want of a bundle or for a reason of its own.
Fail(b) ==
  /\ Building(b) /\ Current(b).op # "wait"
  /\ MayFail \/ (Current(b).op # "roll" /\ ~Has(b, Current(b).bundles))
  /\ Failed(b)

\* Mutated form of GiveUp: a waiting step has no timeout.
GiveUpNever(b) ==
  /\ MayGiveUp /\ Building(b) /\ Current(b).op = "wait" /\ Has(b, Current(b).bundles)
  /\ Failed(b)

\* The timeout of the step ends a wait.
GiveUp(b) ==
  /\ MayGiveUp /\ Building(b) /\ Current(b).op = "wait"
  /\ Failed(b)

Run(b) == RollDone(b) \/ WaitDone(b) \/ MakeDone(b) \/ Fail(b) \/ GiveUp(b)

Next == Commit \/ \E b \in Builder : ForceBuild(b) \/ Start(b) \/ Run(b)

Spec == Init /\ [][Next]_vars

\* Buildbot starts what is pending, and a command that can end does: deps.py polls, and
\* a step is killed at its timeout.  Nobody has to commit or to force a build.
Fairness == \A b \in Builder : WF_vars(Start(b)) /\ WF_vars(Run(b))

LiveSpec == Spec /\ Fairness

-----------------------------------------------------------------------------
\* The values of the master's state (master.cfg's builders, schedulers and bundles).
TypeOK ==
  /\ rev \in 0..MaxRevision
  /\ pending \in [Builder -> 0..MaxRevision]
  /\ build \in [Builder -> [rev : 0..MaxRevision, at : Nat, flunked : BOOLEAN]]
  /\ \A b \in Builder : Building(b) => build[b].at \in DOMAIN Recipe[b]
  /\ avail \subseteq Bundle \X {Version[r] : r \in Revision}
  /\ forced \in 0..MaxForced

\* A build that reaches a compile or a release with no failed step finds every bundle it
\* is built from, those it never waited for included: one "wait sdk android-arm64" stands
\* for four SDKs, because of the order in which two other builders roll and wait.
DepsReady ==
  \A b \in Builder :
    Building(b) /\ Current(b).op \in {"make", "release"} /\ ~build[b].flunked
      => Has(b, Current(b).bundles)

\* The request for b can be taken up, or the command b is at can end.
CanGoOn(b) ==
  \/ pending[b] # 0 /\ ~Building(b)
  \/ Building(b) /\ (Current(b).op = "wait" => Has(b, Current(b).bundles))

\* No set of builders waits in a circle, nor for a bundle that nobody is going to roll: while
\* a build is asked for or under way, somebody can go on (the "wait" lines of master.cfg,
\* which cross between macos_modern and macos_legacy).
NoCircle ==
  (\E b \in Builder : pending[b] # 0 \/ Building(b)) => \E b \in Builder : CanGoOn(b)

\* Builders that wait for one another do not wait for ever: every request is taken up and
\* its build ends (the "wait" lines of master.cfg, which cross between two builders).
EveryRequestBuilt ==
  \A b \in Builder : pending[b] # 0 ~> pending[b] = 0 /\ ~Building(b)
==============================================================================
