----------------------------- MODULE FridaRecipes -----------------------------
(***************************************************************************)
(* The BuildFactories of master.cfg as sequences of commands.  Commands    *)
(* that name no bundle and follow one another are one command, and so are  *)
(* the tests; a chain "a && b" is its commands in order.  A bundle a       *)
(* command is built from is one its make target or its path names.         *)
(***************************************************************************)
EXTENDS Sequences, Naturals

\* Git and fridaCompile steps halt the build on failure, ShellCommand steps do not.
Roll(x)    == [op |-> "roll", bundles |-> {x}, halts |-> TRUE]
Wait(x)    == [op |-> "wait", bundles |-> {x}, halts |-> TRUE]
Compile(S) == [op |-> "make", bundles |-> S, halts |-> TRUE]
Shell(S)   == [op |-> "make", bundles |-> S, halts |-> FALSE]
Release(S) == [op |-> "release", bundles |-> S, halts |-> FALSE]
ShellRoll(x) == [Roll(x) EXCEPT !.halts = FALSE]

Rolls(xs) == [i \in 1..Len(xs) |-> Roll(xs[i])]

Checkout == Compile({})

\* win: the rolls are ShellCommands, and the compile for x86 and the one for x64, each taken
\* with the tests after it, are not asked to halt the build either.
Windows ==
  LET needs == {"toolchain windows-x86", "sdk windows-any"} IN
  <<Checkout, ShellRoll("toolchain windows-x86"), ShellRoll("sdk windows-any"),
    Shell(needs), Shell(needs), Release(needs)>>

\* Mutated form of MacosModern: the wait for android-arm comes before the first roll.
MacosModernWaitFirst ==
  LET needs == {"sdk macos-x86_64", "sdk macos-arm64"} IN
  <<Checkout, Wait("sdk android-arm")>>
  \o Rolls(<<"toolchain macos-x86_64", "toolchain macos-arm64", "toolchain macos-arm64e",
             "sdk macos-x86_64", "sdk macos-arm64", "sdk macos-arm64e",
             "sdk ios-x86_64", "sdk ios-arm64", "sdk ios-arm64eoabi", "sdk ios-arm64e",
             "sdk android-x86_64", "sdk android-arm64">>)
  \o <<Compile(needs), Shell({}), Release(needs)>>

MacosModern ==
  LET needs == {"sdk macos-x86_64", "sdk macos-arm64"} IN
  <<Checkout>>
  \o Rolls(<<"toolchain macos-x86_64", "toolchain macos-arm64", "toolchain macos-arm64e",
             "sdk macos-x86_64", "sdk macos-arm64", "sdk macos-arm64e",
             "sdk ios-x86_64", "sdk ios-arm64", "sdk ios-arm64eoabi", "sdk ios-arm64e",
             "sdk android-x86_64">>)
  \o <<Wait("sdk android-arm"), Roll("sdk android-arm64"),
       Compile(needs), Shell(needs), Shell({}), Release(needs)>>

MacosLegacy ==
  LET needs == {"sdk macos-x86_64"} IN
  <<Checkout, Wait("sdk macos-x86_64")>>
  \o Rolls(<<"toolchain macos-x86", "sdk macos-x86", "sdk ios-x86", "sdk ios-arm",
             "sdk android-x86", "sdk android-arm">>)
  \o <<Wait("sdk android-arm64"),
       Compile(needs), Shell(needs), Shell({}), Release(needs)>>

MacosM1 ==
  LET needs == {"sdk macos-arm64e", "toolchain macos-arm64e"} IN
  <<Checkout, Wait("sdk macos-arm64e"), Compile(needs), Shell({}), Release(needs)>>

Ios ==
  LET needs == {"sdk ios-arm64e"} IN
  <<Checkout, Wait("sdk ios-arm64e"), Compile(needs), Release(needs)>>

\* "make core-android-x86 core-android-x86_64 core-android-arm core-android-arm64"
Android ==
  LET needs == {"sdk android-x86", "sdk android-x86_64", "sdk android-arm", "sdk android-arm64"} IN
  <<Checkout, Wait("sdk android-arm64"), Compile(needs), Release(needs)>>

Manylinux ==
  LET needs == {"sdk linux-x86", "sdk linux-x86_64"} IN
  <<Checkout>>
  \o Rolls(<<"toolchain linux-x86_64", "toolchain linux-x86", "sdk linux-x86", "sdk linux-x86_64">>)
  \o <<Compile(needs), Shell(needs), Release(needs)>>

Ubuntu1804 ==
  LET needs == {"sdk linux-armhf", "sdk linux-arm64"} IN
  <<Checkout>>
  \o Rolls(<<"toolchain linux-arm64", "toolchain linux-armhf", "sdk linux-armhf", "sdk linux-arm64">>)
  \o <<Compile(needs), Release(needs)>>

\* ubuntu_18_04_armhf and ubuntu_18_04_arm64
Ubuntu1804Arm(arch) ==
  LET sdk == "sdk linux-" \o arch IN
  <<Checkout, Wait(sdk), Compile({sdk, "toolchain linux-" \o arch}), Release({sdk})>>

\* ubuntu_20_04_x86_64: the python bindings are compiled, the qml bindings are shell steps.
Ubuntu2004 ==
  LET sdk == "sdk linux-x86_64" IN
  <<Checkout, Wait(sdk), Compile({sdk, "toolchain linux-x86_64"}), Shell({sdk}), Shell({sdk}),
    Release({sdk})>>

\* ubuntu_21_04_x86_64 and fedora_35_x86_64
Ubuntu2104 ==
  LET sdk == "sdk linux-x86_64" IN
  <<Checkout, Wait(sdk), Compile({sdk, "toolchain linux-x86_64"}), Shell({sdk}), Release({sdk})>>

\* The builders of c['builders'] that scheduler "all" drives, with their factories.
Factory ==
  [b \in {"windows", "macos-modern", "macos-legacy", "macos-m1", "ios", "android",
          "manylinux-x86_64", "ubuntu_18_04-x86_64", "ubuntu_18_04-armhf",
          "ubuntu_18_04-arm64", "ubuntu_20_04-x86_64", "ubuntu_21_04-x86_64", "fedora_35-x86_64"} |->
    CASE b = "windows"             -> Windows
      [] b = "macos-modern"        -> MacosModern
      [] b = "macos-legacy"        -> MacosLegacy
      [] b = "macos-m1"            -> MacosM1
      [] b = "ios"                 -> Ios
      [] b = "android"             -> Android
      [] b = "manylinux-x86_64"    -> Manylinux
      [] b = "ubuntu_18_04-x86_64" -> Ubuntu1804
      [] b = "ubuntu_18_04-armhf"  -> Ubuntu1804Arm("armhf")
      [] b = "ubuntu_18_04-arm64"  -> Ubuntu1804Arm("arm64")
      [] b = "ubuntu_20_04-x86_64" -> Ubuntu2004
      [] OTHER                     -> Ubuntu2104]

\* What each builder that publishes a bundle has made sure of before.
BundleOrder ==
  {<<"sdk android-arm64", "sdk android-arm">>, <<"sdk android-arm64", "sdk android-x86">>,
   <<"sdk android-arm64", "sdk android-x86_64">>, <<"sdk android-arm", "sdk android-x86">>,
   <<"sdk macos-arm64e", "toolchain macos-arm64e">>,
   <<"sdk linux-x86_64", "toolchain linux-x86_64">>,
   <<"sdk linux-armhf", "toolchain linux-armhf">>, <<"sdk linux-arm64", "toolchain linux-arm64">>}

\* The bundles that only builders which have awaited others publish come later than those.
Stage ==
  [x \in UNION {UNION {Factory[b][i].bundles : i \in DOMAIN Factory[b]} : b \in DOMAIN Factory} |->
    CASE x = "sdk android-arm64" -> 2
      [] x \in {"sdk android-arm", "sdk android-x86"} -> 1
      [] OTHER -> 0]
===============================================================================
