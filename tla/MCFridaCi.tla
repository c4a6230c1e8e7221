------------------------------ MODULE MCFridaCi ------------------------------
(* Instances of FridaCi for TLC: groups of builders that share bundles. *)
EXTENDS FridaCi, FridaRecipes

\* The builders whose waits cross: both desktop Macs and those that wait for them.
MCMac == {"macos-modern", "macos-legacy", "macos-m1", "ios", "android"}

\* One that rolls, one that waits for it, and one whose failed rolls do not halt it.
MCFail == {"ubuntu_18_04-x86_64", "ubuntu_18_04-arm64", "windows"}

MCRecipe == [b \in Builder |-> Factory[b]]

MCBundle ==
  UNION {UNION {Factory[b][i].bundles : i \in DOMAIN Factory[b]} : b \in DOMAIN Factory}

\* Every revision raises the dependency version.
MCBump == [r \in 1..2 |-> r]
==============================================================================
