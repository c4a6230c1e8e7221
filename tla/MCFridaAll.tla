------------------------------ MODULE MCFridaAll ------------------------------
(***************************************************************************)
(* MCFridaCi with what holds of the recipes of all the builders of         *)
(* master.cfg: what the theorems DepsAlwaysReady and NeverACircle ask, the *)
(* assumptions on recipes and the stages, and that no two builders would   *)
(* build and upload the same bundle at once.                               *)
(***************************************************************************)
EXTENDS MCFridaCi

\* The bundles b's recipe rolls.
RolledBy(b) ==
  UNION {Factory[b][i].bundles : i \in {j \in DOMAIN Factory[b] : Factory[b][j].op = "roll"}}

All == INSTANCE FridaCi WITH Builder <- DOMAIN Factory, Recipe <- Factory

ASSUME AllBehind == All!BehindAssumption
ASSUME AllNeeds  == All!NeedsAssumption
ASSUME StagedAssumption == Staged(Factory, Stage)
ASSUME RolledByOne ==
  \A b, c \in DOMAIN Factory : RolledBy(b) \cap RolledBy(c) # {} => b = c
===============================================================================
