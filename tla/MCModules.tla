----------------------------- MODULE MCModules -----------------------------
(***************************************************************************)
(* Finite instances of Tasklet and MyFs for TLC.  The modules share        *)
(* nothing, so a behaviour uses one of them at a time while the other is   *)
(* as before insmod.                                                       *)
(***************************************************************************)
EXTENDS Tasklet, MyFs

vars == <<taskletVars, myfsVars>>

Init == TaskletInit /\ MyFsInit

Next ==
  \/ MyFsInit /\ TaskletNext /\ UNCHANGED myfsVars
  \/ TaskletInit /\ MyFsNext /\ UNCHANGED taskletVars

Spec == Init /\ [][Next]_vars /\ TaskletFairness
=============================================================================
