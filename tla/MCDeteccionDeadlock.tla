-------------------------- MODULE MCDeteccionDeadlock --------------------------
(***************************************************************************)
(* Instances of DeteccionDeadlock for TLC.                                 *)
(***************************************************************************)
EXTENDS DeteccionDeadlock, TLC

\* ESIs and keys are only compared for equality.
Simetria == Permutations(ESIs) \cup Permutations(Claves)
===============================================================================
