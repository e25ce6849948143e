----------------------------- MODULE MCReDistinto -----------------------------
(***************************************************************************)
(* Instances of ReDistinto for TLC.                                        *)
(***************************************************************************)
EXTENDS ReDistinto

\* Pids and keys are only compared for equality.
Simetria == Permutations(ESIs) \cup Permutations(Claves)
===============================================================================
