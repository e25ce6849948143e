------------------------------ MODULE MCConsulta ------------------------------
(***************************************************************************)
(* Instances of Consulta for TLC.                                          *)
(***************************************************************************)
EXTENDS Consulta, TLC

\* Threads are only compared for equality.
Simetria == Permutations(Hilos)
===============================================================================
