------------------------------ MODULE MCInstancia ------------------------------
(* Instance of Instancia for TLC: the keys are interchangeable.              *)
EXTENDS Instancia, TLC

CONSTANTS k1, k2, k3, k4

Simetria == Permutations(Claves)
===============================================================================
