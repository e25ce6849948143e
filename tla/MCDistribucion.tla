----------------------------- MODULE MCDistribucion -----------------------------
(* Instances of Distribucion for TLC.  The first letters of the keys are spread so *)
(* that KE gives k1 and k2 to different Instancias; k3 begins with none.           *)
EXTENDS Distribucion

CONSTANTS h1, h2, k1, k2, k3, i1, i2

MCLetra == [k \in Claves |-> CASE k = k1 -> 0 [] k = k2 -> 25 [] k = k3 -> 26]
===============================================================================
