---------------------------- MODULE TurnoDeConsulta ----------------------------
(***************************************************************************)
(* What the rest of the Coordinador expects of a consultation to the       *)
(* Planificador (puedoEjecutarSentencia): a sentence is put to it once,    *)
(* nobody else's is before it meanwhile, and its thread goes on when it    *)
(* has been answered.  ReDistinto is built on this view; module Consulta   *)
(* is the mutexes and globals that implement it.                           *)
(***************************************************************************)
CONSTANT Hilos     \* the Coordinador threads that serve ESIs

VARIABLE turno     \* where the sentence of each thread is

Turnos == {"fuera", "sentencia", "consulta", "veredicto"}

Init == turno = [h \in Hilos |-> "fuera"]

Pasar(h, de, a) == turno[h] = de /\ turno' = [turno EXCEPT ![h] = a]

Llegar(h) == Pasar(h, "fuera", "sentencia")

Consultar(h) ==
  /\ \A g \in Hilos : turno[g] # "consulta"
  /\ Pasar(h, "sentencia", "consulta")

Resolver(h) == Pasar(h, "consulta", "veredicto")

Devolver(h) == Pasar(h, "veredicto", "fuera")

Next == \E h \in Hilos : Llegar(h) \/ Consultar(h) \/ Resolver(h) \/ Devolver(h)

Spec == Init /\ [][Next]_turno
===============================================================================
