------------------------------- MODULE Consulta -------------------------------
(***************************************************************************)
(* How the threads of the Coordinador share the one connection to the      *)
(* Planificador (src/Coordinador/src/Coordinador.c).                       *)
(*                                                                         *)
(* A thread that serves an ESI publishes its sentence in sentencia_global  *)
(* and wakes the thread of the Planificador, which runs                    *)
(* loopPlanificadorConsulta, by unlocking a mutex that the other side      *)
(* locks: consulta_planificador one way, consulta_planificador_terminar    *)
(* the other.  lock_sentencia_global keeps the other ESI threads out.      *)
(*                                                                         *)
(* An answer of the Planificador is the ticket of the sentence it answers  *)
(* and a result; what the Planificador decides is left open.               *)
(***************************************************************************)
EXTENDS Naturals, FiniteSets

CONSTANTS
  Hilos,          \* the Coordinador threads that serve ESIs
  Nadie,          \* no thread
  MaxConsultas,   \* bound: sentences of one thread
  PuedeCaer       \* whether the Planificador may die

ASSUME HilosBienFormados ==
  Nadie \notin Hilos /\ MaxConsultas \in Nat /\ PuedeCaer \in BOOLEAN

VARIABLES
  pc,                 \* where each thread is in puedoEjecutarSentencia
  lock,               \* lock_sentencia_global: the thread that has it
  consulta,           \* consulta_planificador is locked
  terminar,           \* consulta_planificador_terminar is locked
  sentencia_global,   \* the thread whose sentence it points to
  bucle,              \* where loopPlanificadorConsulta is
  rdo,                \* rdo_consulta_planificador
  planificador,       \* the Planificador and its end of the connection
  \* History, read by properties only.
  ticket,             \* the number of the last sentence each thread published
  emitidos,           \* how many have been published
  hechas,             \* how many sentences each thread has put through
  devuelto            \* what puedoEjecutarSentencia returned to each thread

hilo == <<pc, ticket, hechas, devuelto>>
vars == <<pc, lock, consulta, terminar, sentencia_global, bucle, rdo, planificador,
          ticket, emitidos, hechas, devuelto>>

Resultados == {"CORRECTO", "NEGADA"}     \* NEGADA: CLAVE_BLOQUEADA or ABORTAR
Respuestas == [t : Nat, v : Resultados \cup {"INICIAL"}]
Inicial == [t |-> 0, v |-> "INICIAL"]    \* the -1 that the global starts with
Pasos == {"fuera", "quiere", "tiene", "publicada", "avisado", "contestada", "suelta"}
PasosBucle == {"sin_conexion", "espera", "toma", "pregunto", "respondio"}

\* Mutant: main does not lock consulta_planificador before it listens.
Init_sin_cerrar ==
  /\ pc = [h \in Hilos |-> "fuera"]
  /\ lock = Nadie
  /\ consulta = FALSE /\ terminar = TRUE
  /\ sentencia_global = Nadie
  /\ bucle = "sin_conexion"
  /\ rdo = Inicial
  /\ planificador = "vivo"
  /\ ticket = [h \in Hilos |-> 0]
  /\ emitidos = 0
  /\ hechas = [h \in Hilos |-> 0]
  /\ devuelto = [h \in Hilos |-> Inicial]

Init ==
  /\ pc = [h \in Hilos |-> "fuera"]
  /\ lock = Nadie
  /\ consulta = TRUE /\ terminar = TRUE
  /\ sentencia_global = Nadie
  /\ bucle = "sin_conexion"
  /\ rdo = Inicial
  /\ planificador = "vivo"
  /\ ticket = [h \in Hilos |-> 0]
  /\ emitidos = 0
  /\ hechas = [h \in Hilos |-> 0]
  /\ devuelto = [h \in Hilos |-> Inicial]

(***************************************************************************)
(* A thread with a sentence of its ESI.                                    *)
(***************************************************************************)
Ir(h, de, a) == pc[h] = de /\ pc' = [pc EXCEPT ![h] = a]

Llegar(h) ==
  /\ hechas[h] < MaxConsultas
  /\ Ir(h, "fuera", "quiere")
  /\ hechas' = [hechas EXCEPT ![h] = @ + 1]
  /\ UNCHANGED <<lock, consulta, terminar, sentencia_global, bucle, rdo, planificador,
                 ticket, emitidos, devuelto>>

\* Mutant: the thread does not take lock_sentencia_global.
Cerrar_sin_lock(h) ==
  /\ Ir(h, "quiere", "tiene")
  /\ lock' = h
  /\ UNCHANGED <<consulta, terminar, sentencia_global, bucle, rdo, planificador,
                 ticket, emitidos, hechas, devuelto>>

Cerrar(h) ==
  /\ Ir(h, "quiere", "tiene")
  /\ lock = Nadie
  /\ lock' = h
  /\ UNCHANGED <<consulta, terminar, sentencia_global, bucle, rdo, planificador,
                 ticket, emitidos, hechas, devuelto>>

Publicar(h) ==
  /\ Ir(h, "tiene", "publicada")
  /\ sentencia_global' = h
  /\ emitidos' = emitidos + 1
  /\ ticket' = [ticket EXCEPT ![h] = emitidos + 1]
  /\ UNCHANGED <<lock, consulta, terminar, bucle, rdo, planificador, hechas, devuelto>>

Avisar(h) ==
  /\ Ir(h, "publicada", "avisado")
  /\ consulta' = FALSE
  /\ UNCHANGED <<lock, terminar, sentencia_global, bucle, rdo, planificador,
                 ticket, emitidos, hechas, devuelto>>

\* Mutant: the thread does not wait for consulta_planificador_terminar.
Esperar_sin_esperar(h) ==
  /\ Ir(h, "avisado", "contestada")
  /\ UNCHANGED <<lock, consulta, terminar, sentencia_global, bucle, rdo, planificador,
                 ticket, emitidos, hechas, devuelto>>

\* Mutant: the thread waits until the mutex is open and does not lock it again.
Esperar_sin_cerrar(h) ==
  /\ Ir(h, "avisado", "contestada")
  /\ ~terminar
  /\ UNCHANGED <<lock, consulta, terminar, sentencia_global, bucle, rdo, planificador,
                 ticket, emitidos, hechas, devuelto>>

Esperar(h) ==
  /\ Ir(h, "avisado", "contestada")
  /\ ~terminar
  /\ terminar' = TRUE
  /\ UNCHANGED <<lock, consulta, sentencia_global, bucle, rdo, planificador,
                 ticket, emitidos, hechas, devuelto>>

Abrir(h) ==
  /\ Ir(h, "contestada", "suelta")
  /\ lock' = Nadie
  /\ UNCHANGED <<consulta, terminar, sentencia_global, bucle, rdo, planificador,
                 ticket, emitidos, hechas, devuelto>>

\* return rdo_consulta_planificador, after the unlock.
Devolver(h) ==
  /\ Ir(h, "suelta", "fuera")
  /\ devuelto' = [devuelto EXCEPT ![h] = rdo]
  /\ UNCHANGED <<lock, consulta, terminar, sentencia_global, bucle, rdo, planificador,
                 ticket, emitidos, hechas>>

(***************************************************************************)
(* The thread of the Planificador.                                         *)
(***************************************************************************)
\* interpretarOperacionPlanificador, and into the loop.
Conectar ==
  /\ planificador = "vivo"
  /\ bucle = "sin_conexion"
  /\ bucle' = "espera"
  /\ UNCHANGED <<hilo, lock, consulta, terminar, sentencia_global, rdo, planificador, emitidos>>

Tomar ==
  /\ bucle = "espera"
  /\ ~consulta
  /\ consulta' = TRUE
  /\ bucle' = "toma"
  /\ UNCHANGED <<hilo, lock, terminar, sentencia_global, rdo, planificador, emitidos>>

\* The two sends of consultarPlanificador.  Their results are only logged.
Preguntar ==
  /\ bucle = "toma"
  /\ bucle' = "pregunto"
  /\ UNCHANGED <<hilo, lock, consulta, terminar, sentencia_global, rdo, planificador, emitidos>>

\* The Planificador answers the sentence it was sent.
RecibirRespuesta ==
  /\ bucle = "pregunto"
  /\ planificador = "vivo"
  /\ \E v \in Resultados : rdo' = [t |-> ticket[sentencia_global], v |-> v]
  /\ bucle' = "respondio"
  /\ UNCHANGED <<hilo, lock, consulta, terminar, sentencia_global, planificador, emitidos>>

\* recv() gives 0 and leaves rta1 as memset left it: 0 is CORRECTO.
RecibirFin ==
  /\ bucle = "pregunto"
  /\ planificador = "caido"
  /\ rdo' = [t |-> 0, v |-> "CORRECTO"]
  /\ bucle' = "respondio"
  /\ UNCHANGED <<hilo, lock, consulta, terminar, sentencia_global, planificador, emitidos>>

\* Mutant: the loop does not unlock consulta_planificador_terminar.
Terminar_sin_avisar ==
  /\ bucle = "respondio"
  /\ bucle' = "espera"
  /\ UNCHANGED <<hilo, lock, consulta, terminar, sentencia_global, rdo, planificador, emitidos>>

Terminar ==
  /\ bucle = "respondio"
  /\ terminar' = FALSE
  /\ bucle' = "espera"
  /\ UNCHANGED <<hilo, lock, consulta, sentencia_global, rdo, planificador, emitidos>>

CaerPlanificador ==
  /\ PuedeCaer
  /\ planificador = "vivo"
  /\ planificador' = "caido"
  /\ UNCHANGED <<hilo, lock, consulta, terminar, sentencia_global, bucle, rdo, emitidos>>

-------------------------------------------------------------------------------
Consultado(h) ==
  Cerrar(h) \/ Publicar(h) \/ Avisar(h) \/ Esperar(h) \/ Abrir(h) \/ Devolver(h)

Bucle == Tomar \/ Preguntar \/ RecibirRespuesta \/ RecibirFin \/ Terminar

Next ==
  \/ \E h \in Hilos : Llegar(h) \/ Consultado(h)
  \/ Bucle
  \/ Conectar
  \/ CaerPlanificador

Spec == Init /\ [][Next]_vars

\* Every thread is scheduled and the Planificador answers what it is asked (its
\* select loop reads coord_socket on every turn) or dies.
SpecJusta == Spec /\ WF_vars(Bucle) /\ \A h \in Hilos : WF_vars(Consultado(h))

(***************************************************************************)
(* Properties.                                                             *)
(***************************************************************************)

\* Types of the variables.
TypeOK ==
  /\ pc \in [Hilos -> Pasos]
  /\ lock \in Hilos \cup {Nadie}
  /\ consulta \in BOOLEAN /\ terminar \in BOOLEAN
  /\ sentencia_global \in Hilos \cup {Nadie}
  /\ bucle \in PasosBucle
  /\ rdo \in Respuestas
  /\ planificador \in {"vivo", "caido"}
  /\ ticket \in [Hilos -> Nat]
  /\ emitidos \in Nat
  /\ hechas \in [Hilos -> 0..MaxConsultas]
  /\ devuelto \in [Hilos -> Respuestas]

\* While the loop works on a consultation, exactly the thread that owns
\* lock_sentencia_global waits for it, and sentencia_global points to that
\* thread's sentence: the loop never reads a sentence that its thread may have
\* replaced or freed.
ConsultaDelDueno ==
  bucle \in {"toma", "pregunto", "respondio"} =>
    /\ lock # Nadie
    /\ pc[lock] = "avisado"
    /\ sentencia_global = lock

\* No signal is lost or left over: a mutex that is open between turns would let
\* a later consultation through without an answer.
SinSenalSobrante ==
  /\ ~consulta => lock # Nadie /\ pc[lock] = "avisado" /\ bucle \in {"sin_conexion", "espera"}
  /\ ~terminar => lock # Nadie /\ pc[lock] = "avisado" /\ bucle \in {"sin_conexion", "espera"}
  /\ consulta \/ terminar

\* While the Planificador lives, the answer a thread acts on is not older than its
\* own question: it was not left in rdo_consulta_planificador by an earlier
\* consultation.
RespuestaNoAnterior ==
  planificador = "vivo" => \A h \in Hilos : pc[h] = "fuera" => devuelto[h].t >= ticket[h]

\* The answer a thread acts on is the answer to its own sentence.
RespuestaPropia ==
  \A h \in Hilos : pc[h] = "fuera" => devuelto[h].t = ticket[h]

\* Every consultation ends, also when the Planificador dies in the middle of it.
ConsultaTermina ==
  \A h \in Hilos : bucle # "sin_conexion" /\ pc[h] # "fuera" ~> pc[h] = "fuera"

(***************************************************************************)
(* The mutexes implement the turn.                                         *)
(***************************************************************************)
\* The loop has the answer of h, or h has already gone past it.
Contestado(h) ==
  \/ pc[h] \in {"contestada", "suelta"}
  \/ pc[h] = "avisado" /\ (~terminar \/ bucle = "respondio")

Preguntado(h) == pc[h] = "avisado" /\ terminar /\ bucle = "pregunto"

lugar ==
  [h \in Hilos |-> IF pc[h] = "fuera"  THEN "fuera"
                   ELSE IF Contestado(h) THEN "veredicto"
                   ELSE IF Preguntado(h) THEN "consulta"
                   ELSE "sentencia"]

Turno == INSTANCE TurnoDeConsulta WITH turno <- lugar

\* Consulta implements TurnoDeConsulta: each sentence is put to the Planificador
\* exactly once, alone, and its thread goes on only after the answer (or after
\* the end of the connection, which the loop cannot tell from one).
ImplementaTurno == Turno!Spec
===============================================================================
