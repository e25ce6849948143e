---------------------------- MODULE Consulta_proofs ----------------------------
(***************************************************************************)
(* Proofs about Consulta, for any number of threads and sentences: the two *)
(* mutexes and the global sentence give each consultation to one thread,   *)
(* and the whole implements TurnoDeConsulta.                               *)
(*                                                                         *)
(* The properties are not inductive: that the loop works for the owner of  *)
(* lock_sentencia_global follows from where the one signal in flight is,   *)
(* so IInv says where it is at every point of the turn.                    *)
(***************************************************************************)
EXTENDS Consulta, TLAPS

Ocupado == {"toma", "pregunto", "respondio"}

\* Some thread is between its two mutex operations of the consultation.
EnTurno == lock # Nadie /\ pc[lock] = "avisado"

\* The mutex is taken exactly by the thread that is inside.
InvLock ==
  \A h \in Hilos : lock = h <=> pc[h] \in {"tiene", "publicada", "avisado", "contestada"}

\* The global points to the sentence of the thread that published last.
InvGlobal ==
  \A h \in Hilos : pc[h] \in {"publicada", "avisado"} => sentencia_global = h

\* There is at most one signal, and it is in one place: consulta_planificador
\* open, the loop, or consulta_planificador_terminar open.
InvSenal ==
  /\ ~consulta => EnTurno /\ bucle \in {"sin_conexion", "espera"} /\ terminar
  /\ ~terminar => EnTurno /\ bucle = "espera" /\ consulta
  /\ bucle \in Ocupado => EnTurno /\ consulta /\ terminar

IInv == TypeOK /\ InvLock /\ InvGlobal /\ InvSenal

-------------------------------------------------------------------------------
\* The types hold at the start and every step keeps them.
LEMMA TiposIniciales == Init => TypeOK
  BY HilosBienFormados
  DEF Init, TypeOK, Pasos, PasosBucle, Respuestas, Resultados, Inicial

LEMMA TiposDelHilo ==
  ASSUME TypeOK, NEW h \in Hilos, Llegar(h) \/ Consultado(h)
  PROVE  TypeOK'
<1> USE HilosBienFormados DEF TypeOK, Ir, Pasos
<1>1. CASE Llegar(h)   BY <1>1 DEF Llegar
<1>2. CASE Cerrar(h)   BY <1>2 DEF Cerrar
<1>3. CASE Publicar(h) BY <1>3 DEF Publicar
<1>4. CASE Avisar(h)   BY <1>4 DEF Avisar
<1>5. CASE Esperar(h)  BY <1>5 DEF Esperar
<1>6. CASE Abrir(h)    BY <1>6 DEF Abrir
<1>7. CASE Devolver(h) BY <1>7 DEF Devolver
<1> QED BY <1>1, <1>2, <1>3, <1>4, <1>5, <1>6, <1>7 DEF Consultado

\* The ticket the loop copies is that of a thread: it has a turn to answer.
LEMMA TiposDelBucle ==
  ASSUME IInv, Bucle \/ Conectar \/ CaerPlanificador
  PROVE  TypeOK'
<1> USE DEF IInv, TypeOK, hilo, PasosBucle
<1>1. CASE Tomar      BY <1>1 DEF Tomar
<1>2. CASE Preguntar  BY <1>2 DEF Preguntar
<1>3. CASE RecibirRespuesta
  <2>1. bucle = "pregunto" /\ EnTurno
    BY <1>3 DEF RecibirRespuesta, InvSenal, Ocupado
  <2>2. sentencia_global \in Hilos
    BY <2>1, HilosBienFormados DEF EnTurno, InvGlobal
  <2>3. PICK v \in Resultados : rdo' = [t |-> ticket[sentencia_global], v |-> v]
    BY <1>3 DEF RecibirRespuesta
  <2>4. rdo' \in Respuestas
    BY <2>2, <2>3 DEF Respuestas
  <2> QED BY <1>3, <2>4 DEF RecibirRespuesta
<1>4. CASE RecibirFin
  BY <1>4 DEF RecibirFin, Respuestas, Resultados
<1>5. CASE Terminar   BY <1>5 DEF Terminar
<1>6. CASE Conectar   BY <1>6 DEF Conectar
<1>7. CASE CaerPlanificador BY <1>7 DEF CaerPlanificador
<1> QED BY <1>1, <1>2, <1>3, <1>4, <1>5, <1>6, <1>7 DEF Bucle

-------------------------------------------------------------------------------
\* The mutex, the global and the signal after a step of a thread.
LEMMA TurnoDelHilo ==
  ASSUME IInv, NEW h \in Hilos, Llegar(h) \/ Consultado(h)
  PROVE  InvLock' /\ InvGlobal' /\ InvSenal'
<1> USE HilosBienFormados
    DEF IInv, TypeOK, InvLock, InvGlobal, InvSenal, EnTurno, Ocupado, Ir
<1>1. CASE Llegar(h)   BY <1>1 DEF Llegar
<1>2. CASE Cerrar(h)   BY <1>2 DEF Cerrar
<1>3. CASE Publicar(h) BY <1>3 DEF Publicar
<1>4. CASE Avisar(h)   BY <1>4 DEF Avisar, PasosBucle
<1>5. CASE Esperar(h)  BY <1>5 DEF Esperar
<1>6. CASE Abrir(h)    BY <1>6 DEF Abrir
<1>7. CASE Devolver(h) BY <1>7 DEF Devolver
<1> QED BY <1>1, <1>2, <1>3, <1>4, <1>5, <1>6, <1>7 DEF Consultado

\* The same after a step of the loop or of the Planificador.
LEMMA TurnoDelBucle ==
  ASSUME IInv, Bucle \/ Conectar \/ CaerPlanificador
  PROVE  InvLock' /\ InvGlobal' /\ InvSenal'
<1> USE HilosBienFormados
    DEF IInv, TypeOK, InvLock, InvGlobal, InvSenal, EnTurno, Ocupado, hilo
<1>1. CASE Tomar            BY <1>1 DEF Tomar
<1>2. CASE Preguntar        BY <1>2 DEF Preguntar
<1>3. CASE RecibirRespuesta BY <1>3 DEF RecibirRespuesta
<1>4. CASE RecibirFin       BY <1>4 DEF RecibirFin
<1>5. CASE Terminar         BY <1>5 DEF Terminar
<1>6. CASE Conectar         BY <1>6 DEF Conectar
<1>7. CASE CaerPlanificador BY <1>7 DEF CaerPlanificador
<1> QED BY <1>1, <1>2, <1>3, <1>4, <1>5, <1>6, <1>7 DEF Bucle

\* IInv is an invariant of the handshake.
THEOREM Invariante == Spec => []IInv
<1>1. Init => IInv
  <2>1. Init => InvLock /\ InvGlobal /\ InvSenal
    BY HilosBienFormados DEF Init, InvLock, InvGlobal, InvSenal, EnTurno, Ocupado
  <2> QED BY <2>1, TiposIniciales DEF IInv
<1>2. IInv /\ [Next]_vars => IInv'
  <2> SUFFICES ASSUME IInv, [Next]_vars PROVE IInv'
    OBVIOUS
  <2>1. ASSUME NEW h \in Hilos, Llegar(h) \/ Consultado(h) PROVE IInv'
    BY <2>1, TiposDelHilo, TurnoDelHilo DEF IInv
  <2>2. CASE Bucle \/ Conectar \/ CaerPlanificador
    BY <2>2, TiposDelBucle, TurnoDelBucle DEF IInv
  <2>3. CASE UNCHANGED vars
    BY <2>3 DEF vars, IInv, TypeOK, InvLock, InvGlobal, InvSenal, EnTurno
  <2> QED BY <2>1, <2>2, <2>3 DEF Next
<1> QED BY <1>1, <1>2, PTL DEF Spec

\* The variables keep their types.
THEOREM Tipos == Spec => []TypeOK
<1>1. IInv => TypeOK BY DEF IInv
<1> QED BY <1>1, Invariante, PTL

\* The loop of the Planificador's thread reads sentencia_global only while the
\* thread that published it waits for the answer.
THEOREM ElBucleAtiendeAlDueno == Spec => []ConsultaDelDueno
<1>1. IInv => ConsultaDelDueno
  BY HilosBienFormados
  DEF IInv, TypeOK, InvGlobal, InvSenal, EnTurno, Ocupado, ConsultaDelDueno
<1> QED BY <1>1, Invariante, PTL

\* No unlock of the two mutexes is left over between turns.
THEOREM NingunaSenalSobra == Spec => []SinSenalSobrante
<1>1. IInv => SinSenalSobrante
  BY DEF IInv, InvSenal, EnTurno, SinSenalSobrante
<1> QED BY <1>1, Invariante, PTL

-------------------------------------------------------------------------------
\* The tickets: the owner of the turn has the last one that was given out, the
\* loop copies that one, and nobody overwrites it with an older one.  recv() of a
\* closed connection gives no answer at all, so all this ends with the Planificador.
InvTicket ==
  planificador = "vivo" =>
    /\ rdo.t <= emitidos
    /\ \A h \in Hilos :
         /\ ticket[h] <= emitidos
         /\ pc[h] \in {"publicada", "avisado"} => ticket[h] = emitidos
         /\ pc[h] \in {"contestada", "suelta"} => rdo.t >= ticket[h]
         /\ pc[h] = "fuera" => devuelto[h].t >= ticket[h]
    /\ bucle = "respondio" \/ ~terminar => rdo.t = emitidos

LEMMA TicketsDelHilo ==
  ASSUME IInv, InvTicket, NEW h \in Hilos, Llegar(h) \/ Consultado(h)
  PROVE  InvTicket'
<1> USE HilosBienFormados
    DEF IInv, TypeOK, InvLock, InvGlobal, InvSenal, InvTicket, EnTurno, Ocupado,
        Ir, Respuestas
<1>1. CASE Llegar(h)   BY <1>1 DEF Llegar
<1>2. CASE Cerrar(h)   BY <1>2 DEF Cerrar
<1>3. CASE Publicar(h) BY <1>3 DEF Publicar
<1>4. CASE Avisar(h)   BY <1>4 DEF Avisar
<1>5. CASE Esperar(h)  BY <1>5 DEF Esperar
<1>6. CASE Abrir(h)    BY <1>6 DEF Abrir
<1>7. CASE Devolver(h) BY <1>7 DEF Devolver
<1> QED BY <1>1, <1>2, <1>3, <1>4, <1>5, <1>6, <1>7 DEF Consultado

LEMMA TicketsDelBucle ==
  ASSUME IInv, InvTicket, Bucle \/ Conectar \/ CaerPlanificador
  PROVE  InvTicket'
<1> USE HilosBienFormados
    DEF IInv, TypeOK, InvLock, InvGlobal, InvSenal, InvTicket, EnTurno, Ocupado,
        hilo, Respuestas
<1>1. CASE Tomar            BY <1>1 DEF Tomar
<1>2. CASE Preguntar        BY <1>2 DEF Preguntar
<1>3. CASE RecibirRespuesta BY <1>3 DEF RecibirRespuesta
<1>4. CASE RecibirFin       BY <1>4 DEF RecibirFin
<1>5. CASE Terminar         BY <1>5 DEF Terminar
<1>6. CASE Conectar         BY <1>6 DEF Conectar
<1>7. CASE CaerPlanificador BY <1>7 DEF CaerPlanificador
<1> QED BY <1>1, <1>2, <1>3, <1>4, <1>5, <1>6, <1>7 DEF Bucle

\* While the Planificador is up, a thread never acts on an answer that was in
\* rdo_consulta_planificador before its own question.
THEOREM LaRespuestaNoEsAnterior == Spec => []RespuestaNoAnterior
<1>1. Init => InvTicket
  BY HilosBienFormados DEF Init, InvTicket, Inicial
<1>2. IInv /\ InvTicket /\ [Next]_vars => InvTicket'
  <2> SUFFICES ASSUME IInv, InvTicket, [Next]_vars PROVE InvTicket'
    OBVIOUS
  <2>1. ASSUME NEW h \in Hilos, Llegar(h) \/ Consultado(h) PROVE InvTicket'
    BY <2>1, TicketsDelHilo
  <2>2. CASE Bucle \/ Conectar \/ CaerPlanificador
    BY <2>2, TicketsDelBucle
  <2>3. CASE UNCHANGED vars
    BY <2>3 DEF vars, InvTicket
  <2> QED BY <2>1, <2>2, <2>3 DEF Next
<1>3. InvTicket => RespuestaNoAnterior
  BY DEF InvTicket, RespuestaNoAnterior
<1> QED BY <1>1, <1>2, <1>3, Invariante, PTL DEF Spec

-------------------------------------------------------------------------------
(***************************************************************************)
(* The refinement.  A step of a thread or of the loop moves one sentence   *)
(* one place forward in the abstract turn, or none.                        *)
(***************************************************************************)
LEMMA PasoDelHilo ==
  ASSUME IInv, NEW h \in Hilos, Llegar(h) \/ Consultado(h)
  PROVE  [Turno!Next]_lugar
<1> USE DEF Ir, Contestado, Preguntado
<1>1. CASE Llegar(h)
  <2>1. lugar[h] = "fuera" /\ lugar' = [lugar EXCEPT ![h] = "sentencia"]
    BY <1>1 DEF Llegar, lugar, IInv, TypeOK
  <2> QED BY <2>1 DEF Turno!Next, Turno!Llegar, Turno!Pasar
<1>2. CASE Cerrar(h)
  <2>1. lugar' = lugar BY <1>2 DEF Cerrar, lugar, IInv, TypeOK
  <2> QED BY <2>1
<1>3. CASE Publicar(h)
  <2>1. lugar' = lugar BY <1>3 DEF Publicar, lugar, IInv, TypeOK
  <2> QED BY <2>1
<1>4. CASE Avisar(h)
  <2>1. ~EnTurno BY <1>4 DEF Avisar, IInv, InvLock, EnTurno
  <2>2. lugar' = lugar
    BY <1>4, <2>1 DEF Avisar, lugar, IInv, TypeOK, InvSenal, Ocupado
  <2> QED BY <2>2
<1>5. CASE Esperar(h)
  <2>1. lock = h BY <1>5 DEF Esperar, IInv, InvLock
  <2>2. lugar' = lugar
    BY <1>5, <2>1 DEF Esperar, lugar, IInv, TypeOK, InvLock, InvSenal, Ocupado
  <2> QED BY <2>2
<1>6. CASE Abrir(h)
  <2>1. lugar' = lugar BY <1>6 DEF Abrir, lugar, IInv, TypeOK
  <2> QED BY <2>1
<1>7. CASE Devolver(h)
  <2>1. lugar[h] = "veredicto" /\ lugar' = [lugar EXCEPT ![h] = "fuera"]
    BY <1>7 DEF Devolver, lugar, IInv, TypeOK
  <2> QED BY <2>1 DEF Turno!Next, Turno!Devolver, Turno!Pasar
<1> QED BY <1>1, <1>2, <1>3, <1>4, <1>5, <1>6, <1>7 DEF Consultado

\* The loop answers the sentence of the owner of the mutex.
LEMMA PasoDelBucle ==
  ASSUME IInv, Bucle \/ Conectar \/ CaerPlanificador
  PROVE  [Turno!Next]_lugar
<1> USE DEF hilo, Contestado, Preguntado
<1>a. ASSUME EnTurno
      PROVE  /\ lock \in Hilos /\ pc[lock] = "avisado"
             /\ \A g \in Hilos : pc[g] = "avisado" => g = lock
  BY <1>a, HilosBienFormados DEF EnTurno, IInv, TypeOK, InvLock
<1>1. CASE Tomar
  <2>1. lugar' = lugar BY <1>1 DEF Tomar, lugar, IInv, TypeOK, InvSenal
  <2> QED BY <2>1
<1>2. CASE Preguntar
  <2>1. EnTurno /\ terminar BY <1>2 DEF Preguntar, IInv, InvSenal, Ocupado
  <2>2. /\ lugar[lock] = "sentencia"
        /\ \A g \in Hilos : lugar[g] # "consulta"
        /\ lugar' = [lugar EXCEPT ![lock] = "consulta"]
    BY <1>2, <2>1, <1>a DEF Preguntar, lugar, IInv, TypeOK
  <2> QED BY <2>1, <2>2, <1>a DEF Turno!Next, Turno!Consultar, Turno!Pasar
<1>3. CASE RecibirRespuesta \/ RecibirFin
  <2>1. EnTurno /\ terminar
    BY <1>3 DEF RecibirRespuesta, RecibirFin, IInv, InvSenal, Ocupado
  <2>2. /\ lugar[lock] = "consulta"
        /\ lugar' = [lugar EXCEPT ![lock] = "veredicto"]
    BY <1>3, <2>1, <1>a DEF RecibirRespuesta, RecibirFin, lugar, IInv, TypeOK
  <2> QED BY <2>1, <2>2, <1>a DEF Turno!Next, Turno!Resolver, Turno!Pasar
<1>4. CASE Terminar
  <2>1. lugar' = lugar
    BY <1>4 DEF Terminar, lugar, IInv, TypeOK
  <2> QED BY <2>1
<1>5. CASE Conectar
  <2>1. lugar' = lugar BY <1>5 DEF Conectar, lugar, IInv, TypeOK
  <2> QED BY <2>1
<1>6. CASE CaerPlanificador
  <2>1. lugar' = lugar BY <1>6 DEF CaerPlanificador, lugar
  <2> QED BY <2>1
<1> QED BY <1>1, <1>2, <1>3, <1>4, <1>5, <1>6 DEF Bucle

\* The handshake implements the turn: each sentence is put to the Planificador
\* once, alone, and its thread goes on when the loop has the answer.
THEOREM Refinamiento == Spec => ImplementaTurno
<1>1. Init => Turno!Init
  BY DEF Init, Turno!Init, lugar
<1>2. IInv /\ [Next]_vars => [Turno!Next]_lugar
  <2> SUFFICES ASSUME IInv, [Next]_vars PROVE [Turno!Next]_lugar
    OBVIOUS
  <2>1. ASSUME NEW h \in Hilos, Llegar(h) \/ Consultado(h) PROVE [Turno!Next]_lugar
    BY <2>1, PasoDelHilo
  <2>2. CASE Bucle \/ Conectar \/ CaerPlanificador
    BY <2>2, PasoDelBucle
  <2>3. CASE UNCHANGED vars
    BY <2>3 DEF vars, lugar, Contestado, Preguntado
  <2> QED BY <2>1, <2>2, <2>3 DEF Next
<1> QED BY <1>1, <1>2, Invariante, PTL DEF Spec, ImplementaTurno, Turno!Spec
===============================================================================
