----------------------------- MODULE Planificador -----------------------------
(***************************************************************************)
(* The memory of the Planificador process and the functions its handlers   *)
(* are made of (src/Planificador/src/Planificador.c).                      *)
(*                                                                         *)
(* The process has one thread, a select() loop, so a handler runs to its   *)
(* end before the next one starts: it is the sequential composition of the *)
(* C functions it calls.  Each function is an operator from the memory of  *)
(* the process to its memory after the call, under the name it has in the  *)
(* source; the two that leave a choice open (the order in which the keys   *)
(* of a finished ESI are released, and nothing else) give a set.  Module   *)
(* ReDistinto makes one action of every handler.                           *)
(*                                                                         *)
(* fallo records that a handler has dereferenced a NULL or freed pointer,  *)
(* or left a dangling one in a list that every lookup walks.  What the     *)
(* process does from there on is undefined: the model stops following it.  *)
(***************************************************************************)
EXTENDS Integers, FiniteSets, SequencesExt

CONSTANTS
  ESIs,               \* the ESI processes; a pid is never reused, so a process is its pid
  Claves,             \* the keys
  Nadie,              \* a NULL t_pcb_esi pointer
  Ninguna,            \* a NULL or freed key name
  Sistema,            \* pid -1: the key is locked by nobody's GET
  Libre,              \* no record of the key in claves_bloqueadas
  ClavesConfig,       \* CLAVES_BLOQUEADAS of the configuration file
  Algoritmo,          \* ALGORITMO of the configuration file
  EstimacionInicial,  \* ESTIMACION_INICIAL of the configuration file, in sentences
  Escala              \* units an estimate of one sentence is counted in

ASSUME PidsDistintos ==
  /\ Nadie \notin ESIs /\ Sistema \notin ESIs /\ Libre \notin ESIs
  /\ Nadie # Sistema /\ Nadie # Libre /\ Sistema # Libre
ASSUME ClavesDistintas == Ninguna \notin Claves /\ ClavesConfig \subseteq Claves
ASSUME EstimacionPositiva == EstimacionInicial \in Nat \ {0} /\ Escala \in Nat \ {0}

(***************************************************************************)
(* FIFO never reads the counters of a pcb, so they are kept only for the   *)
(* algorithms that do.                                                     *)
(***************************************************************************)
Mide == Algoritmo \in {"SJF-SD", "SJF-CD", "HRRN"}

Pcb == [clave  : Claves \cup {Ninguna},   \* clave_bloqueo
        repetir: BOOLEAN,                 \* ejec_anterior
        real   : Int,                     \* estimacion_real, times Escala
        actual : Int,                     \* estimacion_actual, times Escala
        instr  : Int,                     \* instruccion_actual
        espera : Int]                     \* tiempo_espera

(***************************************************************************)
(* The globals.  A counter that the code only compares with zero is a      *)
(* BOOLEAN.  desalojo_en_ejecucion is nonzero exactly when esi_por_desalojar *)
(* is not NULL, and desbloqueo_por_store exactly when its key is pending,  *)
(* so each pair is one field.  get_clave and get_pid are the fields of     *)
(* clave_a_bloquear_por_get; Ninguna and Nadie when it is NULL or freed.   *)
(***************************************************************************)
Memoria ==
  [exec          : ESIs \cup {Nadie},
   listos        : Seq(ESIs),
   bloqueados    : Seq(ESIs),
   terminados    : SUBSET ESIs,
   dueno         : [Claves -> ESIs \cup {Sistema, Libre}],  \* claves_bloqueadas
   pcb           : [ESIs -> Pcb],
   pausado       : BOOLEAN,
   bloqueo       : BOOLEAN,                 \* bloqueo_en_ejecucion
   kill          : BOOLEAN,                 \* kill_en_ejecucion
   por_desalojar : ESIs \cup {Nadie},
   por_get       : BOOLEAN,                 \* bloqueo_por_get
   get_clave     : Claves \cup {Ninguna},
   get_pid       : ESIs \cup {Nadie},
   store_clave   : Claves \cup {Ninguna},   \* clave_a_desbloquear_por_store
   orden         : SUBSET ESIs,             \* CONF_SENTENCIA sent and not read yet
   fallo         : BOOLEAN]

crear_esi == [clave |-> Ninguna, repetir |-> FALSE,
              real |-> Escala * EstimacionInicial,
              actual |-> Escala * EstimacionInicial,
              instr |-> 0, espera |-> 0]

MemoriaInicial ==
  [exec |-> Nadie, listos |-> <<>>, bloqueados |-> <<>>, terminados |-> {},
   dueno |-> [k \in Claves |-> IF k \in ClavesConfig THEN Sistema ELSE Libre],
   pcb |-> [e \in ESIs |-> crear_esi],
   pausado |-> FALSE, bloqueo |-> FALSE, kill |-> FALSE,
   por_desalojar |-> Nadie, por_get |-> FALSE,
   get_clave |-> Ninguna, get_pid |-> Nadie, store_clave |-> Ninguna,
   orden |-> {}, fallo |-> FALSE]

Romper(p) == [p EXCEPT !.fallo = TRUE]

(***************************************************************************)
(* The lists.                                                              *)
(***************************************************************************)
sacar_esi_de_lista_pid(s, e) ==
  IF e \in ToSet(s) THEN RemoveAt(s, CHOOSE i \in DOMAIN s : s[i] = e) ELSE s

\* The sequences that keep the order of s and leave out the elements of D.
SinElementos(s, D) ==
  {t \in SetToSeqs(ToSet(s) \ D) :
     \A i, j \in DOMAIN t : i < j =>
       \E m, n \in DOMAIN s : m < n /\ s[m] = t[i] /\ s[n] = t[j]}

\* Positions in esi_bloqueados of the ESIs that wait for k.
EsperanClave(p, k) == {i \in DOMAIN p.bloqueados : p.pcb[p.bloqueados[i]].clave = k}

buscar_clave_bloqueada(p, k) == p.dueno[k] # Libre

(***************************************************************************)
(* Estimates and the choice of the next ESI.  ALPHA is 50, so an estimate  *)
(* is the mean of the last burst and the last estimate.                    *)
(***************************************************************************)
estimar_esi(r) ==
  LET nueva == (r.instr * Escala + r.real) \div 2
  IN  IF Mide THEN [r EXCEPT !.real = nueva, !.actual = nueva, !.instr = 0] ELSE r

sentencia_contada(r) ==
  IF Mide THEN [r EXCEPT !.instr = @ + 1, !.actual = @ - Escala] ELSE r

\* The ratios (espera + real) / real are compared without dividing.
Precede(p, e, f) ==
  LET a == p.pcb[e]
      b == p.pcb[f]
  IN  \/ Algoritmo \in {"SJF-SD", "SJF-CD"} /\ a.real < b.real
      \/ /\ Algoritmo = "HRRN"
         /\ (a.espera * Escala + a.real) * b.real > (b.espera * Escala + b.real) * a.real

\* The position list_sort leaves first: ties keep the order of arrival.
Proximos(p) ==
  {i \in DOMAIN p.listos :
     \A j \in DOMAIN p.listos \ {i} :
       \/ Precede(p, p.listos[i], p.listos[j])
       \/ i < j /\ ~Precede(p, p.listos[j], p.listos[i])}

\* Mutant: the send fails and nobody looks at its result.
envio_perdido(p) == p

enviar_esi_confirmacion_sentencia(p) == [p EXCEPT !.orden = @ \cup {p.exec}]

obtener_proximo_ejecucion(p) ==
  {enviar_esi_confirmacion_sentencia(
     [p EXCEPT !.exec = p.listos[i], !.listos = RemoveAt(p.listos, i)]) : i \in Proximos(p)}

\* Mutant: planificar that does not ask whether an ESI is running.
planificar_sin_mirar_ejecucion(p) ==
  IF p.fallo \/ p.pausado \/ p.listos = <<>> THEN {p} ELSE obtener_proximo_ejecucion(p)

\* Mutant: planificar that does not ask whether the operator paused.
planificar_sin_mirar_pausa(p) ==
  IF p.fallo \/ p.exec # Nadie \/ p.listos = <<>> THEN {p} ELSE obtener_proximo_ejecucion(p)

planificar(p) ==
  IF p.fallo \/ p.exec # Nadie \/ p.pausado \/ p.listos = <<>>
  THEN {p}
  ELSE obtener_proximo_ejecucion(p)

aumentar_tiempo_espera_ready(p) ==
  [p EXCEPT !.pcb = [e \in ESIs |->
     IF Algoritmo = "HRRN" /\ e \in ToSet(p.listos)
     THEN [p.pcb[e] EXCEPT !.espera = @ + 1] ELSE p.pcb[e]]]

\* Mutant: preempts on a tie.
Desaloja_con_empate(p, e) ==
  Algoritmo = "SJF-CD" /\ p.exec # Nadie /\ p.pcb[e].real <= p.pcb[p.exec].actual

\* SJF-CD: an ESI that becomes ready asks for the CPU of the one that has it.
Desaloja(p, e) ==
  /\ Algoritmo = "SJF-CD"
  /\ p.exec # Nadie
  /\ p.pcb[e].real < p.pcb[p.exec].actual

pedir_desalojo(p, e) == IF Desaloja(p, e) THEN [p EXCEPT !.por_desalojar = e] ELSE p

(***************************************************************************)
(* Locking and unlocking a key.                                            *)
(***************************************************************************)
bloquear_clave(p, k, e) ==
  IF buscar_clave_bloqueada(p, k) THEN p
  ELSE [p EXCEPT !.dueno[k] =
          IF e = p.exec \/ e \in ToSet(p.listos) THEN e ELSE Sistema]

bloquear_esi_pid(p, k, e) ==
  IF e = p.exec
  THEN [p EXCEPT !.pcb[e].clave = k, !.bloqueo = TRUE]
  ELSE IF e \in ToSet(p.listos)
  THEN [p EXCEPT !.pcb[e].clave = k,
                 !.listos = sacar_esi_de_lista_pid(p.listos, e),
                 !.bloqueados = Append(p.bloqueados, e)]
  ELSE p

\* An ESI that leaves esi_bloqueados for esi_listos.
Despertado(r) == estimar_esi([r EXCEPT !.clave = Ninguna, !.espera = 0])

(***************************************************************************)
(* desbloquear_clave looks for the first waiter and then for another one,  *)
(* with strcmp on the clave_bloqueo of each blocked ESI in turn: a blocked *)
(* ESI whose clave_bloqueo is NULL ends the process unless both searches   *)
(* stop before reaching it.                                                *)
(***************************************************************************)
RecorridoSeguro(p, k) ==
  \A i \in DOMAIN p.bloqueados :
    p.pcb[p.bloqueados[i]].clave = Ninguna =>
      \E m, n \in EsperanClave(p, k) : m < n /\ n < i

\* Mutant: the record of the key is destroyed although other ESIs wait for it.
desbloquear_clave_sin_mirar_otros(p, k) ==
  LET espera == EsperanClave(p, k)
      i == Min(espera)
      e == p.bloqueados[i]
      q == [p EXCEPT !.bloqueados = RemoveAt(p.bloqueados, i),
                     !.pcb[e] = Despertado(p.pcb[e])]
  IN  IF ~buscar_clave_bloqueada(p, k) THEN p
      ELSE IF espera = {} THEN [p EXCEPT !.dueno[k] = Libre]
      ELSE [pedir_desalojo(q, e) EXCEPT !.listos = Append(p.listos, e), !.dueno[k] = Libre]

desbloquear_clave(p, k) ==
  LET espera == EsperanClave(p, k)
      i == Min(espera)
      e == p.bloqueados[i]
      q == [p EXCEPT !.bloqueados = RemoveAt(p.bloqueados, i),
                     !.pcb[e] = Despertado(p.pcb[e])]
      r == [pedir_desalojo(q, e) EXCEPT !.listos = Append(p.listos, e)]
  IN  IF ~buscar_clave_bloqueada(p, k) THEN p
      ELSE IF ~RecorridoSeguro(p, k) THEN Romper(p)
      ELSE IF espera = {} THEN [p EXCEPT !.dueno[k] = Libre]
      ELSE IF espera = {i} THEN [r EXCEPT !.dueno[k] = Libre]
      ELSE r

(***************************************************************************)
(* desbloquear_claves_bloqueadas_pid unlocks every key of a finished ESI.  *)
(* A key for which two or more ESIs wait stays in claves_bloqueadas and    *)
(* its record is freed under it: the process has a dangling pointer in a   *)
(* list it walks at every lookup.  The order in which the keys were locked *)
(* is not kept, so every order of waking their waiters is possible.        *)
(***************************************************************************)
ClavesDe(p, e) == {k \in Claves : p.dueno[k] = e}

LiberacionSegura(p, e) ==
  /\ \A k \in ClavesDe(p, e) : \A i, j \in EsperanClave(p, k) : i = j
  /\ \A i \in DOMAIN p.bloqueados : p.pcb[p.bloqueados[i]].clave # Ninguna

\* The last woken ESI that beats the running one is the one that preempts it.
ConDesalojo(p, fila) ==
  LET ganan == {i \in DOMAIN fila : Desaloja(p, fila[i])}
  IN  IF ganan = {} THEN p ELSE [p EXCEPT !.por_desalojar = fila[Max(ganan)]]

Despertados(p, e) == {f \in ToSet(p.bloqueados) : p.pcb[f].clave \in ClavesDe(p, e)}

SinClavesDe(p, e) ==
  [p EXCEPT
     !.dueno = [k \in Claves |-> IF p.dueno[k] = e THEN Libre ELSE p.dueno[k]],
     !.pcb = [f \in ESIs |-> IF f \in Despertados(p, e) THEN Despertado(p.pcb[f]) ELSE p.pcb[f]]]

Liberadas(p, e, fila, resto) ==
  [ConDesalojo(SinClavesDe(p, e), fila) EXCEPT !.bloqueados = resto, !.listos = p.listos \o fila]

desbloquear_claves_bloqueadas_pid(p, e) ==
  IF ClavesDe(p, e) = {} THEN {p}
  ELSE IF ~LiberacionSegura(p, e) THEN {Romper(p)}
  ELSE {Liberadas(p, e, fila, resto) :
          fila \in SetToSeqs(Despertados(p, e)),
          resto \in SinElementos(p.bloqueados, Despertados(p, e))}

(***************************************************************************)
(* finalizar_esi takes the ESI out of the queue it is in, releases its     *)
(* keys if told to, and closes its connection.                             *)
(***************************************************************************)
EnSistema(p, e) == e = p.exec \/ e \in ToSet(p.listos) \/ e \in ToSet(p.bloqueados)

\* Mutant: a blocked ESI is left in esi_bloqueados.
sacar_de_colas_salvo_bloqueados(p, e) ==
  IF e = p.exec THEN [p EXCEPT !.exec = Nadie]
  ELSE [p EXCEPT !.listos = sacar_esi_de_lista_pid(p.listos, e)]

sacar_de_colas(p, e) ==
  IF e = p.exec THEN [p EXCEPT !.exec = Nadie]
  ELSE IF e \in ToSet(p.listos)
  THEN [p EXCEPT !.listos = sacar_esi_de_lista_pid(p.listos, e)]
  ELSE [p EXCEPT !.bloqueados = sacar_esi_de_lista_pid(p.bloqueados, e)]

pasar_a_terminados(p, e) ==
  IF p.fallo THEN p
  ELSE [p EXCEPT !.terminados = @ \cup {e}, !.pcb[e].clave = Ninguna, !.orden = @ \ {e}]

\* Mutant: the keys are never released.
finalizar_esi_sin_liberar(p, e, liberar) ==
  IF ~EnSistema(p, e) THEN {p} ELSE {pasar_a_terminados(sacar_de_colas(p, e), e)}

finalizar_esi(p, e, liberar) ==
  LET q == sacar_de_colas(p, e)
  IN  IF ~EnSistema(p, e) THEN {p}
      ELSE IF liberar
      THEN {pasar_a_terminados(r, e) : r \in desbloquear_claves_bloqueadas_pid(q, e)}
      ELSE {pasar_a_terminados(q, e)}

(***************************************************************************)
(* What a CORRECTO of the running ESI sets off, in the order of the code.  *)
(* Every confirmation dereferences esi_en_ejecucion, and the first three   *)
(* that apply may have left it NULL for the next one.                      *)
(***************************************************************************)
confirmar_bloqueo_ejecucion(p) ==
  [p EXCEPT !.pcb[p.exec].repetir = TRUE,
            !.bloqueados = Append(@, p.exec), !.exec = Nadie, !.bloqueo = FALSE]

confirmar_bloqueo_por_get(p) ==
  IF p.get_pid = Nadie THEN Romper(p)
  ELSE [bloquear_clave(p, p.get_clave, p.get_pid) EXCEPT
          !.por_get = FALSE, !.get_clave = Ninguna, !.get_pid = Nadie]

confirmar_desbloqueo_por_store(p) ==
  [desbloquear_clave(p, p.store_clave) EXCEPT !.store_clave = Ninguna]

confirmar_pausa_por_consola(p) ==
  IF p.exec = Nadie THEN Romper(p)
  ELSE [p EXCEPT !.pcb[p.exec].espera = 0, !.listos = Append(@, p.exec), !.exec = Nadie]

confirmar_kill_ejecucion(p) ==
  IF p.exec = Nadie THEN {Romper(p)} ELSE finalizar_esi(p, p.exec, TRUE)

confirmar_desalojo_ejecucion(p) ==
  LET cola == Append(p.listos, p.exec)
  IN  IF p.exec = Nadie THEN Romper(p)
      ELSE [p EXCEPT
              !.pcb[p.exec].espera = 0,
              !.listos = sacar_esi_de_lista_pid(cola, p.por_desalojar),
              !.exec = IF p.por_desalojar \in ToSet(cola) THEN p.por_desalojar ELSE Nadie,
              !.por_desalojar = Nadie]

resultado_correcto(p) ==
  LET c1 == [p EXCEPT !.pcb[p.exec] = [sentencia_contada(@) EXCEPT !.repetir = FALSE]]
      c2 == IF c1.bloqueo THEN confirmar_bloqueo_ejecucion(c1) ELSE c1
      c3 == IF c2.por_get THEN confirmar_bloqueo_por_get(c2) ELSE c2
      c4 == IF ~c3.fallo /\ c3.store_clave # Ninguna
            THEN confirmar_desbloqueo_por_store(c3) ELSE c3
      c5 == IF ~c4.fallo /\ c4.pausado THEN confirmar_pausa_por_consola(c4) ELSE c4
      C6 == IF ~c5.fallo /\ c5.kill THEN confirmar_kill_ejecucion(c5) ELSE {c5}
      c7(c) == IF ~c.fallo /\ c.por_desalojar # Nadie
               THEN confirmar_desalojo_ejecucion(c) ELSE c
      c8(c) == IF ~c.fallo /\ c.exec # Nadie
               THEN enviar_esi_confirmacion_sentencia(c) ELSE c
  IN  {c8(c7(c)) : c \in C6}

\* Mutant: esi_en_ejecucion is set to NULL before the ESI goes to esi_bloqueados.
resultado_clave_bloqueada_en_otro_orden(p, e) ==
  IF p.get_pid = Nadie THEN Romper(p)
  ELSE [p EXCEPT !.bloqueados = Append(@, Nadie), !.exec = Nadie,
                 !.get_clave = Ninguna, !.get_pid = Nadie]

resultado_clave_bloqueada(p, e) ==
  IF p.get_pid = Nadie THEN Romper(p)
  ELSE IF p.get_pid # e THEN p
  ELSE [p EXCEPT !.pcb[p.exec] = [sentencia_contada(@) EXCEPT
                                    !.repetir = TRUE, !.clave = p.get_clave],
                 !.bloqueados = Append(@, p.exec), !.exec = Nadie,
                 !.get_clave = Ninguna, !.get_pid = Nadie]

(***************************************************************************)
(* The handlers.  recibir_mensaje_esi reads one result of ESI e; every     *)
(* branch dereferences esi_en_ejecucion, whichever ESI the message is of.  *)
(***************************************************************************)
procesar_resultado(p, e, resultado) ==
  IF p.exec = Nadie THEN {Romper(p)}
  ELSE CASE resultado = "CORRECTO"        -> resultado_correcto(p)
         [] resultado = "LISTO"           -> finalizar_esi(p, p.exec, TRUE)
         [] resultado = "CLAVE_BLOQUEADA" -> {resultado_clave_bloqueada(p, e)}
         [] OTHER                         -> finalizar_esi(p, p.exec, FALSE)

\* Mutant: the handler returns without planning.
recibir_mensaje_esi_sin_planificar(p, e, resultado) ==
  {aumentar_tiempo_espera_ready(q) : q \in procesar_resultado(p, e, resultado)}

recibir_mensaje_esi(p, e, resultado) ==
  UNION {planificar(aumentar_tiempo_espera_ready(q)) : q \in procesar_resultado(p, e, resultado)}

\* recv() gives 0: planificar, and main finishes the ESI and plans again.
recibir_desconexion_esi(p, e) ==
  UNION {planificar(r) : r \in UNION {finalizar_esi(q, e, TRUE) : q \in planificar(p)}}

\* recv() gives -1: the ESI is finished, its keys are kept, nothing is planned.
recibir_error_esi(p, e) == finalizar_esi(p, e, FALSE)

atender_nuevo_esi(p, e) ==
  LET q == [p EXCEPT !.pcb[e] = crear_esi, !.listos = Append(@, e)]
  IN  planificar(pedir_desalojo(q, e))

\* Mutant: a GET is always allowed.
veredicto_get_libre(p, e, op, k) ==
  IF op = "GET" \/ p.dueno[k] = e THEN "CORRECTO" ELSE "ABORTAR"

\* Mutant: a SET or STORE asks whether the key is locked, not by whom.
veredicto_sin_mirar_dueno(p, e, op, k) ==
  IF op = "GET"
  THEN IF buscar_clave_bloqueada(p, k) THEN "CLAVE_BLOQUEADA" ELSE "CORRECTO"
  ELSE IF buscar_clave_bloqueada(p, k) THEN "CORRECTO" ELSE "ABORTAR"

veredicto(p, e, op, k) ==
  IF op = "GET"
  THEN IF buscar_clave_bloqueada(p, k) THEN "CLAVE_BLOQUEADA" ELSE "CORRECTO"
  ELSE IF p.dueno[k] = e THEN "CORRECTO" ELSE "ABORTAR"

\* Mutant: a STORE leaves its release pending whoever owns the key.
store_sin_mirar_dueno(p, e, op, k) ==
  IF op = "GET"
  THEN [p EXCEPT !.por_get = @ \/ ~buscar_clave_bloqueada(p, k),
                 !.get_clave = k, !.get_pid = e]
  ELSE IF op = "STORE" THEN [p EXCEPT !.store_clave = k] ELSE p

\* What a consultation leaves pending until the ESI confirms its result.
recibir_mensaje_coordinador(p, e, op, k) ==
  IF op = "GET"
  THEN [p EXCEPT !.por_get = @ \/ ~buscar_clave_bloqueada(p, k),
                 !.get_clave = k, !.get_pid = e]
  ELSE IF op = "STORE" /\ p.dueno[k] = e THEN [p EXCEPT !.store_clave = k]
  ELSE p

consola_pausar(p) == [p EXCEPT !.pausado = TRUE]

\* Mutant: continuar only clears the flag.
consola_continuar_sin_planificar(p) == {[p EXCEPT !.pausado = FALSE]}

consola_continuar(p) == planificar([p EXCEPT !.pausado = FALSE])

consola_bloquear_clave(p, k, e) ==
  IF p.dueno[k] \in {Libre, e} THEN bloquear_clave(p, k, e) ELSE bloquear_esi_pid(p, k, e)

consola_desbloquear_clave(p, k) == planificar(desbloquear_clave(p, k))

consola_matar_proceso(p, e) ==
  IF e = p.exec THEN {[p EXCEPT !.kill = TRUE]}
  ELSE UNION {planificar(q) : q \in finalizar_esi(p, e, TRUE)}
===============================================================================
