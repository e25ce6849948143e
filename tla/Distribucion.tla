----------------------------- MODULE Distribucion -----------------------------
(***************************************************************************)
(* How the Coordinador gives keys to Instancias and sends them sentences   *)
(* (src/Coordinador/src: Coordinador.c, funcionesInstancia.c,              *)
(* FuncionesCoordinador.c, FuncionesPlanificador.c).                       *)
(*                                                                         *)
(* The threads of the ESIs and the thread of the command status read and   *)
(* change lista_claves and lista_instancias without a lock; between two    *)
(* steps of a thread here it waits for a socket or releases what it read.  *)
(* Objects t_clave are reached by pointer and never freed: they have an    *)
(* index in claves.  lista_claves is a set of indices: its order is that   *)
(* of their creation, because list_add() adds at the end.                  *)
(*                                                                         *)
(* External: the Planificador, which lets one ESI send at a time and keeps *)
(* the owners of the keys (module Planificador), and what an Instancia     *)
(* answers (module Instancia).  A compaction is one step (Compacta-        *)
(* cion).  falla records that the Coordinador used a pointer that is NULL  *)
(* (nulo) or that nobody set: what a function without a return gave        *)
(* (basura), the name of the t_instancia ERROR (error), the letter after z *)
(* (letra), the text of an answer that is none of the known ones (texto).  *)
(* The model stops there.                                                  *)
(***************************************************************************)
EXTENDS Integers, FiniteSets, SequencesExt

CONSTANTS
  Hilos,         \* the threads of the ESIs
  Claves,
  Instancias,
  Nadie,         \* no Instancia, no owner, no key
  ERROR,         \* the t_instancia that stands for "there is none"
  Letra,         \* place in the alphabet of the first letter of a key, from 0; 26 for a
                 \* character that is not a lowercase letter
  Algoritmos,    \* the values of ALGORITMO_DISTRIBUCION that are tried
  MaxLibres,     \* CANT_MAX_ENTRADAS
  PuedenCaer,    \* the ESIs that may die
  PuedenMorir,   \* the Instancias that may die
  MaxSentencias, \* bound: sentences in all
  MaxConsultas,  \* bound: status commands
  MaxVidas       \* bound: times an Instancia connects

ASSUME DistribucionBienFormada ==
  /\ Letra \in [Claves -> 0..26]
  /\ Algoritmos \subseteq {"EQL", "LSU", "KE"}
  /\ {MaxLibres, MaxSentencias, MaxConsultas, MaxVidas} \subseteq Nat
  /\ PuedenCaer \subseteq Hilos /\ PuedenMorir \subseteq Instancias
  /\ Nadie \notin Hilos \union Instancias /\ ERROR \notin Instancias \union {Nadie}

VARIABLES
  algoritmo,             \* ALGORITMO_DISTRIBUCION
  lista_instancias,      \* the Instancias in the order they first connected
  libres, flag,          \* their entradas_libres and flag_thread, kept for LSU only
  viva, vida,            \* their process is connected; how many times it has been
  claves,                \* the objects t_clave
  lista_claves,          \* those in the list
  indice_actual_lista,
  hilo,                  \* the thread of each ESI
  terminados,            \* the ESIs that are over
  dueno,                 \* external: the owner of each key
  status,                \* the thread of the command status
  sentencias, consultas, \* counters for the bounds
  falla,
  \* History, read by properties only.
  huerfanos,             \* threads whose ESI died in the middle of a sentence
  quito                  \* the status thread has called eliminarClave

instancia == <<lista_instancias, libres, viva, vida>>
lista == <<claves, lista_claves>>
externo == <<terminados, dueno>>
historia == <<huerfanos, quito>>
vars == <<algoritmo, instancia, flag, lista, indice_actual_lista, hilo, externo, status,
          sentencias, consultas, falla, historia>>

Reposo == [pc |-> "nada", op |-> "GET", clave |-> Nadie, obj |-> 0, proxima |-> Nadie,
           reintentos |-> 0]

Init ==
  /\ algoritmo \in Algoritmos
  /\ lista_instancias = <<>>
  /\ libres = [i \in Instancias |-> MaxLibres]
  /\ flag = [i \in Instancias |-> FALSE]
  /\ viva = [i \in Instancias |-> FALSE]
  /\ vida = [i \in Instancias |-> 0]
  /\ claves = <<>> /\ lista_claves = {}
  /\ indice_actual_lista = -1
  /\ hilo = [h \in Hilos |-> Reposo]
  /\ terminados = {} /\ dueno = [k \in Claves |-> Nadie]
  /\ status = [pc |-> "nada", obj |-> 0]
  /\ sentencias = 0 /\ consultas = 0
  /\ falla = "no"
  /\ huerfanos = {} /\ quito = FALSE

-----------------------------------------------------------------------------
(* The lists.                                                               *)

\* The objects of a key in the list, and the first of them.
Con(k) == {o \in lista_claves : claves[o].clave = k}
existeClave(k) == Con(k) # {}
Primero(k) == Min(Con(k))
Repetida(k) == \E a, b \in Con(k) : a # b

\* The first object of the key, or else the one at position 0; list_remove() of an empty
\* list is not possible.
eliminarClave(k) == lista_claves \ {IF existeClave(k) THEN Primero(k) ELSE Min(lista_claves)}

Conectada(i) == i \in Instancias /\ viva[i]
Hay == \E n \in DOMAIN lista_instancias : viva[lista_instancias[n]]

\* check_todas_las_instancias, and what a check does to the flag of one.
FlagsTrasCheck == [i \in Instancias |-> flag[i] /\ viva[i]]
FlagTrasChequear(i) ==
  IF Conectada(i) \/ i = ERROR \/ algoritmo # "LSU" THEN flag ELSE [flag EXCEPT ![i] = FALSE]

\* actualizarEntradasLibres, with what the Instancia says.
ActualizarLibres(i) ==
  IF algoritmo = "LSU" THEN \E n \in 0..MaxLibres : libres' = [libres EXCEPT ![i] = n]
  ELSE UNCHANGED libres

-----------------------------------------------------------------------------
(* siguienteInstanciaSegunAlgoritmo.                                        *)

\* Mutant: the index only grows.
AvanzarIndice_sin_tope == indice_actual_lista + 1

\* The list grows while indice_actual_lista goes round: > lets it be the size once.
AvanzarIndice ==
  LET cant == Len(lista_instancias)
  IN  IF indice_actual_lista + 1 > cant THEN indice_actual_lista + 1 - cant
      ELSE indice_actual_lista + 1

siguienteEqLoad == lista_instancias[(AvanzarIndice % Len(lista_instancias)) + 1]

\* The first one is the choice to beat, whatever its flag; of the flagged ones with more
\* entries left than it, the first that has most.
Mejores ==
  {n \in DOMAIN lista_instancias :
     flag[lista_instancias[n]] /\ libres[lista_instancias[n]] > libres[lista_instancias[1]]}
Maximos ==
  {n \in Mejores : \A m \in Mejores : libres[lista_instancias[m]] <= libres[lista_instancias[n]]}
siguienteLSU == lista_instancias[IF Mejores = {} THEN 1 ELSE Min(Maximos)]

\* Each Instancia takes rango_letras + 1 letters.
CANTIDAD_LETRAS == 25
RangoDeLetras(cant) ==
  (CANTIDAD_LETRAS \div cant) + (IF CANTIDAD_LETRAS % cant > 0 THEN 1 ELSE 0)
siguienteKeyExplicit(k) ==
  lista_instancias[(Letra[k] \div (RangoDeLetras(Len(lista_instancias)) + 1)) + 1]

\* The search goes past z, where cual_es_el_string() has nothing to return, frees that, and
\* returns nothing itself.
PasaDeLaZ(k) == algoritmo = "KE" /\ Letra[k] = 26

Candidata(k) ==
  CASE algoritmo = "EQL" -> siguienteEqLoad
    [] algoritmo = "LSU" -> siguienteLSU
    [] algoritmo = "KE"  -> siguienteKeyExplicit(k)

\* What one turn of the loop returns; nothing when it goes round again.
Elegida(k) ==
  IF Conectada(Candidata(k)) THEN {Candidata(k)}
  ELSE IF algoritmo = "EQL" THEN {} ELSE {ERROR}

-----------------------------------------------------------------------------
(* The thread of an ESI.                                                    *)

En(h, pc) == hilo[h].pc = pc /\ falla = "no"
Va(h, pc) == hilo' = [hilo EXCEPT ![h].pc = pc]
Romper(f) == falla' = f

\* devolverCodigoResultadoAESI.  The ESI that is told to abort is over for the
\* Planificador, which leaves it the owner of its keys (no_liberar).
Responder(h, rta) ==
  /\ hilo' = [hilo EXCEPT ![h] = Reposo]
  /\ terminados' = terminados \union (IF rta = "ABORTAR" THEN {h} ELSE {})
  /\ UNCHANGED dueno

\* puedoEjecutarSentencia, up to the call of guardarClaveInternamente.
Recibir(h, op, k) ==
  /\ En(h, "nada") /\ sentencias < MaxSentencias
  /\ h \notin terminados
  /\ \A g \in Hilos \ terminados : hilo[g].pc = "nada"
  /\ sentencias' = sentencias + 1
  /\ IF lista_instancias = <<>> \/ (op # "GET" /\ ~existeClave(k))
     THEN Responder(h, "ABORTAR")
     ELSE /\ hilo' = [hilo EXCEPT ![h] = [pc |-> "guardar", op |-> op, clave |-> k, obj |-> 0,
                                           proxima |-> Nadie, reintentos |-> 0]]
          /\ UNCHANGED externo
  /\ UNCHANGED <<algoritmo, instancia, flag, lista, indice_actual_lista, status,
                 consultas, falla, historia>>

\* Only a SET looks whether the Instancia of its key answers.
TrasGuardar(h) == IF hilo[h].op = "SET" THEN "comprobar" ELSE "consultar"

\* Mutant: the Instancia of a key that has one is chosen again.
guardarClaveInternamente_siempre(h) ==
  LET k == hilo[h].clave
      o == IF existeClave(k) THEN Primero(k) ELSE 0
  IN  /\ En(h, "guardar")
      /\ ~Repetida(k)
      /\ hilo' = [hilo EXCEPT ![h].obj = o, ![h].pc =
           IF o = 0 /\ hilo[h].op = "GET" THEN "agregar"
           ELSE IF hilo[h].op # "GET" THEN "elegir" ELSE "consultar"]
      /\ UNCHANGED <<algoritmo, instancia, flag, lista, indice_actual_lista, externo, status,
                     sentencias, consultas, falla, historia>>

\* Mutant: a STORE does not choose an Instancia either.
guardarClaveInternamente_solo_set(h) ==
  LET o == IF existeClave(hilo[h].clave) THEN Primero(hilo[h].clave) ELSE 0
  IN  /\ En(h, "guardar") /\ ~Repetida(hilo[h].clave)
      /\ hilo' = [hilo EXCEPT ![h].obj = o, ![h].pc =
           IF o = 0 /\ hilo[h].op # "SET" THEN "agregar"
           ELSE IF hilo[h].op = "SET" /\ (o = 0 \/ claves[o].instancia = Nadie)
           THEN "elegir" ELSE TrasGuardar(h)]
      /\ UNCHANGED <<algoritmo, instancia, flag, lista, indice_actual_lista, externo, status,
                     sentencias, consultas, falla, historia>>

\* Mutant: the filter compares with == and finds no key.
guardarClaveInternamente_no_encuentra(h) ==
  /\ En(h, "guardar")
  /\ Va(h, IF hilo[h].op = "GET" THEN "agregar" ELSE "elegir")
  /\ UNCHANGED <<algoritmo, instancia, flag, lista, indice_actual_lista, externo, status,
                 sentencias, consultas, falla, historia>>

\* The filter of lista_claves.  With more than one object the function ends without a
\* return: a SET reads the field of whatever comes back.
guardarClaveInternamente(h) ==
  LET k == hilo[h].clave
      o == IF existeClave(k) THEN Primero(k) ELSE 0
  IN  /\ En(h, "guardar")
      /\ IF Repetida(k)
         THEN IF hilo[h].op = "SET" THEN Romper("basura") /\ UNCHANGED hilo
              ELSE Va(h, "consultar") /\ UNCHANGED falla
         ELSE /\ hilo' = [hilo EXCEPT ![h].obj = o, ![h].pc =
                   IF o = 0 /\ hilo[h].op = "GET" THEN "agregar"
                   ELSE IF hilo[h].op # "GET" /\ (o = 0 \/ claves[o].instancia = Nadie)
                   THEN "elegir" ELSE TrasGuardar(h)]
              /\ UNCHANGED falla
      /\ UNCHANGED <<algoritmo, instancia, flag, lista, indice_actual_lista, externo, status,
                     sentencias, consultas, historia>>

\* list_add() of a new object.
Agregar(h, i) ==
  /\ claves' = Append(claves, [clave |-> hilo[h].clave, instancia |-> i])
  /\ lista_claves' = lista_claves \union {Len(claves) + 1}
  /\ hilo' = [hilo EXCEPT ![h].obj = Len(claves) + 1, ![h].pc = TrasGuardar(h)]

AgregarSinInstancia(h) ==
  /\ En(h, "agregar")
  /\ Agregar(h, Nadie)
  /\ UNCHANGED <<algoritmo, instancia, flag, indice_actual_lista, externo, status,
                 sentencias, consultas, falla, historia>>

\* The object is the one of the key by now, or the new one.
Asignar(h, i) ==
  IF hilo[h].obj = 0 THEN Agregar(h, i)
  ELSE /\ claves' = [claves EXCEPT ![hilo[h].obj].instancia = i]
       /\ Va(h, TrasGuardar(h))
       /\ UNCHANGED lista_claves

\* There is none: strncpy() writes to nombre, which nobody set, and so may break; else
\* the key is left with an Instancia whose socket nobody set.
SinInstancia(h) ==
  \/ Asignar(h, ERROR) /\ UNCHANGED falla
  \/ Romper("error") /\ UNCHANGED <<hilo, lista>>

\* hay_alguna_conectada ends without a return when the Instancia is down.
EntrarASiguiente(h) ==
  /\ En(h, "elegir")
  /\ flag' = FlagsTrasCheck
  /\ IF hilo[h].obj # 0 /\ ~existeClave(hilo[h].clave)
     THEN Romper("nulo") /\ UNCHANGED <<hilo, lista>>   \* getClaveByName finds it no more
     ELSE \/ Va(h, "lazo") /\ UNCHANGED <<lista, falla>>
          \/ ~Hay /\ SinInstancia(h)
  /\ UNCHANGED <<algoritmo, instancia, indice_actual_lista, externo, status,
                 sentencias, consultas, historia>>

\* Mutant: ASIGNAR leaves the index where it is, as SIMULAR does.
siguienteInstanciaSegunAlgoritmo_simula(h) ==
  LET k == hilo[h].clave
  IN  /\ En(h, "lazo") /\ ~PasaDeLaZ(k) /\ Elegida(k) \ {ERROR} # {}
      /\ Asignar(h, Candidata(k))
      /\ UNCHANGED <<algoritmo, instancia, flag, indice_actual_lista, externo, status,
                     sentencias, consultas, falla, historia>>

siguienteInstanciaSegunAlgoritmo(h) ==
  LET k == hilo[h].clave
  IN  /\ En(h, "lazo")
      /\ IF PasaDeLaZ(k)
         THEN Romper("letra") /\ UNCHANGED <<flag, indice_actual_lista, hilo, lista>>
         ELSE /\ flag' = FlagTrasChequear(Candidata(k))
              /\ indice_actual_lista' =
                   IF algoritmo = "EQL" THEN AvanzarIndice ELSE indice_actual_lista
              /\ CASE Elegida(k) = {}      -> UNCHANGED <<hilo, lista, falla>>
                   [] Elegida(k) = {ERROR} -> SinInstancia(h)
                   [] OTHER -> Asignar(h, Candidata(k)) /\ UNCHANGED falla
      /\ UNCHANGED <<algoritmo, instancia, externo, status, sentencias, consultas, historia>>

Comprobar(h) ==
  LET i == claves[hilo[h].obj].instancia
  IN  /\ En(h, "comprobar")
      /\ flag' = FlagTrasChequear(i)
      /\ Va(h, IF Conectada(i) THEN "consultar" ELSE "eliminar")
      /\ UNCHANGED <<algoritmo, instancia, lista, indice_actual_lista, externo, status,
                     sentencias, consultas, falla, historia>>

Eliminar(h) ==
  /\ En(h, "eliminar")
  /\ IF lista_claves = {} THEN Romper("nulo") /\ UNCHANGED <<lista_claves, hilo, externo>>
     ELSE /\ lista_claves' = eliminarClave(hilo[h].clave)
          /\ Responder(h, "ABORTAR")
          /\ UNCHANGED falla
  /\ UNCHANGED <<algoritmo, instancia, flag, claves, indice_actual_lista, status,
                 sentencias, consultas, historia>>

\* External: the verdict of the Planificador.
Veredicto(h, op, k) ==
  IF op = "GET" THEN IF dueno[k] = Nadie THEN "CORRECTO" ELSE "CLAVE_BLOQUEADA"
  ELSE IF dueno[k] = h THEN "CORRECTO" ELSE "ABORTAR"

Consultar(h) ==
  LET op == hilo[h].op
      k == hilo[h].clave
      v == Veredicto(h, op, k)
  IN  /\ En(h, "consultar")
      /\ IF v = "CORRECTO" /\ op # "GET"
         THEN /\ Va(h, "enviar")
              /\ dueno' = IF op = "STORE" THEN [dueno EXCEPT ![k] = Nadie] ELSE dueno
              /\ UNCHANGED terminados
         ELSE IF v = "CORRECTO" /\ h \notin terminados
         THEN /\ hilo' = [hilo EXCEPT ![h] = Reposo]
              /\ dueno' = [dueno EXCEPT ![k] = h]
              /\ UNCHANGED terminados
         ELSE Responder(h, v)
      /\ UNCHANGED <<algoritmo, instancia, flag, lista, indice_actual_lista, status,
                     sentencias, consultas, falla, historia>>

\* proseguirOperacionNormal and enviarSentenciaInstancia.  The first object of an empty
\* filter is a NULL pointer; with two the Instancia is never set.  The name of ERROR is
\* read, and freed when it says "ERROR".
enviarSentenciaInstancia(h) ==
  LET k == hilo[h].clave
      i == claves[Primero(k)].instancia
  IN  /\ En(h, "enviar")
      /\ IF ~existeClave(k) THEN Romper("nulo") /\ UNCHANGED <<hilo, flag, externo>>
         ELSE IF Repetida(k) \/ i = Nadie
         THEN Romper("basura") /\ UNCHANGED <<hilo, flag, externo>>
         ELSE \/ /\ i = ERROR /\ Romper("error")
                 /\ UNCHANGED <<hilo, flag, externo>>
              \/ /\ UNCHANGED falla
                 /\ flag' = FlagTrasChequear(i)
                 /\ IF Conectada(i)
                    THEN /\ hilo' = [hilo EXCEPT ![h].proxima = i, ![h].pc = "esperar"]
                         /\ UNCHANGED externo
                    ELSE Responder(h, "ABORTAR")
      /\ UNCHANGED <<algoritmo, instancia, lista, indice_actual_lista, status,
                     sentencias, consultas, historia>>

\* What the ESI is told of the code of an Instancia.
Resultado(cod) == IF cod = "EXITO_I" THEN "CORRECTO" ELSE "ABORTAR"

\* 3 retries.
Sigue(h, cod) == cod = "COMPACTAR" /\ hilo[h].reintentos < 3

\* A fourth COMPACTAR, like a code that is none of them, leaves bandera at 0: pr_c is
\* written to the log before anybody sets it.
Basura(cod) == cod \in {"COMPACTAR", "OTRO"}

\* The memory that recv() fills holds an answer, unless the Instancia has died meanwhile, or
\* another thread, of status or of an ESI that was let in, reads the same socket.
Fiable(i) == Conectada(i) /\ vida[i] = 1 /\ consultas = 0 /\ huerfanos = {}

\* External: any answer.
RecibirRespuesta(h) ==
  LET i == hilo[h].proxima
  IN  /\ En(h, "esperar")
      /\ \E cod \in {"EXITO_I", "ERROR_I", "COMPACTAR", "OTRO"} :
           /\ cod = "OTRO" => ~Fiable(i)
           /\ \/ /\ Sigue(h, cod)
                 /\ hilo' = [hilo EXCEPT ![h].reintentos = @ + 1, ![h].proxima = Nadie,
                                          ![h].pc = "enviar"]
                 /\ UNCHANGED <<externo, falla>>
              \/ ~Sigue(h, cod) /\ Responder(h, Resultado(cod)) /\ UNCHANGED falla
              \/ /\ ~Sigue(h, cod) /\ Basura(cod) /\ Romper("texto")
                 /\ UNCHANGED <<hilo, externo>>
      /\ ActualizarLibres(i)
      /\ UNCHANGED <<algoritmo, lista_instancias, viva, vida, flag, lista, indice_actual_lista,
                     status, sentencias, consultas, historia>>

-----------------------------------------------------------------------------
(* The thread of the command status: buscar_clave.                          *)

Status(pc) == status' = [pc |-> pc, obj |-> IF pc = "nada" THEN 0 ELSE status.obj]
EnStatus(pc) == status.pc = pc /\ falla = "no"

buscar_clave(k) ==
  /\ EnStatus("nada") /\ consultas < MaxConsultas
  /\ consultas' = consultas + 1
  /\ lista_instancias # <<>>
  /\ status' = IF ~existeClave(k) THEN status
               ELSE [obj |-> Primero(k),
                     pc |-> IF claves[Primero(k)].instancia = Nadie THEN "simular" ELSE "comprobar"]
  /\ UNCHANGED <<algoritmo, instancia, flag, lista, indice_actual_lista, hilo, externo,
                 sentencias, falla, historia>>

SimularSinInstancia ==
  \/ Status("nada") /\ UNCHANGED falla
  \/ Romper("error") /\ UNCHANGED status

EntrarASimular ==
  /\ EnStatus("simular")
  /\ flag' = FlagsTrasCheck
  /\ \/ Status("lazo") /\ UNCHANGED falla
     \/ ~Hay /\ SimularSinInstancia
  /\ UNCHANGED <<algoritmo, instancia, lista, indice_actual_lista, hilo, externo,
                 sentencias, consultas, historia>>

\* With SIMULAR the index is not moved: with EQL the same Instancia is tried again.
Simular ==
  LET k == claves[status.obj].clave
  IN  /\ EnStatus("lazo")
      /\ IF PasaDeLaZ(k) THEN Romper("letra") /\ UNCHANGED <<flag, status>>
         ELSE /\ flag' = FlagTrasChequear(Candidata(k))
              /\ CASE Elegida(k) = {}      -> UNCHANGED <<status, falla>>
                   [] Elegida(k) = {ERROR} -> SimularSinInstancia
                   [] OTHER -> Status("nada") /\ UNCHANGED falla
      /\ UNCHANGED <<algoritmo, instancia, lista, indice_actual_lista, hilo, externo,
                     sentencias, consultas, historia>>

ComprobarStatus ==
  LET i == claves[status.obj].instancia
  IN  /\ EnStatus("comprobar")
      /\ flag' = FlagTrasChequear(i)
      /\ Status(IF Conectada(i) THEN "nada" ELSE "eliminar")
      /\ UNCHANGED <<algoritmo, instancia, lista, indice_actual_lista, hilo, externo,
                     sentencias, consultas, falla, historia>>

EliminarStatus ==
  /\ EnStatus("eliminar")
  /\ quito' = TRUE
  /\ IF lista_claves = {} THEN Romper("nulo") /\ UNCHANGED <<lista_claves, status>>
     ELSE /\ lista_claves' = eliminarClave(claves[status.obj].clave)
          /\ Status("nada")
          /\ UNCHANGED falla
  /\ UNCHANGED <<algoritmo, instancia, flag, claves, indice_actual_lista, hilo, externo,
                 sentencias, consultas, huerfanos>>

-----------------------------------------------------------------------------
(* The Instancias and the deaths.                                           *)

\* guardarEnListaDeInstancias and the start of loopInstancia.  One that comes back is
\* sent its keys, and says how many entries it has left.
guardarEnListaDeInstancias(i) ==
  /\ ~viva[i] /\ vida[i] < MaxVidas /\ falla = "no"
  /\ viva' = [viva EXCEPT ![i] = TRUE]
  /\ vida' = [vida EXCEPT ![i] = @ + 1]
  /\ flag' = [flag EXCEPT ![i] = (algoritmo = "LSU")]
  /\ IF i \in ToSet(lista_instancias)
     THEN /\ ActualizarLibres(i)
          /\ UNCHANGED lista_instancias
     ELSE /\ lista_instancias' = Append(lista_instancias, i)
          /\ UNCHANGED libres
  /\ UNCHANGED <<algoritmo, lista, indice_actual_lista, hilo, externo, status,
                 sentencias, consultas, falla, historia>>

MorirInstancia(i) ==
  /\ i \in PuedenMorir /\ viva[i] /\ falla = "no"
  /\ viva' = [viva EXCEPT ![i] = FALSE]
  /\ UNCHANGED <<algoritmo, lista_instancias, libres, vida, flag, lista, indice_actual_lista,
                 hilo, externo, status, sentencias, consultas, falla, historia>>

\* The Planificador finishes the ESI; its thread goes on with the sentence.
MorirESI(h) ==
  /\ h \in PuedenCaer \ terminados /\ falla = "no"
  /\ terminados' = terminados \union {h}
  /\ dueno' = [k \in Claves |-> IF dueno[k] = h THEN Nadie ELSE dueno[k]]
  /\ huerfanos' = huerfanos \union (IF hilo[h].pc = "nada" THEN {} ELSE {h})
  /\ UNCHANGED <<algoritmo, instancia, flag, lista, indice_actual_lista, hilo, status,
                 sentencias, consultas, falla, quito>>

-----------------------------------------------------------------------------
Paso(h) ==
  \/ guardarClaveInternamente(h)
  \/ AgregarSinInstancia(h)
  \/ EntrarASiguiente(h)
  \/ siguienteInstanciaSegunAlgoritmo(h)
  \/ Comprobar(h)
  \/ Eliminar(h)
  \/ Consultar(h)
  \/ enviarSentenciaInstancia(h)
  \/ RecibirRespuesta(h)

PasoStatus == EntrarASimular \/ Simular \/ ComprobarStatus \/ EliminarStatus

Next ==
  \/ \E h \in Hilos, op \in {"GET", "SET", "STORE"}, k \in Claves : Recibir(h, op, k)
  \/ \E h \in Hilos : Paso(h)
  \/ \E k \in Claves : buscar_clave(k)
  \/ PasoStatus
  \/ \E i \in Instancias : guardarEnListaDeInstancias(i) \/ MorirInstancia(i)
  \/ \E h \in Hilos : MorirESI(h)

Spec == Init /\ [][Next]_vars

\* The threads run, the Planificador and the Instancias answer.  Nothing makes an ESI
\* send, an Instancia connect or anybody die.
SpecJusta == Spec /\ (\A h \in Hilos : WF_vars(Paso(h))) /\ WF_vars(PasoStatus)

-----------------------------------------------------------------------------
(* Properties.                                                              *)

Objetos == [clave : Claves, instancia : Instancias \union {Nadie, ERROR}]
Pasos == {"nada", "guardar", "agregar", "elegir", "lazo", "comprobar", "eliminar", "consultar",
          "enviar", "esperar"}
Estados(n) ==
  [pc : Pasos, op : {"GET", "SET", "STORE"}, clave : Claves \union {Nadie}, obj : 0..n,
   proxima : Instancias \union {Nadie}, reintentos : 0..3]

\* Every variable has its type.
TypeOK ==
  /\ algoritmo \in Algoritmos
  /\ lista_instancias \in Seq(Instancias) /\ IsInjective(lista_instancias)
  /\ libres \in [Instancias -> 0..MaxLibres]
  /\ flag \in [Instancias -> BOOLEAN] /\ viva \in [Instancias -> BOOLEAN]
  /\ vida \in [Instancias -> 0..MaxVidas]
  /\ claves \in Seq(Objetos)
  /\ lista_claves \subseteq DOMAIN claves
  /\ indice_actual_lista \in -1..Len(lista_instancias)
  /\ hilo \in [Hilos -> Estados(Len(claves))]
  /\ \A h \in Hilos : hilo[h].pc # "nada" => hilo[h].clave \in Claves
  /\ terminados \subseteq Hilos /\ huerfanos \subseteq terminados
  /\ dueno \in [Claves -> Hilos \union {Nadie}]
  /\ status \in [pc : {"nada", "simular", "lazo", "comprobar", "eliminar"}, obj : 0..Len(claves)]
  /\ sentencias \in 0..MaxSentencias /\ consultas \in 0..MaxConsultas
  /\ falla \in {"no", "nulo", "basura", "error", "letra", "texto"} /\ quito \in BOOLEAN

\* Unless an ESI died with a sentence in progress, no key has two objects in the list
\* (guardarClaveInternamente looks and adds in two steps, with no lock).
SinDuplicadas == huerfanos = {} => \A k \in Claves : ~Repetida(k)

\* Some Instancia has died; it may have come back.
Murio == \E i \in Instancias : vida[i] > (IF viva[i] THEN 1 ELSE 0)

\* Unless an ESI died with a sentence in progress or the command status removed a key, the
\* Coordinador finds every key it looks for again after it waited, with an Instancia, and
\* one to remove when it removes.
EncuentraLoSuyo == falla \in {"nulo", "basura"} => huerfanos # {} \/ quito

\* What the Coordinador breaks on besides: the t_instancia ERROR only once an Instancia has
\* died; the letters only with KE and a key that does not begin with one; the text of an
\* answer that was not foreseen only with an answer that got lost or mixed up, or a fourth
\* COMPACTAR.  Nothing else that the Coordinador does with its lists breaks it.
NoCae ==
  /\ EncuentraLoSuyo
  /\ falla = "error" => Murio
  /\ falla = "letra" => \E k \in Claves : PasaDeLaZ(k)
  /\ falla = "texto" =>
       Murio \/ huerfanos # {} \/ consultas > 0 \/ \E h \in Hilos : hilo[h].reintentos = 3

\* An object keeps its Instancia, and so does a key while it stays in the list, unless an
\* ESI died with a sentence in progress: a key that moved would leave its value behind.  A
\* key that is removed and asked for again may get another one.
AsignacionEstable ==
  [][huerfanos' = {} =>
       /\ \A o \in DOMAIN claves :
            claves[o].instancia # Nadie => claves'[o].instancia = claves[o].instancia
       /\ \A k \in Claves :
            existeClave(k) /\ existeClave(k)' /\ claves[Primero(k)].instancia # Nadie
            => claves'[Primero(k)'].instancia = claves[Primero(k)].instancia]_vars

\* Every sentence is answered, unless the Coordinador breaks or every Instancia is down:
\* the loop of EQL and the retries end.
SentenciaResponde ==
  \A h \in Hilos : hilo[h].pc # "nada" ~> hilo[h].pc = "nada" \/ falla # "no" \/ ~Hay

\* Expected to fail: the command status is answered ("Si no tiene asociada instancia,
\* simular, y devolver", FuncionesPlanificador.c:7), while some Instancia is up.
StatusResponde == status.pc # "nada" ~> status.pc = "nada" \/ falla # "no" \/ ~Hay

\* Expected to fail: the key that is removed is the one whose Instancia is down ("Se me
\* consulto por una clave inaccesible (%s), la elimino", FuncionesPlanificador.c:53).
EliminaLaCaida ==
  [][\A o \in lista_claves \ lista_claves' :
       claves[o].instancia # Nadie /\ ~Conectada(claves[o].instancia)]_vars
===============================================================================
