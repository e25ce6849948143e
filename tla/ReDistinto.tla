------------------------------ MODULE ReDistinto ------------------------------
(***************************************************************************)
(* The Planificador with the ESIs it schedules and the Coordinador threads *)
(* that serve them, joined by their sockets.                               *)
(*                                                                         *)
(* An ESI has at most one message on its way at any time, so the messages  *)
(* of an ESI and the point its Coordinador thread is at are one phase:     *)
(*                                                                         *)
(*   afuera     not connected to the Planificador yet                      *)
(*   espera     blocked in recv() for an order of the Planificador         *)
(*   sentencia  its statement is with its Coordinador thread               *)
(*   consulta   that thread has asked the Planificador                     *)
(*   veredicto  the answer of the Planificador is with that thread         *)
(*   respuesta  its result is in the socket to the Planificador            *)
(*                                                                         *)
(* The Instancias are the answer a SET or STORE gets: done, or, when       *)
(* HayFallas, failed.                                                      *)
(***************************************************************************)
EXTENDS Planificador

CONSTANTS
  MaxLineas,     \* bound: lines in the script of an ESI
  FinDeArchivo,  \* whether the last line of a script lacks its newline: a subset of BOOLEAN
  Comandos,      \* the console commands the operator uses
  PuedenCaer,    \* the ESIs that may die at any point (ctrl-c, crash)
  HayFallas      \* whether Instancias may be missing or fail

ASSUME EntornoBienFormado ==
  /\ MaxLineas \in Nat
  /\ FinDeArchivo \subseteq BOOLEAN
  /\ Comandos \subseteq {"pausar", "continuar", "bloquear", "desbloquear", "matar"}
  /\ PuedenCaer \subseteq ESIs
  /\ HayFallas \in BOOLEAN

VARIABLES
  plan,      \* the memory of the Planificador
  fase,      \* the phase of each ESI
  resp,      \* the answer or result on its way in that phase
  linea,     \* the last line each ESI has read
  eof,       \* feof(): that line was the last one and had no newline
  leidas,    \* how many lines it has read
  proceso,   \* its process: running, ended, or ended with an order unread
  registro,  \* lista_claves of the Coordinador
  \* History, read by properties only.
  tiene,     \* the keys each ESI was told it holds
  fin,       \* how the Planificador finished each ESI
  pedidos    \* the ESIs the operator asked to kill

entorno == <<linea, eof, leidas>>
vars == <<plan, fase, resp, linea, eof, leidas, proceso, registro, tiene, fin, pedidos>>

Operaciones == {"GET", "SET", "STORE"}
Fases == {"afuera", "espera", "sentencia", "consulta", "veredicto", "respuesta"}
Resultados == {"CORRECTO", "CLAVE_BLOQUEADA", "ABORTAR", "LISTO"}
Sentencias == [op : Operaciones, clave : Claves]
Finales == {"no", "listo", "aborto", "kill", "caida"}

Init ==
  /\ plan = MemoriaInicial
  /\ fase = [e \in ESIs |-> "afuera"]
  /\ resp = [e \in ESIs |-> "nada"]
  /\ linea = [e \in ESIs |-> [op |-> "GET", clave |-> Ninguna]]
  /\ eof = [e \in ESIs |-> FALSE]
  /\ leidas = [e \in ESIs |-> 0]
  /\ proceso = [e \in ESIs |-> "vivo"]
  /\ registro = {}
  /\ tiene = [e \in ESIs |-> {}]
  /\ fin = [e \in ESIs |-> "no"]
  /\ pedidos = {}

\* The Planificador has a connection with e.
Conectado(e) == fase[e] # "afuera" /\ e \notin plan.terminados

Vivo(e) == proceso[e] = "vivo" /\ Conectado(e)

\* The reason recorded for the ESI a handler finishes.
Anotar(motivo) ==
  fin' = [e \in ESIs |-> IF e \in plan'.terminados \ plan.terminados THEN motivo ELSE fin[e]]

(***************************************************************************)
(* The ESI.                                                                *)
(***************************************************************************)
LlegarEsi(e) ==
  /\ ~plan.fallo
  /\ fase[e] = "afuera"
  /\ plan' \in atender_nuevo_esi(plan, e)
  /\ fase' = [fase EXCEPT ![e] = "espera"]
  /\ UNCHANGED <<resp, entorno, proceso, registro, tiene, fin, pedidos>>

\* e reads the order it was sent.
TomaOrden(e) ==
  /\ Vivo(e)
  /\ fase[e] = "espera"
  /\ e \in plan.orden
  /\ plan' = [plan EXCEPT !.orden = @ \ {e}]

\* LISTO at the end of the file, ABORTAR on a line that does not parse: the
\* ESI sends it to the Planificador and ends.
Terminar(e, resultado) ==
  /\ fase' = [fase EXCEPT ![e] = "respuesta"]
  /\ resp' = [resp EXCEPT ![e] = resultado]
  /\ proceso' = [proceso EXCEPT ![e] = "cerrado"]

Enviar(e) ==
  /\ fase' = [fase EXCEPT ![e] = "sentencia"]
  /\ UNCHANGED <<resp, proceso>>

LeerLinea(e) ==
  /\ TomaOrden(e)
  /\ ~eof[e]
  /\ ~plan.pcb[e].repetir
  /\ leidas[e] < MaxLineas
  /\ \E s \in Sentencias, f \in FinDeArchivo :
       linea' = [linea EXCEPT ![e] = s] /\ eof' = [eof EXCEPT ![e] = f]
  /\ leidas' = [leidas EXCEPT ![e] = @ + 1]
  /\ Enviar(e)
  /\ UNCHANGED <<registro, tiene, fin, pedidos>>

RepetirLinea(e) ==
  /\ TomaOrden(e)
  /\ ~eof[e]
  /\ plan.pcb[e].repetir
  /\ Enviar(e)
  /\ UNCHANGED <<entorno, registro, tiene, fin, pedidos>>

\* Mutant: the end of the file is tested before ejec_anterior.
FinDelScript_sin_repetir(e) ==
  /\ TomaOrden(e)
  /\ Terminar(e, "LISTO")
  /\ UNCHANGED <<entorno, registro, tiene, fin, pedidos>>

FinDelScript(e) ==
  /\ TomaOrden(e)
  /\ eof[e] \/ ~plan.pcb[e].repetir
  /\ Terminar(e, "LISTO")
  /\ UNCHANGED <<entorno, registro, tiene, fin, pedidos>>

LineaInvalida(e) ==
  /\ TomaOrden(e)
  /\ ~eof[e] /\ ~plan.pcb[e].repetir
  /\ Terminar(e, "ABORTAR")
  /\ UNCHANGED <<entorno, registro, tiene, fin, pedidos>>

\* The process dies.  The kernel resets its connection if an order is unread.
Caer(e) ==
  /\ e \in PuedenCaer
  /\ Vivo(e)
  /\ \/ proceso' = [proceso EXCEPT ![e] = "cerrado"]
     \/ e \in plan.orden /\ proceso' = [proceso EXCEPT ![e] = "reset"]
  /\ UNCHANGED <<plan, fase, resp, entorno, registro, tiene, fin, pedidos>>

(***************************************************************************)
(* The Coordinador thread of e.  An ESI that is told to abort ends after   *)
(* forwarding the result; the result of an ESI that died goes nowhere.     *)
(***************************************************************************)
Responder(e, resultado) ==
  /\ IF proceso[e] = "vivo"
     THEN /\ fase' = [fase EXCEPT ![e] = "respuesta"]
          /\ resp' = [resp EXCEPT ![e] = resultado]
          /\ proceso' = [proceso EXCEPT ![e] = IF resultado = "ABORTAR" THEN "cerrado" ELSE "vivo"]
          /\ tiene' = [tiene EXCEPT ![e] =
               IF resultado # "CORRECTO" THEN @
               ELSE CASE linea[e].op = "GET"   -> @ \cup {linea[e].clave}
                      [] linea[e].op = "STORE" -> @ \ {linea[e].clave}
                      [] OTHER                 -> @]
     ELSE /\ fase' = [fase EXCEPT ![e] = "espera"]
          /\ resp' = [resp EXCEPT ![e] = "nada"]
          /\ UNCHANGED <<proceso, tiene>>
  /\ UNCHANGED <<plan, entorno, fin, pedidos>>

\* No Instancia is connected, or a key that no GET has named.
RechazarSentencia(e) ==
  /\ fase[e] = "sentencia"
  /\ HayFallas \/ (linea[e].op # "GET" /\ linea[e].clave \notin registro)
  /\ Responder(e, "ABORTAR")
  /\ UNCHANGED registro

\* The Instancia of the key of a SET is gone: the key is forgotten.
EliminarClave(e) ==
  /\ fase[e] = "sentencia"
  /\ HayFallas
  /\ linea[e].op = "SET" /\ linea[e].clave \in registro
  /\ registro' = registro \ {linea[e].clave}
  /\ Responder(e, "ABORTAR")

\* Mutant: the key of a GET is not added to lista_claves.
ConsultarPlanificador_sin_guardar(e) ==
  /\ fase[e] = "sentencia"
  /\ linea[e].op = "GET" \/ linea[e].clave \in registro
  /\ \A f \in ESIs : fase[f] # "consulta"
  /\ fase' = [fase EXCEPT ![e] = "consulta"]
  /\ UNCHANGED <<plan, resp, entorno, proceso, registro, tiene, fin, pedidos>>

\* One consultation at a time (lock_sentencia_global).
ConsultarPlanificador(e) ==
  /\ fase[e] = "sentencia"
  /\ linea[e].op = "GET" \/ linea[e].clave \in registro
  /\ \A f \in ESIs : fase[f] # "consulta"
  /\ registro' = registro \cup {linea[e].clave}
  /\ fase' = [fase EXCEPT ![e] = "consulta"]
  /\ UNCHANGED <<plan, resp, entorno, proceso, tiene, fin, pedidos>>

\* Only a SET or STORE goes to an Instancia.
ProseguirOperacion(e) ==
  /\ fase[e] = "veredicto"
  /\ \/ Responder(e, resp[e])
     \/ /\ HayFallas
        /\ resp[e] = "CORRECTO" /\ linea[e].op # "GET"
        /\ Responder(e, "ABORTAR")
  /\ UNCHANGED registro

(***************************************************************************)
(* The Planificador: one action per descriptor its select() reports.       *)
(***************************************************************************)
RecibirConsulta(e) ==
  /\ ~plan.fallo
  /\ fase[e] = "consulta"
  /\ resp' = [resp EXCEPT ![e] = veredicto(plan, e, linea[e].op, linea[e].clave)]
  /\ plan' = recibir_mensaje_coordinador(plan, e, linea[e].op, linea[e].clave)
  /\ fase' = [fase EXCEPT ![e] = "veredicto"]
  /\ UNCHANGED <<entorno, proceso, registro, tiene, fin, pedidos>>

RecibirMensajeEsi(e) ==
  /\ ~plan.fallo
  /\ Conectado(e)
  /\ fase[e] = "respuesta"
  /\ plan' \in recibir_mensaje_esi(plan, e, resp[e])
  /\ fase' = [fase EXCEPT ![e] = "espera"]
  /\ resp' = [resp EXCEPT ![e] = "nada"]
  /\ Anotar(CASE resp[e] = "LISTO"   -> "listo"
              [] resp[e] = "ABORTAR" -> "aborto"
              [] OTHER               -> "kill")
  /\ UNCHANGED <<entorno, proceso, registro, tiene, pedidos>>

RecibirDesconexion(e) ==
  /\ ~plan.fallo
  /\ Conectado(e)
  /\ proceso[e] = "cerrado" /\ fase[e] # "respuesta"
  /\ plan' \in recibir_desconexion_esi(plan, e)
  /\ Anotar("caida")
  /\ UNCHANGED <<fase, resp, entorno, proceso, registro, tiene, pedidos>>

RecibirReset(e) ==
  /\ ~plan.fallo
  /\ Conectado(e)
  /\ proceso[e] = "reset"
  /\ plan' \in recibir_error_esi(plan, e)
  /\ Anotar("caida")
  /\ UNCHANGED <<fase, resp, entorno, proceso, registro, tiene, pedidos>>

Comando(c) == ~plan.fallo /\ c \in Comandos

ConsolaPausar ==
  /\ Comando("pausar")
  /\ plan' = consola_pausar(plan)
  /\ UNCHANGED <<fase, resp, entorno, proceso, registro, tiene, fin, pedidos>>

ConsolaContinuar ==
  /\ Comando("continuar")
  /\ plan' \in consola_continuar(plan)
  /\ UNCHANGED <<fase, resp, entorno, proceso, registro, tiene, fin, pedidos>>

ConsolaBloquear(k, e) ==
  /\ Comando("bloquear")
  /\ plan' = consola_bloquear_clave(plan, k, e)
  /\ UNCHANGED <<fase, resp, entorno, proceso, registro, tiene, fin, pedidos>>

ConsolaDesbloquear(k) ==
  /\ Comando("desbloquear")
  /\ plan' \in consola_desbloquear_clave(plan, k)
  /\ UNCHANGED <<fase, resp, entorno, proceso, registro, tiene, fin, pedidos>>

ConsolaMatar(e) ==
  /\ Comando("matar")
  /\ plan' \in consola_matar_proceso(plan, e)
  /\ pedidos' = IF EnSistema(plan, e) THEN pedidos \cup {e} ELSE pedidos
  /\ Anotar("kill")
  /\ UNCHANGED <<fase, resp, entorno, proceso, registro, tiene>>

-------------------------------------------------------------------------------
Esi(e) == LeerLinea(e) \/ RepetirLinea(e) \/ FinDelScript(e) \/ LineaInvalida(e)

Coordinador(e) ==
  \/ RechazarSentencia(e) \/ EliminarClave(e)
  \/ ConsultarPlanificador(e) \/ ProseguirOperacion(e)

Atender(e) ==
  \/ RecibirConsulta(e)
  \/ RecibirMensajeEsi(e)
  \/ RecibirDesconexion(e) \/ RecibirReset(e)

Consola ==
  \/ ConsolaPausar \/ ConsolaContinuar
  \/ \E k \in Claves : ConsolaDesbloquear(k)
  \/ \E k \in Claves, e \in ESIs : ConsolaBloquear(k, e)
  \/ \E e \in ESIs : ConsolaMatar(e)

Next ==
  \/ \E e \in ESIs : LlegarEsi(e) \/ Esi(e) \/ Coordinador(e) \/ Atender(e) \/ Caer(e)
  \/ Consola

Spec == Init /\ [][Next]_vars

\* A process that can run runs, and select() reports every descriptor that is
\* ready, in one pass over all of them.  Nobody has to start an ESI or to type.
Justicia ==
  \A e \in ESIs : WF_vars(Esi(e)) /\ WF_vars(Coordinador(e)) /\ WF_vars(Atender(e))

SpecJusta == Spec /\ Justicia

(***************************************************************************)
(* Safety.                                                                 *)
(***************************************************************************)

\* Types of the variables.
TypeOK ==
  /\ plan \in Memoria
  /\ fase \in [ESIs -> Fases]
  /\ resp \in [ESIs -> Resultados \cup {"nada"}]
  /\ linea \in [ESIs -> [op : Operaciones, clave : Claves \cup {Ninguna}]]
  /\ eof \in [ESIs -> BOOLEAN]
  /\ leidas \in [ESIs -> 0..MaxLineas]
  /\ proceso \in [ESIs -> {"vivo", "cerrado", "reset"}]
  /\ registro \subseteq Claves
  /\ tiene \in [ESIs -> SUBSET Claves]
  /\ fin \in [ESIs -> Finales]
  /\ pedidos \subseteq ESIs

\* Every ESI of the system that has an order to read, or is anywhere between
\* reading one and the Planificador's reading of its result, is the one in
\* esi_en_ejecucion: two scripts never advance at once, and
\* recibir_mensaje_esi, which charges whatever it reads to esi_en_ejecucion,
\* never charges it to the wrong pcb or to NULL.
UnoEnEjecucion ==
  ~plan.fallo => \A e \in ESIs :
    Conectado(e) /\ (e \in plan.orden \/ fase[e] # "espera") => plan.exec = e

\* An ESI of the system is in exactly one place: running, or once in esi_listos,
\* or once in esi_bloqueados; one that was finished is in none of them.
Colas ==
  /\ IsInjective(plan.listos) /\ IsInjective(plan.bloqueados)
  /\ ToSet(plan.listos) \cap ToSet(plan.bloqueados) = {}
  /\ plan.exec \notin ToSet(plan.listos) \cup ToSet(plan.bloqueados)
  /\ ~plan.fallo => \A e \in ESIs : Conectado(e) <=> EnSistema(plan, e)

\* The processor is not left idle while an ESI is ready, unless the operator
\* paused: every handler that takes the running ESI away ends in planificar.
NoOcioso ==
  ~plan.fallo /\ ~plan.pausado /\ plan.exec = Nadie => plan.listos = <<>>

\* The running ESI has an order to read or a sentence under way: it never sits
\* in esi_en_ejecucion with both sides waiting for the other.
EnMarcha ==
  \A e \in ESIs : ~plan.fallo /\ plan.exec = e =>
    e \in plan.orden \/ fase[e] # "espera" \/ proceso[e] # "vivo"

\* No key is in the hands of two ESIs: between the CORRECTO of its GET and the
\* one of its STORE, no other running ESI gets a CORRECTO for a GET of the key,
\* although the Planificador records the lock only when it hears from the ESI.
ExclusionMutua ==
  \A e, f \in ESIs : Vivo(e) /\ Vivo(f) /\ e # f => tiene[e] \cap tiene[f] = {}

\* When the Coordinador is about to apply a SET or STORE that the Planificador
\* allowed, the key is still locked by the ESI it was allowed for.
EscrituraAutorizada ==
  \A e \in ESIs :
    fase[e] = "veredicto" /\ resp[e] = "CORRECTO" /\ linea[e].op # "GET"
      => plan.dueno[linea[e].clave] = e

\* No lost wake-up: an ESI in esi_bloqueados waits for a key, and that key is
\* still in claves_bloqueadas, so that some desbloquear_clave will find it.
EsperaConMotivo ==
  ~plan.fallo => \A e \in ToSet(plan.bloqueados) :
    plan.pcb[e].clave # Ninguna /\ plan.dueno[plan.pcb[e].clave] # Libre

\* finalizar_esi frees the keys of the ESI it finishes: the only finished ESIs
\* that still own one are those that were aborted.
DuenoVivo ==
  \A k \in Claves : plan.dueno[k] \in plan.terminados => fin[plan.dueno[k]] = "aborto"

\* No handler dereferences a NULL or a freed pointer.
SinAccesoInvalido == ~plan.fallo

\* Only an ESI the operator asked for is finished by confirmar_kill_ejecucion
\* or consola_matar_proceso.
SoloMuereElPedido == \A e \in ESIs : fin[e] = "kill" => e \in pedidos

\* An ESI that is told to run its last statement again (ejec_anterior) does so
\* before it can report the end of its script.
RepiteAntesDeTerminar == \A e \in ESIs : fin[e] = "listo" => ~plan.pcb[e].repetir

(***************************************************************************)
(* Action properties.                                                      *)
(***************************************************************************)

\* While the Planificador is paused it gives nobody a new order: an order that
\* arrives afterwards was sent before the pause.
PausaSinOrdenes ==
  [][plan.pausado /\ plan'.pausado => plan'.orden \subseteq plan.orden]_vars

\* A key leaves its owner in two ways: the owner is finished in that step, or
\* the Planificador reads the CORRECTO of the owner's STORE of that key.
SoloLiberaElDueno ==
  [][\A k \in Claves, e \in ESIs :
       plan.dueno[k] = e /\ plan'.dueno[k] # e =>
         \/ e \in plan'.terminados \ plan.terminados
         \/ /\ fase[e] = "respuesta" /\ fase'[e] = "espera"
            /\ resp[e] = "CORRECTO" /\ linea[e] = [op |-> "STORE", clave |-> k]]_vars

\* The preemption that is pending beats the running ESI: the estimate of the one in
\* esi_por_desalojar, still ready, is below what is left of the other's.
PedidoJusto ==
  /\ plan.exec # Nadie /\ plan.por_desalojar \in ToSet(plan.listos)
  /\ plan.pcb[plan.por_desalojar].real < plan.pcb[plan.exec].actual

\* So it is when it is decided, and while neither ESI leaves its place.
PideConRazon ==
  \A e, f \in ESIs :
    /\ ~plan'.fallo
    /\ plan'.exec = e /\ plan'.por_desalojar = f /\ f \in ToSet(plan'.listos)
    /\ plan.por_desalojar # f \/ (plan.exec = e /\ PedidoJusto)
    => PedidoJusto'

\* An ESI that could go on loses the processor to one that beats it.  The exceptions
\* are a preemption that was decided on an ESI that has left the processor since, and
\* the CORRECTO at which the operator's blocking of the running ESI is due.
QuitaConRazon ==
  \A e, f \in ESIs :
    /\ plan.exec = e /\ plan'.exec = f /\ e # f /\ e \in ToSet(plan'.listos)
    /\ ~plan.pausado /\ ~plan.bloqueo
    /\ plan.por_desalojar = Nadie \/ PedidoJusto
    => plan'.pcb[f].real < plan.pcb[e].actual

\* SJF-CD.  The Planificador decides a preemption when an ESI becomes ready, and
\* carries it out at a later CORRECTO, on whoever runs then.  In between the reason
\* for it stands, and so it does when it is carried out.
DesalojoJusto == [][PideConRazon /\ QuitaConRazon]_vars

\* The owner of a key, as the Planificador sees it, has its SET or STORE of it
\* refused by the Coordinador only when an Instancia fails.
DuenoAtendido ==
  [][\A e \in ESIs :
       /\ ~HayFallas /\ fase[e] = "sentencia" /\ fase'[e] = "respuesta"
       /\ linea[e].op # "GET" /\ plan.dueno[linea[e].clave] = e
       => resp'[e] # "ABORTAR"]_vars

(***************************************************************************)
(* Liveness.                                                               *)
(***************************************************************************)

\* If the operator stops pausing, the system comes to rest, and every ESI that is
\* still in it then is blocked on a key: none is left ready or running for ever.
TerminaOEspera ==
  <>[]~plan.pausado => <>[](\A e \in ESIs : Conectado(e) => e \in ToSet(plan.bloqueados))
===============================================================================
