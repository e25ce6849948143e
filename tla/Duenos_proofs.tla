----------------------------- MODULE Duenos_proofs -----------------------------
(***************************************************************************)
(* Proofs about the keys of ReDistinto, for any number of ESIs and keys    *)
(* and every algorithm: who owns a key, who keeps one after its end and    *)
(* how one leaves its owner; and that an ESI that waits for a key waits    *)
(* for one that is locked.                                                 *)
(***************************************************************************)
EXTENDS ReDistinto_proofs

-------------------------------------------------------------------------------
(***************************************************************************)
(* The Planificador and the Coordinador agree on which keys exist.         *)
(***************************************************************************)
\* A key that an ESI owns, or asks for, is in lista_claves.
Registradas ==
  /\ \A k \in Claves : plan.dueno[k] \in ESIs \/ plan.get_clave = k => k \in registro
  /\ \A e \in ESIs : fase[e] = "consulta" => linea[e].clave \in registro

IRegistro == IInv /\ (~HayFallas => Registradas)

\* The handlers of the Planificador but for the consultation.
LEMMA RegistroHandler ==
  ASSUME ~HayFallas, Registradas,
         plan'.get_clave \in {plan.get_clave, Ninguna},
         \A k \in Claves : plan'.dueno[k] \in ESIs => plan.dueno[k] \in ESIs \/ k = plan.get_clave,
         UNCHANGED <<linea, registro>>,
         \A e \in ESIs : fase'[e] = "consulta" => fase[e] = "consulta"
  PROVE  Registradas'
  BY ClavesDistintas DEF Registradas

LEMMA ConservaRegistro ==
  ASSUME "bloquear" \notin Comandos, IRegistro, [Next]_vars
  PROVE  IRegistro'
<1> SUFFICES ASSUME ~HayFallas, Registradas PROVE Registradas'
  BY ConservaInv DEF IRegistro
<1> USE DEF IRegistro
<1>0. plan \in Memoria /\ fase \in [ESIs -> Fases] /\ IInv
  BY DEF IInv, TypeOK
<1>1. ASSUME NEW e \in ESIs, LlegarEsi(e) PROVE Registradas'
  <2>1. /\ Respeta(plan, plan') /\ UNCHANGED <<linea, registro>>
        /\ fase' = [fase EXCEPT ![e] = "espera"]
    BY <1>0, <1>1, NuevoEncarga DEF LlegarEsi, entorno
  <2> QED BY <1>0, <2>1, RegistroHandler DEF Respeta
<1>2. ASSUME NEW e \in ESIs, Esi(e) PROVE Registradas'
  <2>1. /\ TomaOrden(e) /\ registro' = registro
        /\ fase' = [fase EXCEPT ![e] = "sentencia"] \/ fase' = [fase EXCEPT ![e] = "respuesta"]
        /\ linea' = linea \/ \E s : linea' = [linea EXCEPT ![e] = s]
    BY <1>2
    DEF Esi, LeerLinea, RepetirLinea, FinDelScript, LineaInvalida, Terminar, Enviar, entorno
  <2>2. plan'.dueno = plan.dueno /\ plan'.get_clave = plan.get_clave
    BY <1>0, <2>1 DEF TomaOrden, Memoria
  <2>3. \A f \in ESIs : fase'[f] = "consulta" => f # e /\ fase[f] = "consulta"
    BY <1>0, <2>1
  <2>4. \A f \in ESIs : f # e => linea'[f] = linea[f]
    BY <1>0, <2>1 DEF IInv, TypeOK
  <2> QED BY <2>1, <2>2, <2>3, <2>4 DEF Registradas
<1>3. ASSUME NEW e \in ESIs, Coordinador(e) PROVE Registradas'
  <2>1. CASE ConsultarPlanificador(e)
    BY <1>0, <2>1 DEF ConsultarPlanificador, Registradas, entorno
  <2>2. CASE RechazarSentencia(e) \/ EliminarClave(e) \/ ProseguirOperacion(e)
    <3>1. /\ plan' = plan /\ linea' = linea /\ registro' = registro
          /\ fase' = [fase EXCEPT ![e] = "respuesta"] \/ fase' = [fase EXCEPT ![e] = "espera"]
      BY <2>2 DEF RechazarSentencia, EliminarClave, ProseguirOperacion, Responder, entorno
    <3> QED BY <1>0, <3>1 DEF Registradas
  <2> QED BY <1>3, <2>1, <2>2 DEF Coordinador
<1>4. ASSUME NEW e \in ESIs, RecibirConsulta(e) PROVE Registradas'
  <2>1. /\ fase[e] = "consulta" /\ linea[e].clave \in Claves
        /\ fase' = [fase EXCEPT ![e] = "veredicto"] /\ linea' = linea /\ registro' = registro
    BY <1>0, <1>4 DEF RecibirConsulta, IInv, LineaLeida, entorno
  <2>2. plan'.dueno = plan.dueno /\ plan'.get_clave \in {plan.get_clave, linea[e].clave}
    BY <1>0, <1>4, <2>1, ConsultaQuieta DEF RecibirConsulta
  <2> QED BY <1>0, <2>1, <2>2 DEF Registradas
<1>5. ASSUME NEW e \in ESIs, RecibirMensajeEsi(e) PROVE Registradas'
  <2>1. /\ Respeta(plan, plan') /\ UNCHANGED <<linea, registro>>
        /\ fase' = [fase EXCEPT ![e] = "espera"]
    BY <1>0, <1>5, MensajeEncarga DEF RecibirMensajeEsi, entorno
  <2> QED BY <1>0, <2>1, RegistroHandler DEF Respeta
<1>6. ASSUME NEW e \in ESIs, RecibirDesconexion(e) \/ RecibirReset(e) PROVE Registradas'
  <2>1. Respeta(plan, plan') /\ UNCHANGED <<linea, registro, fase>>
    BY <1>0, <1>6, DesconexionRespeta DEF RecibirDesconexion, RecibirReset, entorno
  <2> QED BY <2>1, RegistroHandler DEF Respeta
<1>7. ASSUME NEW e \in ESIs, Caer(e) PROVE Registradas'
  BY <1>7 DEF Caer, entorno, Registradas
<1>8. CASE Consola
  <2>1. UNCHANGED <<linea, registro, fase>>
    BY <1>8 DEF Consola, ConsolaPausar, ConsolaContinuar, ConsolaDesbloquear, ConsolaBloquear,
                ConsolaMatar, entorno
  <2>2. /\ plan'.get_clave \in {plan.get_clave, Ninguna}
        /\ \A k \in Claves : plan'.dueno[k] \in ESIs => plan.dueno[k] \in ESIs \/ k = plan.get_clave
    <3>1. CASE ConsolaPausar
      BY <1>0, <3>1 DEF ConsolaPausar, consola_pausar, Memoria
    <3>2. CASE ConsolaContinuar
      BY <1>0, <3>2, ConsolaEncarga DEF ConsolaContinuar
    <3>3. ASSUME NEW k \in Claves, ConsolaDesbloquear(k) PROVE Respeta(plan, plan')
      BY <1>0, <3>3, ConsolaEncarga DEF ConsolaDesbloquear
    <3>4. ASSUME NEW k \in Claves, NEW e \in ESIs, ConsolaBloquear(k, e) PROVE FALSE
      BY <3>4 DEF ConsolaBloquear, Comando
    <3>5. ASSUME NEW e \in ESIs, ConsolaMatar(e) PROVE Respeta(plan, plan')
      BY <1>0, <3>5, ConsolaEncarga DEF ConsolaMatar
    <3> QED BY <1>8, <3>1, <3>2, <3>3, <3>4, <3>5 DEF Consola, Respeta
  <2> QED BY <2>1, <2>2, RegistroHandler
<1>9. CASE UNCHANGED vars
  BY <1>9 DEF vars, entorno, Registradas
<1> QED BY <1>1, <1>2, <1>3, <1>4, <1>5, <1>6, <1>7, <1>8, <1>9 DEF Next, Atender

\* Unless the operator gives keys to ESIs by hand: the SET or STORE of the owner of a
\* key is refused by the Coordinador only when an Instancia fails, for the key is
\* in lista_claves since its GET.
THEOREM ElDuenoEsAtendido ==
  ASSUME "bloquear" \notin Comandos PROVE Spec => DuenoAtendido
<1>1. Init => IRegistro
  <2>1. Init => Registradas
    BY PidsDistintos, ClavesDistintas DEF Init, Registradas, MemoriaInicial
  <2> QED BY <2>1, Inicio DEF IRegistro
<1>2. IRegistro /\ [Next]_vars => IRegistro'
  BY ConservaRegistro
<1>3. IRegistro /\ [Next]_vars =>
        [\A e \in ESIs :
           /\ ~HayFallas /\ fase[e] = "sentencia" /\ fase'[e] = "respuesta"
           /\ linea[e].op # "GET" /\ plan.dueno[linea[e].clave] = e
           => resp'[e] # "ABORTAR"]_vars
  <2> SUFFICES ASSUME IRegistro, Next, NEW e \in ESIs, ~HayFallas,
                      fase[e] = "sentencia", fase'[e] = "respuesta",
                      linea[e].op # "GET", plan.dueno[linea[e].clave] = e
               PROVE  FALSE
    OBVIOUS
  <2>1. linea[e].clave \in registro /\ fase \in [ESIs -> Fases]
    BY DEF IRegistro, Registradas, IInv, LineaLeida, TypeOK
  <2>2. ASSUME NEW f \in ESIs, LlegarEsi(f) \/ Esi(f) \/ Atender(f) \/ Caer(f)
        PROVE  FALSE
    <3>1. \/ fase' = fase
          \/ \E x \in Fases : fase' = [fase EXCEPT ![f] = x] /\ fase[f] # "sentencia"
      BY <2>2
      DEF LlegarEsi, Esi, LeerLinea, RepetirLinea, FinDelScript, LineaInvalida, Terminar, Enviar,
          TomaOrden, Atender, RecibirConsulta, RecibirMensajeEsi, RecibirDesconexion,
          RecibirReset, Caer, Fases
    <3> QED BY <2>1, <3>1
  <2>3. ASSUME NEW f \in ESIs, Coordinador(f) PROVE FALSE
    <3>1. CASE f = e
      <4>1. ConsultarPlanificador(e)
        BY <2>1, <2>3, <3>1
        DEF Coordinador, RechazarSentencia, EliminarClave, ProseguirOperacion
      <4> QED BY <2>1, <4>1 DEF ConsultarPlanificador
    <3>2. CASE f # e
      <4>1. \E x \in Fases : fase' = [fase EXCEPT ![f] = x]
        BY <2>3
        DEF Coordinador, RechazarSentencia, EliminarClave, ConsultarPlanificador,
            ProseguirOperacion, Responder, Fases
      <4> QED BY <2>1, <3>2, <4>1
    <3> QED BY <3>1, <3>2
  <2>4. CASE Consola
    BY <2>4 DEF Consola, ConsolaPausar, ConsolaContinuar, ConsolaDesbloquear, ConsolaBloquear,
                ConsolaMatar
  <2> QED BY <2>2, <2>3, <2>4 DEF Next
<1> QED BY <1>1, <1>2, <1>3, PTL DEF Spec, DuenoAtendido

-------------------------------------------------------------------------------
(***************************************************************************)
(* What a function may do with the locks and with what is pending.         *)
(***************************************************************************)
\* It leaves what is pending as it was.
Aplaza(p, q) ==
  /\ q.bloqueo = p.bloqueo /\ q.kill = p.kill
  /\ q.por_get = p.por_get /\ q.get_clave = p.get_clave /\ q.get_pid = p.get_pid
  /\ q.store_clave = p.store_clave

\* It touches neither that nor the locks.
Ajena(p, q) == Aplaza(p, q) /\ q.dueno = p.dueno

LEMMA PlanificarAjena ==
  ASSUME NEW p \in Memoria, NEW q \in planificar(p)
  PROVE  Ajena(p, q) /\ q.fallo = p.fallo
  BY DEF planificar, obtener_proximo_ejecucion, enviar_esi_confirmacion_sentencia, Memoria,
         Ajena, Aplaza

LEMMA NuevoAjena ==
  ASSUME NEW p \in Memoria, NEW e \in ESIs, NEW q \in atender_nuevo_esi(p, e)
  PROVE  Ajena(p, q) /\ q.fallo = p.fallo
<1> DEFINE l == Append(p.listos, e)
           c == [p.pcb EXCEPT ![e] = crear_esi]
           r == [p EXCEPT !.pcb = c, !.listos = l]
           s == pedir_desalojo(r, e)
<1>1. l \in Seq(ESIs)
  BY AgregarAlFinal DEF Memoria
<1>2. c \in [ESIs -> Pcb]
  BY EstimacionPositiva DEF Memoria, crear_esi, Pcb
<1>3. q \in planificar(s)
  BY DEF atender_nuevo_esi, Memoria
<1> HIDE DEF l, c
<1>4. r \in Memoria /\ Ajena(p, r) /\ r.fallo = p.fallo
  BY <1>1, <1>2 DEF Memoria, Ajena, Aplaza
<1> HIDE DEF r
<1> DEFINE v == s.por_desalojar
<1>5. v \in ESIs \cup {Nadie} /\ s = [r EXCEPT !.por_desalojar = v]
  BY <1>4, PedirDesalojo
<1> HIDE DEF s, v
<1>6. s \in Memoria /\ Ajena(r, s) /\ s.fallo = r.fallo
  BY <1>4, <1>5 DEF Memoria, Ajena, Aplaza
<1> QED BY <1>3, <1>4, <1>6, PlanificarAjena DEF Ajena, Aplaza

\* A key that is unlocked: the others are left alone.
LEMMA DesbloquearClaves ==
  ASSUME NEW p \in Memoria, NEW k \in Claves
  PROVE  LET q == desbloquear_clave(p, k)
         IN  /\ Aplaza(p, q)
             /\ q.dueno[k] \in {p.dueno[k], Libre}
             /\ \A j \in Claves : j # k => q.dueno[j] = p.dueno[j]
<1> DEFINE i == Min(EsperanClave(p, k))
           e == p.bloqueados[i]
           b == RemoveAt(p.bloqueados, i)
           f == Despertado(p.pcb[e])
           q0 == [p EXCEPT !.bloqueados = b, !.pcb[e] = f]
           m == pedir_desalojo(q0, e)
           l == Append(p.listos, e)
           r1 == [m EXCEPT !.listos = l, !.dueno[k] = Libre]
           r2 == [m EXCEPT !.listos = l]
           q == desbloquear_clave(p, k)
<1>1. q \in {p, Romper(p), [p EXCEPT !.dueno[k] = Libre], r1, r2}
  BY DEF desbloquear_clave
<1>2. \E v : m = [p EXCEPT !.bloqueados = b, !.pcb[e] = f, !.por_desalojar = v]
  BY DEF pedir_desalojo, Memoria
<1> HIDE DEF m, b, f, l, i
<1>3. /\ Aplaza(p, r1) /\ r1.dueno = [p.dueno EXCEPT ![k] = Libre]
      /\ Aplaza(p, r2) /\ r2.dueno = p.dueno
  BY <1>2 DEF Memoria, Aplaza
<1> HIDE DEF r1, r2, q
<1>4. /\ p.dueno \in [Claves -> ESIs \cup {Sistema, Libre}]
      /\ Aplaza(p, [p EXCEPT !.dueno[k] = Libre])
      /\ [p EXCEPT !.dueno[k] = Libre].dueno = [p.dueno EXCEPT ![k] = Libre]
      /\ Aplaza(p, Romper(p)) /\ Romper(p).dueno = p.dueno /\ Aplaza(p, p)
  BY DEF Memoria, Aplaza, Romper
<1>5. Aplaza(p, q) /\ q.dueno \in {p.dueno, [p.dueno EXCEPT ![k] = Libre]}
  BY <1>1, <1>3, <1>4
<1> QED BY <1>4, <1>5 DEF q

\* finalizar_esi unlocks keys of e only, and none when it is told not to.
LEMMA FinalizarClaves ==
  ASSUME NEW p \in Memoria, NEW e \in ESIs, NEW l \in BOOLEAN,
         NEW q \in finalizar_esi(p, e, l)
  PROVE  /\ Aplaza(p, q)
         /\ \A k \in Claves : p.dueno[k] # e => q.dueno[k] = p.dueno[k]
         /\ ~l => q.dueno = p.dueno
<1> DEFINE c == sacar_de_colas(p, e)
           C(a, d) == Aplaza(a, d) /\ \A k \in Claves : a.dueno[k] # e => d.dueno[k] = a.dueno[k]
<1>1. CASE ~EnSistema(p, e)
  BY <1>1 DEF finalizar_esi, Aplaza
<1>2. c \in Memoria /\ Ajena(p, c)
  <2>1. c \in Memoria
    BY SacarDeColas DEF Deriva
  <2> QED BY <2>1 DEF sacar_de_colas, Memoria, Ajena, Aplaza
<1> HIDE DEF c
<1>3. ASSUME NEW r \in desbloquear_claves_bloqueadas_pid(c, e)
      PROVE  C(c, r)
  <2> DEFINE D == Despertados(c, e)
             d0 == [k \in Claves |-> IF c.dueno[k] = e THEN Libre ELSE c.dueno[k]]
             c0 == [f \in ESIs |-> IF f \in D THEN Despertado(c.pcb[f]) ELSE c.pcb[f]]
  <2>1. CASE r \in {c, Romper(c)}
    BY <1>2, <2>1 DEF Romper, Memoria, Aplaza
  <2>2. ASSUME NEW fila, NEW resto, r = Liberadas(c, e, fila, resto)
        PROVE  C(c, r)
    <3>1. SinClavesDe(c, e) = [c EXCEPT !.dueno = d0, !.pcb = c0]
      BY DEF SinClavesDe
    <3> DEFINE v == ConDesalojo(SinClavesDe(c, e), fila).por_desalojar
               a == c.listos \o fila
    <3>2. \A k \in Claves : c.dueno[k] # e => d0[k] = c.dueno[k]
      OBVIOUS
    <3> HIDE DEF d0, c0
    <3>3. ConDesalojo(SinClavesDe(c, e), fila)
            = [c EXCEPT !.dueno = d0, !.pcb = c0, !.por_desalojar = v]
      BY <1>2, <3>1 DEF ConDesalojo, Memoria
    <3> HIDE DEF v, a
    <3>4. r = [c EXCEPT !.dueno = d0, !.pcb = c0, !.por_desalojar = v,
                        !.bloqueados = resto, !.listos = a]
      BY <1>2, <2>2, <3>3 DEF Memoria, Liberadas, a
    <3> QED BY <1>2, <3>2, <3>4 DEF Memoria, Aplaza
  <2>3. \/ r \in {c, Romper(c)}
        \/ \E fila \in SetToSeqs(D), resto \in SinElementos(c.bloqueados, D) :
             r = Liberadas(c, e, fila, resto)
    BY DEF desbloquear_claves_bloqueadas_pid
  <2> QED BY <2>1, <2>2, <2>3
<1>4. ASSUME NEW r \in {c} \cup desbloquear_claves_bloqueadas_pid(c, e),
             q = pasar_a_terminados(r, e)
      PROVE  C(p, q) /\ (r = c => q.dueno = p.dueno)
  <2>1. C(c, r)
    BY <1>3, <1>4 DEF Aplaza
  <2>2. r \in Memoria
    BY <1>2, <1>4, Liberar DEF Deriva
  <2>3. Ajena(r, q)
    BY <1>4, <2>2 DEF pasar_a_terminados, Memoria, Ajena, Aplaza
  <2> QED BY <1>2, <2>1, <2>3 DEF Ajena, Aplaza
<1>5. \/ ~EnSistema(p, e)
      \/ ~l /\ q = pasar_a_terminados(c, e)
      \/ l /\ \E r \in {c} \cup desbloquear_claves_bloqueadas_pid(c, e) :
                q = pasar_a_terminados(r, e)
  BY DEF finalizar_esi, c
<1> QED BY <1>1, <1>4, <1>5

\* The CORRECTO of the running ESI carries out all that is pending: it takes the
\* key of its GET if it is free, and unlocks the key of the pending STORE.
LEMMA CorrectoClaves ==
  ASSUME NEW p \in Memoria, p.exec # Nadie, ~p.bloqueo, ~p.kill,
         p.por_get => p.get_pid = p.exec,
         NEW q \in resultado_correcto(p), ~q.fallo
  PROVE  /\ ~q.bloqueo /\ ~q.kill /\ ~q.por_get /\ q.store_clave = Ninguna
         /\ q.terminados = p.terminados
         /\ \A k \in Claves : k # p.store_clave =>
              q.dueno[k] = IF p.por_get /\ k = p.get_clave /\ p.dueno[k] = Libre
                           THEN p.exec ELSE p.dueno[k]
<1> DEFINE c1 == [p EXCEPT !.pcb[p.exec] = [sentencia_contada(@) EXCEPT !.repetir = FALSE]]
           c2 == IF c1.bloqueo THEN confirmar_bloqueo_ejecucion(c1) ELSE c1
           c3 == IF c2.por_get THEN confirmar_bloqueo_por_get(c2) ELSE c2
           c4 == IF ~c3.fallo /\ c3.store_clave # Ninguna
                 THEN confirmar_desbloqueo_por_store(c3) ELSE c3
           c5 == IF ~c4.fallo /\ c4.pausado THEN confirmar_pausa_por_consola(c4) ELSE c4
           C6 == IF ~c5.fallo /\ c5.kill THEN confirmar_kill_ejecucion(c5) ELSE {c5}
           c7(c) == IF ~c.fallo /\ c.por_desalojar # Nadie
                    THEN confirmar_desalojo_ejecucion(c) ELSE c
           c8(c) == IF ~c.fallo /\ c.exec # Nadie
                    THEN enviar_esi_confirmacion_sentencia(c) ELSE c
           nuevo(k) == IF p.por_get /\ k = p.get_clave /\ p.dueno[k] = Libre
                       THEN p.exec ELSE p.dueno[k]
           G(c) == /\ c \in Memoria
                   /\ ~c.fallo =>
                        /\ ~c.bloqueo /\ ~c.kill /\ ~c.por_get /\ c.store_clave = Ninguna
                        /\ c.terminados = p.terminados
                        /\ \A k \in Claves : k # p.store_clave => c.dueno[k] = nuevo(k)
<1>1. PICK c6 \in C6 : q = c8(c7(c6))
  BY DEF resultado_correcto
<1>2. /\ c1 \in Memoria /\ Ajena(p, c1) /\ c1.exec = p.exec
      /\ c1.terminados = p.terminados
  <2>1. c1 \in Memoria
    <3> DEFINE f == [sentencia_contada(p.pcb[p.exec]) EXCEPT !.repetir = FALSE]
    <3>1. p.exec \in ESIs /\ p.pcb \in [ESIs -> Pcb] /\ p.pcb[p.exec] \in Pcb
      BY DEF Memoria
    <3>2. sentencia_contada(p.pcb[p.exec]) \in Pcb
      BY <3>1, Ficha
    <3>3. f \in Pcb
      BY <3>2 DEF Pcb
    <3>4. c1 = [p EXCEPT !.pcb = [p.pcb EXCEPT ![p.exec] = f]]
      BY DEF Memoria
    <3> HIDE DEF f, c1
    <3> QED BY <3>1, <3>3, <3>4 DEF Memoria
  <2> QED BY <2>1 DEF Ajena, Aplaza, Memoria
<1> HIDE DEF c1
<1>3. c2 = c1
  BY <1>2 DEF Ajena, Aplaza
<1> HIDE DEF c2
<1>4. /\ c3 \in Memoria
      /\ ~c3.bloqueo /\ ~c3.kill /\ ~c3.por_get /\ c3.store_clave = p.store_clave
      /\ c3.terminados = p.terminados
      /\ \A k \in Claves : c3.dueno[k] = nuevo(k)
  <2>1. CASE ~p.por_get
    <3>1. c3 = c1
      BY <1>2, <1>3, <2>1 DEF Ajena, Aplaza
    <3>2. \A k \in Claves : nuevo(k) = p.dueno[k]
      BY <2>1
    <3> HIDE DEF c3, nuevo
    <3>3. c1.dueno = p.dueno /\ ~c1.bloqueo /\ ~c1.kill /\ ~c1.por_get
          /\ c1.store_clave = p.store_clave
      BY <1>2, <2>1 DEF Ajena, Aplaza
    <3> QED BY <1>2, <3>1, <3>2, <3>3
  <2>2. CASE p.por_get
    <3> DEFINE m == bloquear_clave(c1, c1.get_clave, c1.get_pid)
               d == [c1.dueno EXCEPT ![p.get_clave] = p.exec]
    <3>1. p.exec \in ESIs /\ c1.get_pid = p.exec /\ c1.get_clave = p.get_clave /\ p.exec # Nadie
      BY <1>2, <2>2 DEF Memoria, Ajena, Aplaza
    <3>2. c3 = [m EXCEPT !.por_get = FALSE, !.get_clave = Ninguna, !.get_pid = Nadie]
      BY <1>2, <1>3, <2>2, <3>1 DEF confirmar_bloqueo_por_get, Ajena, Aplaza
    <3>3. m = IF c1.dueno[p.get_clave] # Libre THEN c1 ELSE [c1 EXCEPT !.dueno = d]
      BY <1>2, <3>1 DEF bloquear_clave, buscar_clave_bloqueada, Memoria
    <3>4. c1.dueno = p.dueno /\ p.dueno \in [Claves -> ESIs \cup {Sistema, Libre}]
      BY <1>2 DEF Ajena, Memoria
    <3>5. d \in [Claves -> ESIs \cup {Sistema, Libre}]
      BY <3>1, <3>4
    <3>6. \A k \in Claves : p.dueno[p.get_clave] = Libre => d[k] = nuevo(k)
      BY <2>2, <3>4
    <3>7. \A k \in Claves : p.dueno[p.get_clave] # Libre => p.dueno[k] = nuevo(k)
      BY <2>2
    <3> HIDE DEF d, m, nuevo
    <3>8. m \in Memoria /\ \A k \in Claves : m.dueno[k] = nuevo(k)
      BY <1>2, <3>3, <3>4, <3>5, <3>6, <3>7 DEF Memoria
    <3>9. m.bloqueo = FALSE /\ m.kill = FALSE /\ m.store_clave = p.store_clave
          /\ m.terminados = p.terminados
      BY <1>2, <3>3 DEF Memoria, Ajena, Aplaza
    <3>10. c3 \in Memoria
      BY <3>2, <3>8 DEF Memoria
    <3>11. /\ c3.bloqueo = m.bloqueo /\ c3.kill = m.kill /\ c3.por_get = FALSE
           /\ c3.store_clave = m.store_clave /\ c3.terminados = m.terminados
           /\ c3.dueno = m.dueno
      BY <3>2, <3>8 DEF Memoria
    <3> HIDE DEF c3
    <3> QED BY <3>8, <3>9, <3>10, <3>11
  <2> QED BY <2>1, <2>2
<1> HIDE DEF c3, nuevo
<1>5. G(c4)
  <2>1. CASE c3.fallo \/ c3.store_clave = Ninguna
    BY <1>4, <2>1
  <2>2. CASE ~c3.fallo /\ c3.store_clave # Ninguna
    <3> DEFINE m == desbloquear_clave(c3, c3.store_clave)
    <3>1. c3.store_clave \in Claves
      BY <1>4, <2>2 DEF Memoria
    <3>2. m \in Memoria /\ m.terminados = c3.terminados
      BY <1>4, <3>1, DesbloquearClave, DesbloquearQuieta DEF Deriva, Quieta
    <3>3. /\ Aplaza(c3, m)
          /\ \A j \in Claves : j # c3.store_clave => m.dueno[j] = c3.dueno[j]
      BY <1>4, <3>1, DesbloquearClaves
    <3>4. c4 = [m EXCEPT !.store_clave = Ninguna]
      BY <2>2 DEF confirmar_desbloqueo_por_store
    <3> HIDE DEF m, c4
    <3> QED BY <1>4, <3>2, <3>3, <3>4 DEF Memoria, Aplaza
  <2> QED BY <2>1, <2>2
<1> HIDE DEF c4
<1>6. ASSUME NEW c, NEW d, G(c), Deriva(c, d, {}), Ajena(c, d), d.terminados = c.terminados
      PROVE  G(d)
  BY <1>6 DEF Deriva, Ajena, Aplaza
<1>7. G(c5)
  <2> DEFINE d == confirmar_pausa_por_consola(c4)
  <2>1. Deriva(c4, d, {}) /\ d.terminados = c4.terminados
    BY <1>5, ConfirmarPausa, ConfirmacionesRespetan
  <2>2. Ajena(c4, d)
    BY <1>5 DEF confirmar_pausa_por_consola, Romper, Memoria, Ajena, Aplaza
  <2> HIDE DEF d
  <2>3. G(d)
    BY <1>5, <1>6, <2>1, <2>2
  <2> QED BY <1>5, <2>3 DEF d
<1> HIDE DEF c5
<1>8. c6 = c5
  BY <1>1, <1>7
<1> HIDE DEF C6
<1>9. G(c7(c6))
  <2> DEFINE d == confirmar_desalojo_ejecucion(c6)
  <2>1. G(c6)
    BY <1>7, <1>8
  <2>2. Deriva(c6, d, {}) /\ d.terminados = c6.terminados
    BY <2>1, ConfirmarDesalojo, ConfirmacionesRespetan
  <2>3. Ajena(c6, d)
    BY <2>1 DEF confirmar_desalojo_ejecucion, Romper, Memoria, Ajena, Aplaza
  <2> HIDE DEF d
  <2>4. G(d)
    BY <1>6, <2>1, <2>2, <2>3
  <2> QED BY <2>1, <2>4 DEF d
<1> DEFINE c == c7(c6)
<1>10. q = c \/ q = [c EXCEPT !.orden = c.orden \cup {c.exec}]
  BY <1>1 DEF enviar_esi_confirmacion_sentencia
<1>11. c \in Memoria
  BY <1>9
<1> HIDE DEF c, c7
<1>12. q.fallo = c.fallo /\ Ajena(c, q) /\ q.terminados = c.terminados
  BY <1>10, <1>11 DEF Memoria, Ajena, Aplaza
<1> QED BY <1>9, <1>12 DEF Ajena, Aplaza, nuevo, c

LEMMA MensajeClaves ==
  ASSUME NEW p \in Memoria, NEW e \in ESIs, p.exec = e, NEW resultado,
         NEW q \in recibir_mensaje_esi(p, e, resultado), ~q.fallo
  PROVE  /\ resultado = "CORRECTO" /\ ~p.bloqueo /\ ~p.kill /\ (p.por_get => p.get_pid = e) =>
              /\ ~q.bloqueo /\ ~q.kill /\ ~q.por_get /\ q.store_clave = Ninguna
              /\ q.terminados = p.terminados
              /\ \A k \in Claves : k # p.store_clave =>
                   q.dueno[k] = IF p.por_get /\ k = p.get_clave /\ p.dueno[k] = Libre
                                THEN e ELSE p.dueno[k]
         /\ resultado # "CORRECTO" =>
              /\ q.bloqueo = p.bloqueo /\ q.kill = p.kill
              /\ q.por_get = p.por_get /\ q.store_clave = p.store_clave
              /\ \A k \in Claves : p.dueno[k] # e => q.dueno[k] = p.dueno[k]
              /\ resultado # "LISTO" => q.dueno = p.dueno
         /\ resultado = "CLAVE_BLOQUEADA" => q.terminados = p.terminados
<1>1. PICK r \in procesar_resultado(p, e, resultado) :
        q \in planificar(aumentar_tiempo_espera_ready(r))
  BY DEF recibir_mensaje_esi
<1> DEFINE s == aumentar_tiempo_espera_ready(r)
<1>2. r \in Memoria
  BY ProcesarResultado DEF Deriva
<1>3. s \in Memoria /\ Ajena(r, s) /\ s.fallo = r.fallo /\ s.terminados = r.terminados
  <2>1. s \in Memoria
    BY <1>2, AumentarEspera DEF Deriva
  <2> QED BY <1>2, <2>1 DEF aumentar_tiempo_espera_ready, Memoria, Ajena, Aplaza
<1> HIDE DEF s
<1>4. Ajena(s, q) /\ q.fallo = s.fallo /\ q.terminados = s.terminados
  BY <1>1, <1>3, PlanificarAjena, PlanificarEncarga DEF s
<1>5. Ajena(r, q) /\ ~r.fallo /\ q.terminados = r.terminados
  BY <1>3, <1>4 DEF Ajena, Aplaza
<1>6. p.exec # Nadie
  BY PidsDistintos
<1>7. CASE resultado = "CORRECTO"
  <2>1. r \in resultado_correcto(p)
    BY <1>6, <1>7 DEF procesar_resultado
  <2> QED BY <1>5, <1>6, <1>7, <2>1, CorrectoClaves DEF Ajena, Aplaza
<1>8. CASE resultado = "CLAVE_BLOQUEADA"
  <2>1. r = resultado_clave_bloqueada(p, e)
    BY <1>6, <1>8 DEF procesar_resultado
  <2> DEFINE c == [p.pcb EXCEPT ![p.exec] = [sentencia_contada(@) EXCEPT
                                    !.repetir = TRUE, !.clave = p.get_clave]]
             b == Append(p.bloqueados, p.exec)
             t == [p EXCEPT !.pcb = c, !.bloqueados = b, !.exec = Nadie,
                            !.get_clave = Ninguna, !.get_pid = Nadie]
  <2>2. r \in {p, t} \/ r = Romper(p)
    BY <2>1 DEF resultado_clave_bloqueada, Memoria
  <2> HIDE DEF c, b
  <2>3. /\ t.bloqueo = p.bloqueo /\ t.kill = p.kill /\ t.por_get = p.por_get
        /\ t.store_clave = p.store_clave /\ t.dueno = p.dueno /\ t.terminados = p.terminados
    BY DEF Memoria
  <2> HIDE DEF t
  <2>4. r # Romper(p)
    BY <1>5, QuietaRomper
  <2> QED BY <1>5, <1>8, <2>2, <2>3, <2>4 DEF Ajena, Aplaza
<1>9. CASE resultado = "LISTO"
  <2>1. r \in finalizar_esi(p, p.exec, TRUE)
    BY <1>6, <1>9 DEF procesar_resultado
  <2>2. /\ Aplaza(p, r)
        /\ \A k \in Claves : p.dueno[k] # e => r.dueno[k] = p.dueno[k]
    <3>1. TRUE \in BOOLEAN OBVIOUS
    <3> QED BY <2>1, <3>1, FinalizarClaves
  <2> QED BY <1>5, <1>9, <2>2 DEF Ajena, Aplaza
<1>10. CASE resultado \notin {"CORRECTO", "CLAVE_BLOQUEADA", "LISTO"}
  <2>1. r \in finalizar_esi(p, p.exec, FALSE)
    BY <1>6, <1>10 DEF procesar_resultado
  <2>2. Aplaza(p, r) /\ r.dueno = p.dueno
    <3>1. FALSE \in BOOLEAN OBVIOUS
    <3> QED BY <2>1, <3>1, FinalizarClaves
  <2> QED BY <1>5, <1>10, <2>2 DEF Ajena, Aplaza
<1> QED BY <1>7, <1>8, <1>9, <1>10
-------------------------------------------------------------------------------
(***************************************************************************)
(* The hands of the ESIs, when none dies on its own and the operator only  *)
(* pauses and continues: kill and bloquear leave a task for the next       *)
(* result, which may then be that of another ESI.                          *)
(***************************************************************************)
\* Nothing the operator asked for is left for the next result.
SinEncargos == ~plan.fallo => ~plan.bloqueo /\ ~plan.kill

\* A GET that the Planificador allowed and whose result it has not read.
GetEnCurso(e) ==
  fase[e] \in {"veredicto", "respuesta"} /\ resp[e] = "CORRECTO" /\ linea[e].op = "GET"

\* Such a GET is the pending one, and its key is still free: the lock is taken
\* only when the result is read.
GetPendiente ==
  ~plan.fallo =>
    /\ \A e \in ESIs : GetEnCurso(e) =>
         /\ plan.por_get /\ plan.get_pid = e /\ plan.get_clave = linea[e].clave
         /\ plan.dueno[linea[e].clave] = Libre
    /\ plan.por_get => \E e \in ESIs : GetEnCurso(e)

\* e has stored k, is storing it, or is about to be told to abort.
Suelta(e, k) ==
  \/ fase[e] = "veredicto" /\ resp[e] = "CORRECTO" /\ linea[e] = [op |-> "STORE", clave |-> k]
  \/ fase[e] = "respuesta" /\ resp[e] = "ABORTAR"
  \/ /\ fase[e] = "respuesta" /\ resp[e] = "CORRECTO"
     /\ linea[e] = [op |-> "STORE", clave |-> k] /\ k \notin tiene[e]

\* A key whose release is pending is in the hands of nobody who goes on using it.
\* The release outlives the ESI when an Instancia fails the STORE: the next
\* CORRECTO of any ESI carries it out.
StorePendiente ==
  ~plan.fallo /\ plan.store_clave # Ninguna =>
    /\ plan.dueno[plan.store_clave] # Libre
    /\ \A e \in ESIs \ plan.terminados :
         plan.dueno[plan.store_clave] = e \/ plan.store_clave \in tiene[e]
           => Suelta(e, plan.store_clave)

\* A key in the hands of an ESI is locked by it, or will be when the result of its
\* GET is read.
Tenencia ==
  ~plan.fallo => \A e \in ESIs \ plan.terminados : \A k \in tiene[e] :
    \/ plan.dueno[k] = e
    \/ fase[e] = "respuesta" /\ GetEnCurso(e) /\ linea[e].clave = k

\* A Planificador that has ended allows nothing more.
Detenido ==
  plan.fallo =>
    /\ \A e \in ESIs : fase[e] # "veredicto"
    /\ \A e, f \in ESIs \ plan.terminados : e # f => tiene[e] \cap tiene[f] = {}

Reparto ==
  SinEncargos /\ GetPendiente /\ StorePendiente /\ Tenencia /\ EscrituraAutorizada /\ Detenido

IDuenos == IVivo /\ Reparto

\* A step that gives no answer and does not touch the locks.
LEMMA RepartoTranquilo ==
  ASSUME Reparto, Ajena(plan, plan'), plan'.fallo = plan.fallo,
         plan'.terminados = plan.terminados, tiene' = tiene,
         \A f \in ESIs :
           \/ fase'[f] = fase[f] /\ resp'[f] = resp[f] /\ linea'[f] = linea[f]
           \/ /\ fase[f] \notin {"veredicto", "respuesta"} /\ fase'[f] # "veredicto"
              /\ fase'[f] = "respuesta" => resp'[f] \in {"LISTO", "ABORTAR"}
  PROVE  Reparto'
<1> USE DEF Reparto, Ajena, Aplaza
<1>1. \A f \in ESIs : GetEnCurso(f)' <=> GetEnCurso(f)
  BY DEF GetEnCurso
<1>2. \A f \in ESIs : GetEnCurso(f) => linea'[f] = linea[f] /\ fase'[f] = fase[f]
  BY DEF GetEnCurso
<1>3. SinEncargos'
  BY DEF SinEncargos
<1>4. GetPendiente'
  BY <1>1, <1>2 DEF GetPendiente
<1>5. StorePendiente'
  <2>1. \A f \in ESIs : Suelta(f, plan.store_clave) => Suelta(f, plan.store_clave)'
    BY DEF Suelta
  <2> QED BY <2>1 DEF StorePendiente
<1>6. Tenencia'
  BY <1>1, <1>2 DEF Tenencia
<1>7. EscrituraAutorizada'
  BY DEF EscrituraAutorizada
<1>8. Detenido'
  BY DEF Detenido
<1> QED BY <1>3, <1>4, <1>5, <1>6, <1>7, <1>8

\* An ESI that arrives, reads its script or sends a sentence, and the operator.
LEMMA RepartoNuevo ==
  ASSUME IDuenos, NEW e \in ESIs, LlegarEsi(e)
  PROVE  Reparto'
<1>1. /\ plan \in Memoria /\ fase[e] = "afuera" /\ resp' = resp /\ linea' = linea /\ tiene' = tiene
      /\ fase'[e] = "espera" /\ \A f \in ESIs : f # e => fase'[f] = fase[f]
  BY DEF LlegarEsi, entorno, IDuenos, IVivo, IInv, TypeOK
<1>2. Ajena(plan, plan') /\ plan'.fallo = plan.fallo /\ plan'.terminados = plan.terminados
  BY <1>1, NuevoAjena, NuevoEncarga DEF LlegarEsi
<1> QED BY <1>1, <1>2, RepartoTranquilo DEF IDuenos

LEMMA RepartoEsi ==
  ASSUME IDuenos, NEW e \in ESIs, Esi(e)
  PROVE  Reparto'
<1>1. /\ plan \in Memoria /\ fase \in [ESIs -> Fases]
      /\ resp \in [ESIs -> Resultados \cup {"nada"}]
      /\ DOMAIN linea = ESIs
  BY DEF IDuenos, IVivo, IInv, TypeOK
<1>2. /\ TomaOrden(e) /\ tiene' = tiene
      /\ linea' = linea \/ \E s : linea' = [linea EXCEPT ![e] = s]
      /\ \/ fase' = [fase EXCEPT ![e] = "sentencia"] /\ resp' = resp
         \/ /\ fase' = [fase EXCEPT ![e] = "respuesta"]
            /\ resp' = [resp EXCEPT ![e] = "LISTO"] \/ resp' = [resp EXCEPT ![e] = "ABORTAR"]
  BY DEF Esi, LeerLinea, RepetirLinea, FinDelScript, LineaInvalida, Terminar, Enviar, entorno
<1>3. fase[e] = "espera" /\ plan' = [plan EXCEPT !.orden = plan.orden \ {e}]
  BY <1>2 DEF TomaOrden
<1>4. Ajena(plan, plan') /\ plan'.fallo = plan.fallo /\ plan'.terminados = plan.terminados
  BY <1>1, <1>3 DEF Memoria, Ajena, Aplaza
<1>5. \A f \in ESIs : f # e => fase'[f] = fase[f] /\ resp'[f] = resp[f] /\ linea'[f] = linea[f]
  BY <1>1, <1>2
<1>6. fase'[e] # "veredicto" /\ (fase'[e] = "respuesta" => resp'[e] \in {"LISTO", "ABORTAR"})
  BY <1>1, <1>2
<1> QED BY <1>2, <1>3, <1>4, <1>5, <1>6, RepartoTranquilo DEF IDuenos

LEMMA RepartoConsola ==
  ASSUME IDuenos, ConsolaPausar \/ ConsolaContinuar
  PROVE  Reparto'
<1>1. plan \in Memoria
  BY DEF IDuenos, IVivo, IInv, TypeOK
<1>2. fase' = fase /\ resp' = resp /\ linea' = linea /\ tiene' = tiene
  BY DEF ConsolaPausar, ConsolaContinuar, entorno
<1>3. Ajena(plan, plan') /\ plan'.fallo = plan.fallo /\ plan'.terminados = plan.terminados
  <2>1. CASE ConsolaPausar
    BY <1>1, <2>1 DEF ConsolaPausar, consola_pausar, Memoria, Ajena, Aplaza
  <2>2. CASE ConsolaContinuar
    <3> DEFINE p == [plan EXCEPT !.pausado = FALSE]
    <3>1. /\ p \in Memoria /\ Ajena(plan, p) /\ p.fallo = plan.fallo
          /\ p.terminados = plan.terminados
      BY <1>1 DEF Memoria, Ajena, Aplaza
    <3>2. plan' \in planificar(p)
      BY <2>2 DEF ConsolaContinuar, consola_continuar
    <3> HIDE DEF p
    <3> QED BY <3>1, <3>2, PlanificarAjena, PlanificarEncarga DEF Ajena, Aplaza
  <2> QED BY <2>1, <2>2
<1> QED BY <1>2, <1>3, RepartoTranquilo DEF IDuenos

\* The Coordinador gives e its answer to a sentence that was allowed or not.
LEMMA RepartoVeredicto ==
  ASSUME IDuenos, NEW e \in ESIs, ProseguirOperacion(e)
  PROVE  Reparto'
<1> USE DEF IDuenos, Reparto
<1>1. /\ plan \in Memoria /\ fase \in [ESIs -> Fases]
      /\ resp \in [ESIs -> Resultados \cup {"nada"}]
      /\ tiene \in [ESIs -> SUBSET Claves]
      /\ linea[e] \in [op : Operaciones, clave : Claves \cup {Ninguna}]
  BY DEF IVivo, IInv, TypeOK
<1>2. /\ fase[e] = "veredicto" /\ ~plan.fallo
      /\ plan' = plan /\ linea' = linea
  BY DEF ProseguirOperacion, Responder, entorno, Detenido
<1>3. e \notin plan.terminados /\ plan.exec = e /\ proceso[e] = "vivo"
  <2>1. e \notin plan.terminados /\ plan.exec = e
    BY <1>2, SoloDelActual
  <2> QED BY <1>2, <2>1 DEF IVivo, IInv, TypeOK, SinCaidas
<1>4. PICK r : /\ Responder(e, r)
               /\ r = resp[e] \/ (r = "ABORTAR" /\ resp[e] = "CORRECTO" /\ linea[e].op # "GET")
  BY DEF ProseguirOperacion
<1> DEFINE k == linea[e].clave
<1>5. /\ fase' = [fase EXCEPT ![e] = "respuesta"]
      /\ resp' = [resp EXCEPT ![e] = r]
      /\ tiene' = [tiene EXCEPT ![e] =
               IF r # "CORRECTO" THEN @
               ELSE CASE linea[e].op = "GET"   -> @ \cup {k}
                      [] linea[e].op = "STORE" -> @ \ {k}
                      [] OTHER                 -> @]
  BY <1>3, <1>4 DEF Responder
<1>6. /\ fase'[e] = "respuesta" /\ resp'[e] = r
      /\ \A f \in ESIs : f # e => fase'[f] = fase[f] /\ resp'[f] = resp[f] /\ tiene'[f] = tiene[f]
  BY <1>1, <1>5
<1>7. /\ r = "CORRECTO" /\ linea[e].op = "GET" => tiene'[e] = tiene[e] \cup {k}
      /\ r = "CORRECTO" /\ linea[e].op = "STORE" => tiene'[e] = tiene[e] \ {k}
      /\ r # "CORRECTO" \/ linea[e].op = "SET" => tiene'[e] = tiene[e]
  BY <1>1, <1>5
<1> HIDE DEF k
<1>8. linea[e].op \in {"GET", "SET", "STORE"} /\ k \in Claves
  BY <1>1, <1>2 DEF Operaciones, IVivo, IInv, LineaLeida, k
<1>9. \A f \in ESIs : GetEnCurso(f)' <=> GetEnCurso(f)
  BY <1>2, <1>4, <1>6 DEF GetEnCurso
<1>10. GetPendiente'
  BY <1>2, <1>9 DEF GetPendiente
<1>11. StorePendiente'
  <2> SUFFICES ASSUME plan.store_clave # Ninguna, NEW f \in ESIs \ plan.terminados,
                      plan.dueno[plan.store_clave] = f \/ plan.store_clave \in tiene'[f]
               PROVE  Suelta(f, plan.store_clave)'
    BY <1>2 DEF StorePendiente
  <2>1. CASE f # e
    BY <1>2, <1>6, <2>1 DEF StorePendiente, Suelta
  <2>2. CASE f = e
    <3>1. ~(r = "CORRECTO" /\ linea[e].op = "GET" /\ k = plan.store_clave)
      BY <1>2, <1>4 DEF StorePendiente, GetPendiente, GetEnCurso, k
    <3>2. Suelta(e, plan.store_clave)
      BY <1>2, <1>7, <1>8, <2>2, <3>1 DEF StorePendiente
    <3>3. resp[e] = "CORRECTO" /\ linea[e] = [op |-> "STORE", clave |-> plan.store_clave]
      BY <1>2, <3>2 DEF Suelta
    <3>4. linea[e].op = "STORE" /\ k = plan.store_clave
      BY <3>3 DEF k
    <3> QED BY <1>2, <1>4, <1>6, <1>7, <2>2, <3>3, <3>4 DEF Suelta
  <2> QED BY <2>1, <2>2
<1>12. Tenencia'
  <2> SUFFICES ASSUME NEW f \in ESIs \ plan.terminados, NEW j \in tiene'[f]
               PROVE  \/ plan.dueno[j] = f
                      \/ fase'[f] = "respuesta" /\ GetEnCurso(f)' /\ linea[f].clave = j
    BY <1>2 DEF Tenencia
  <2>1. CASE j \in tiene[f]
    BY <1>2, <1>6, <1>9, <2>1 DEF Tenencia
  <2>2. CASE j \notin tiene[f]
    <3>1. f = e /\ r = "CORRECTO" /\ linea[e].op = "GET" /\ j = k
      BY <1>6, <1>7, <1>8, <2>2
    <3> QED BY <1>2, <1>6, <3>1 DEF GetEnCurso, k
  <2> QED BY <2>1, <2>2
<1>13. EscrituraAutorizada'
  BY <1>2, <1>6 DEF EscrituraAutorizada
<1>14. SinEncargos' /\ Detenido'
  BY <1>2 DEF SinEncargos, Detenido
<1> QED BY <1>10, <1>11, <1>12, <1>13, <1>14

LEMMA RepartoCoordinador ==
  ASSUME IDuenos, NEW e \in ESIs, Coordinador(e)
  PROVE  Reparto'
<1>1. /\ plan \in Memoria /\ fase \in [ESIs -> Fases]
      /\ resp \in [ESIs -> Resultados \cup {"nada"}]
      /\ tiene \in [ESIs -> SUBSET Claves]
  BY DEF IDuenos, IVivo, IInv, TypeOK
<1>2. CASE ProseguirOperacion(e)
  BY <1>2, RepartoVeredicto
<1>3. CASE ConsultarPlanificador(e)
  <2>1. /\ fase[e] = "sentencia" /\ plan' = plan /\ resp' = resp /\ linea' = linea
        /\ tiene' = tiene
        /\ fase' = [fase EXCEPT ![e] = "consulta"]
    BY <1>3 DEF ConsultarPlanificador, entorno
  <2>2. fase'[e] = "consulta" /\ \A f \in ESIs : f # e => fase'[f] = fase[f]
    BY <1>1, <2>1
  <2>3. Ajena(plan, plan') /\ plan'.fallo = plan.fallo /\ plan'.terminados = plan.terminados
    BY <2>1 DEF Ajena, Aplaza
  <2> QED BY <2>1, <2>2, <2>3, RepartoTranquilo DEF IDuenos
<1>4. CASE RechazarSentencia(e) \/ EliminarClave(e)
  <2>1. fase[e] = "sentencia" /\ Responder(e, "ABORTAR")
    BY <1>4 DEF RechazarSentencia, EliminarClave
  <2>2. /\ plan' = plan /\ linea' = linea /\ tiene' = tiene
        /\ \/ /\ fase' = [fase EXCEPT ![e] = "respuesta"]
              /\ resp' = [resp EXCEPT ![e] = "ABORTAR"]
           \/ /\ fase' = [fase EXCEPT ![e] = "espera"]
              /\ resp' = [resp EXCEPT ![e] = "nada"]
    <3>1. tiene' = tiene \/ tiene' = [tiene EXCEPT ![e] = tiene[e]]
      BY <2>1 DEF Responder
    <3> QED BY <1>1, <2>1, <3>1 DEF Responder, entorno
  <2>3. /\ \A f \in ESIs : f # e => fase'[f] = fase[f] /\ resp'[f] = resp[f]
        /\ fase'[e] # "veredicto"
        /\ fase'[e] = "respuesta" => resp'[e] = "ABORTAR"
    BY <1>1, <2>2
  <2>4. Ajena(plan, plan') /\ plan'.fallo = plan.fallo /\ plan'.terminados = plan.terminados
    BY <2>2 DEF Ajena, Aplaza
  <2> QED BY <2>1, <2>2, <2>3, <2>4, RepartoTranquilo DEF IDuenos
<1> QED BY <1>2, <1>3, <1>4 DEF Coordinador

\* The Planificador answers a consultation: what it leaves pending is of e, the
\* only ESI with a sentence on its way.
LEMMA RepartoConsulta ==
  ASSUME IDuenos, NEW e \in ESIs, RecibirConsulta(e)
  PROVE  Reparto'
<1> USE DEF IDuenos, Reparto
<1> DEFINE k == linea[e].clave
           op == linea[e].op
<1>1. /\ ~plan.fallo /\ plan \in Memoria /\ fase[e] = "consulta"
      /\ linea' = linea /\ tiene' = tiene
      /\ linea[e] = [op |-> op, clave |-> k] /\ op \in {"GET", "SET", "STORE"} /\ k \in Claves
      /\ fase'[e] = "veredicto" /\ resp'[e] = veredicto(plan, e, op, k)
      /\ plan' = recibir_mensaje_coordinador(plan, e, op, k)
      /\ \A f \in ESIs : f # e => fase'[f] = fase[f] /\ resp'[f] = resp[f]
  BY DEF RecibirConsulta, entorno, IVivo, IInv, TypeOK, LineaLeida, Operaciones
<1> HIDE DEF k, op
<1>2. e \notin plan.terminados /\ plan.exec = e
  BY <1>1, SoloDelActual
<1>3. ASSUME NEW f \in ESIs, f # e PROVE fase[f] \in {"afuera", "espera"}
  BY <1>1, <1>2, <1>3, SoloDelActual
<1>4. \A f \in ESIs : ~GetEnCurso(f) /\ ~\E j \in Claves : Suelta(f, j)
  BY <1>1, <1>3 DEF GetEnCurso, Suelta
<1>5. ~plan.por_get
  BY <1>1, <1>4 DEF GetPendiente
<1>6. /\ plan'.fallo = plan.fallo /\ plan'.terminados = plan.terminados
      /\ plan'.dueno = plan.dueno /\ plan'.bloqueo = plan.bloqueo /\ plan'.kill = plan.kill
      /\ op = "GET" /\ plan.dueno[k] = Libre =>
           plan'.por_get /\ plan'.get_pid = e /\ plan'.get_clave = k
      /\ ~(op = "GET" /\ plan.dueno[k] = Libre) => ~plan'.por_get
      /\ plan'.store_clave # plan.store_clave =>
           op = "STORE" /\ plan.dueno[k] = e /\ plan'.store_clave = k
  BY <1>1, <1>5 DEF recibir_mensaje_coordinador, buscar_clave_bloqueada, Memoria
<1>7. resp'[e] = "CORRECTO" <=> IF op = "GET" THEN plan.dueno[k] = Libre ELSE plan.dueno[k] = e
  BY <1>1 DEF veredicto, buscar_clave_bloqueada
<1>8. \A f \in ESIs : GetEnCurso(f)' <=> f = e /\ op = "GET" /\ plan.dueno[k] = Libre
  BY <1>1, <1>3, <1>7 DEF GetEnCurso, op
<1>9. GetPendiente'
  BY <1>1, <1>6, <1>8 DEF GetPendiente, k
<1>10. Tenencia'
  BY <1>1, <1>4, <1>6 DEF Tenencia
<1>11. StorePendiente'
  <2>1. CASE plan'.store_clave = plan.store_clave
    <3>1. plan.store_clave \in Claves \cup {Ninguna}
      BY <1>1 DEF Memoria
    <3> QED BY <1>1, <1>4, <1>6, <2>1, <3>1 DEF StorePendiente
  <2>2. CASE plan'.store_clave # plan.store_clave
    <3>1. op = "STORE" /\ plan.dueno[k] = e /\ plan'.store_clave = k /\ resp'[e] = "CORRECTO"
      BY <1>6, <1>7, <2>2
    <3>2. Suelta(e, plan.store_clave)'
      BY <1>1, <3>1 DEF Suelta
    <3>3. \A f \in ESIs \ plan.terminados : k \in tiene[f] => f = e
      BY <1>1, <1>4, <3>1 DEF Tenencia
    <3>4. e # Libre
      BY PidsDistintos
    <3> QED BY <1>1, <1>6, <3>1, <3>2, <3>3, <3>4 DEF StorePendiente
  <2> QED BY <2>1, <2>2
<1>12. EscrituraAutorizada'
  BY <1>1, <1>3, <1>6, <1>7 DEF EscrituraAutorizada, op, k
<1>13. SinEncargos' /\ Detenido'
  BY <1>1, <1>6 DEF SinEncargos, Detenido
<1> QED BY <1>9, <1>10, <1>11, <1>12, <1>13

\* While the Planificador is up, no key is in the hands of two ESIs of the system.
LEMMA LemaDisjuntas ==
  ASSUME IDuenos, ~plan.fallo,
         NEW e \in ESIs \ plan.terminados, NEW f \in ESIs \ plan.terminados, e # f
  PROVE  tiene[e] \cap tiene[f] = {}
<1> SUFFICES ASSUME NEW k \in tiene[e], k \in tiene[f] PROVE FALSE
  OBVIOUS
<1>1. ASSUME NEW g \in {e, f} PROVE plan.dueno[k] \in {g, Libre}
  BY DEF IDuenos, Reparto, Tenencia, GetPendiente
<1>2. plan.dueno[k] = Libre
  BY <1>1
<1>3. ASSUME NEW g \in {e, f} PROVE GetEnCurso(g)
  BY <1>2, PidsDistintos DEF IDuenos, Reparto, Tenencia
<1>4. GetEnCurso(e) /\ GetEnCurso(f)
  BY <1>3
<1>5. plan.get_pid = e /\ plan.get_pid = f
  BY <1>4 DEF IDuenos, Reparto, GetPendiente
<1> QED BY <1>5

\* The Planificador reads the result of e, the only ESI with one on its way.
LEMMA RepartoMensaje ==
  ASSUME IDuenos, NEW e \in ESIs, RecibirMensajeEsi(e)
  PROVE  Reparto'
<1> USE DEF IDuenos, Reparto
<1> DEFINE k == linea[e].clave
<1>1. /\ ~plan.fallo /\ plan \in Memoria /\ fase[e] = "respuesta"
      /\ linea' = linea /\ tiene' = tiene
      /\ fase'[e] = "espera"
      /\ \A f \in ESIs : f # e => fase'[f] = fase[f] /\ resp'[f] = resp[f]
      /\ plan' \in recibir_mensaje_esi(plan, e, resp[e])
      /\ tiene \in [ESIs -> SUBSET Claves]
  BY DEF RecibirMensajeEsi, entorno, IVivo, IInv, TypeOK
<1>2. e \notin plan.terminados /\ plan.exec = e
  BY <1>1, SoloDelActual
<1>3. ASSUME NEW f \in ESIs, f # e PROVE fase[f] \in {"afuera", "espera"}
  BY <1>1, <1>2, <1>3, SoloDelActual
<1>4. \A f \in ESIs : /\ f # e => ~GetEnCurso(f) /\ ~\E j \in Claves : Suelta(f, j)
                      /\ ~GetEnCurso(f)' /\ fase'[f] # "veredicto"
  BY <1>1, <1>3 DEF GetEnCurso, Suelta
<1>5. EscrituraAutorizada'
  BY <1>4 DEF EscrituraAutorizada
<1>6. plan.terminados \subseteq plan'.terminados
  BY <1>1, MensajeDeEsi DEF Deriva
<1>7. Detenido'
  <2>1. ASSUME NEW f \in ESIs \ plan.terminados, NEW g \in ESIs \ plan.terminados, f # g
        PROVE  tiene[f] \cap tiene[g] = {}
    BY <1>1, <2>1, LemaDisjuntas
  <2> QED BY <1>1, <1>4, <1>6, <2>1 DEF Detenido
<1>8. CASE plan'.fallo
  BY <1>5, <1>7, <1>8 DEF SinEncargos, GetPendiente, StorePendiente, Tenencia
<1>9. CASE ~plan'.fallo /\ resp[e] = "CORRECTO"
  <2>1. /\ ~plan.bloqueo /\ ~plan.kill
        /\ plan.por_get => /\ GetEnCurso(e) /\ plan.get_pid = e
                           /\ plan.get_clave = k /\ plan.dueno[k] = Libre
    BY <1>1, <1>4 DEF SinEncargos, GetPendiente
  <2>2. /\ ~plan'.bloqueo /\ ~plan'.kill /\ ~plan'.por_get /\ plan'.store_clave = Ninguna
        /\ plan'.terminados = plan.terminados
        /\ \A j \in Claves : j # plan.store_clave =>
             plan'.dueno[j] = IF plan.por_get /\ j = plan.get_clave /\ plan.dueno[j] = Libre
                              THEN e ELSE plan.dueno[j]
    <3> HIDE DEF IDuenos, Reparto
    <3>1. /\ plan \in Memoria /\ plan.exec = e /\ ~plan'.fallo
          /\ plan' \in recibir_mensaje_esi(plan, e, "CORRECTO")
          /\ ~plan.bloqueo /\ ~plan.kill /\ (plan.por_get => plan.get_pid = e)
      BY <1>1, <1>2, <1>9, <2>1
    <3> QED BY <3>1, MensajeClaves
  <2>3. SinEncargos' /\ GetPendiente' /\ StorePendiente'
    BY <1>4, <2>2 DEF SinEncargos, GetPendiente, StorePendiente
  <2>4. Tenencia'
    <3> SUFFICES ASSUME NEW f \in ESIs \ plan.terminados, NEW j \in tiene[f]
                 PROVE  plan'.dueno[j] = f
      BY <1>1, <2>2 DEF Tenencia
    <3>1. j \in Claves
      BY <1>1
    <3>2. j # plan.store_clave
      <4> SUFFICES ASSUME j = plan.store_clave PROVE FALSE
        OBVIOUS
      <4>1. Suelta(f, j)
        BY <1>1, <3>1, ClavesDistintas DEF StorePendiente
      <4>2. f = e
        BY <1>4, <3>1, <4>1
      <4> QED BY <1>1, <1>9, <4>1, <4>2 DEF Suelta
    <3>3. plan.dueno[j] = f \/ (f = e /\ GetEnCurso(e) /\ k = j)
      BY <1>1, <1>4 DEF Tenencia
    <3>4. CASE plan.dueno[j] = f
      BY <2>2, <3>1, <3>2, <3>4, PidsDistintos
    <3>5. CASE f = e /\ GetEnCurso(e) /\ k = j
      <4>1. plan.por_get /\ plan.get_clave = j /\ plan.dueno[j] = Libre
        BY <1>1, <3>5 DEF GetPendiente
      <4> QED BY <2>2, <3>1, <3>2, <3>5, <4>1
    <3> QED BY <3>3, <3>4, <3>5
  <2> QED BY <1>5, <1>7, <2>3, <2>4
<1>10. CASE ~plan'.fallo /\ resp[e] # "CORRECTO"
  <2>1. /\ plan'.bloqueo = plan.bloqueo /\ plan'.kill = plan.kill
        /\ plan'.por_get = plan.por_get /\ plan'.store_clave = plan.store_clave
        /\ \A j \in Claves : plan.dueno[j] # e => plan'.dueno[j] = plan.dueno[j]
        /\ resp[e] # "LISTO" => plan'.dueno = plan.dueno
        /\ resp[e] # "CLAVE_BLOQUEADA" => e \in plan'.terminados
    <3> HIDE DEF IDuenos, Reparto
    <3>1. /\ plan \in Memoria /\ plan.exec = e /\ ~plan'.fallo
          /\ plan' \in recibir_mensaje_esi(plan, e, resp[e]) /\ resp[e] # "CORRECTO"
      BY <1>1, <1>2, <1>10
    <3>2. resp[e] # "CLAVE_BLOQUEADA" => e \in plan'.terminados
      BY <3>1, MensajeEncarga
    <3>3. /\ plan'.bloqueo = plan.bloqueo /\ plan'.kill = plan.kill
          /\ plan'.por_get = plan.por_get /\ plan'.store_clave = plan.store_clave
      BY <3>1, MensajeClaves
    <3>4. resp[e] # "LISTO" => plan'.dueno = plan.dueno
      BY <3>1, MensajeClaves
    <3>5. \A j \in Claves : plan.dueno[j] # e => plan'.dueno[j] = plan.dueno[j]
      BY <3>1, MensajeClaves
    <3> QED BY <3>2, <3>3, <3>4, <3>5
  <2>2. SinEncargos'
    BY <1>1, <2>1 DEF SinEncargos
  <2>3. ~GetEnCurso(e) /\ ~plan.por_get
    <3>1. ~GetEnCurso(e)
      BY <1>10 DEF GetEnCurso
    <3> QED BY <1>1, <1>4, <3>1 DEF GetPendiente
  <2>4. GetPendiente'
    BY <1>4, <2>1, <2>3 DEF GetPendiente
  <2>5. StorePendiente'
    <3> SUFFICES ASSUME plan.store_clave # Ninguna
                 PROVE  /\ plan'.dueno[plan.store_clave] # Libre
                        /\ \A f \in ESIs \ plan'.terminados :
                             plan'.dueno[plan.store_clave] # f /\ plan.store_clave \notin tiene[f]
      BY <1>1, <2>1 DEF StorePendiente
    <3>1. plan.store_clave \in Claves
      BY <1>1 DEF Memoria
    <3>2. \A f \in ESIs \ plan.terminados : f # e =>
            plan.dueno[plan.store_clave] # f /\ plan.store_clave \notin tiene[f]
      BY <1>1, <1>4, <3>1 DEF StorePendiente
    <3>3. resp[e] # "ABORTAR" =>
            plan.dueno[plan.store_clave] # e /\ plan.store_clave \notin tiene[e]
      BY <1>1, <1>2, <1>10 DEF StorePendiente, Suelta
    <3>4. plan'.dueno[plan.store_clave] = plan.dueno[plan.store_clave]
      BY <2>1, <3>1, <3>3
    <3>5. resp[e] = "ABORTAR" => e \in plan'.terminados
      BY <2>1
    <3> QED BY <1>1, <1>6, <3>2, <3>3, <3>4, <3>5 DEF StorePendiente
  <2>6. Tenencia'
    <3> SUFFICES ASSUME NEW f \in ESIs \ plan'.terminados, NEW j \in tiene[f]
                 PROVE  plan'.dueno[j] = f
      BY <1>1 DEF Tenencia
    <3>1. plan.dueno[j] = f /\ j \in Claves
      BY <1>1, <1>4, <1>6, <2>3 DEF Tenencia
    <3>2. f = e => resp[e] # "LISTO"
      BY <2>1
    <3> QED BY <2>1, <3>1, <3>2
  <2> QED BY <1>5, <1>7, <2>2, <2>4, <2>5, <2>6
<1> QED BY <1>8, <1>9, <1>10

LEMMA ConservaDuenos ==
  ASSUME PuedenCaer = {}, Comandos \subseteq {"pausar", "continuar"}, IDuenos, [Next]_vars
  PROVE  IDuenos'
<1>1. IVivo'
  BY ConservaVivo DEF IDuenos
<1>2. CASE UNCHANGED vars
  <2>1. /\ plan' = plan /\ fase' = fase /\ resp' = resp /\ linea' = linea /\ tiene' = tiene
    BY <1>2 DEF vars, entorno
  <2>2. Ajena(plan, plan') /\ plan'.fallo = plan.fallo /\ plan'.terminados = plan.terminados
    BY <2>1 DEF Ajena, Aplaza
  <2> QED BY <1>1, <2>1, <2>2, RepartoTranquilo DEF IDuenos
<1>3. CASE Next
  <2>1. ASSUME NEW e \in ESIs, Caer(e) PROVE FALSE
    BY <2>1 DEF Caer
  <2>2. ASSUME NEW e \in ESIs, RecibirDesconexion(e) \/ RecibirReset(e) PROVE FALSE
    BY <2>2 DEF RecibirDesconexion, RecibirReset, Conectado, IDuenos, IVivo, SinCaidas
  <2>3. ASSUME Consola PROVE Reparto'
    <3>1. ConsolaPausar \/ ConsolaContinuar
      BY <2>3 DEF Consola, ConsolaDesbloquear, ConsolaBloquear, ConsolaMatar, Comando
    <3> QED BY <3>1, RepartoConsola
  <2>4. Reparto'
    BY <1>3, <2>1, <2>2, <2>3, RepartoNuevo, RepartoEsi, RepartoCoordinador, RepartoConsulta,
       RepartoMensaje
    DEF Next, Atender
  <2> QED BY <1>1, <2>4 DEF IDuenos
<1> QED BY <1>2, <1>3

LEMMA InicioDuenos == Init => IDuenos
<1>1. Init => Reparto
  BY DEF Init, MemoriaInicial, Reparto, SinEncargos, GetPendiente, GetEnCurso, StorePendiente,
         Tenencia, EscrituraAutorizada, Detenido
<1> QED BY <1>1, InicioVivo DEF IDuenos

\* When no ESI dies on its own and the operator only pauses and continues: a key is
\* never in the hands of two ESIs, although the Planificador locks it only when it
\* reads the result of the GET, whatever the Instancias answer and also when the
\* Planificador ends.
THEOREM NadieComparteClave ==
  ASSUME PuedenCaer = {}, Comandos \subseteq {"pausar", "continuar"}
  PROVE  Spec => []ExclusionMutua
<1>1. IDuenos /\ [Next]_vars => IDuenos'
  BY ConservaDuenos
<1>2. IDuenos => ExclusionMutua
  <2> SUFFICES ASSUME IDuenos, NEW e \in ESIs, NEW f \in ESIs, Vivo(e), Vivo(f), e # f
               PROVE  tiene[e] \cap tiene[f] = {}
    BY DEF ExclusionMutua
  <2>1. e \notin plan.terminados /\ f \notin plan.terminados
    BY DEF Vivo, Conectado
  <2> QED BY <2>1, LemaDisjuntas DEF IDuenos, Reparto, Detenido
<1> QED BY <1>1, <1>2, InicioDuenos, PTL DEF Spec

\* Under the same assumptions: when the Coordinador is about to apply a SET or STORE
\* that the Planificador allowed, the key is still locked by the ESI that asked.
THEOREM EscribeElDueno ==
  ASSUME PuedenCaer = {}, Comandos \subseteq {"pausar", "continuar"}
  PROVE  Spec => []EscrituraAutorizada
<1>1. IDuenos /\ [Next]_vars => IDuenos'
  BY ConservaDuenos
<1>2. IDuenos => EscrituraAutorizada
  BY DEF IDuenos, Reparto
<1> QED BY <1>1, <1>2, InicioDuenos, PTL DEF Spec

-------------------------------------------------------------------------------
(***************************************************************************)
(* What the blocked ESIs wait for, function by function.                   *)
(***************************************************************************)
\* Each blocked ESI waits for a key that is locked.
Motivos(p) ==
  \A e \in ToSet(p.bloqueados) :
    p.pcb[e].clave \in Claves /\ p.dueno[p.pcb[e].clave] # Libre

\* A function that blocks nobody and unlocks nothing.
SinSoltar(p, q) ==
  /\ ToSet(q.bloqueados) \subseteq ToSet(p.bloqueados)
  /\ \A e \in ToSet(q.bloqueados) : q.pcb[e].clave = p.pcb[e].clave
  /\ \A k \in Claves : p.dueno[k] # Libre => q.dueno[k] # Libre

LEMMA MotivosQuietos ==
  ASSUME NEW p, NEW q, Motivos(p), SinSoltar(p, q)
  PROVE  Motivos(q)
  BY DEF Motivos, SinSoltar

LEMMA FuncionesSinSoltar ==
  ASSUME NEW p \in Memoria
  PROVE  /\ SinSoltar(p, Romper(p))
         /\ \A q \in planificar(p) : SinSoltar(p, q)
         /\ SinSoltar(p, aumentar_tiempo_espera_ready(p))
         /\ SinSoltar(p, enviar_esi_confirmacion_sentencia(p))
         /\ \A k, e : SinSoltar(p, bloquear_clave(p, k, e))
<1>0. /\ p.pcb \in [ESIs -> Pcb] /\ ToSet(p.bloqueados) \subseteq ESIs
      /\ p.dueno \in [Claves -> ESIs \cup {Sistema, Libre}]
  <2>1. p.bloqueados \in Seq(ESIs)
    BY DEF Memoria
  <2> QED BY <2>1, Elementos DEF Memoria
<1>1. SinSoltar(p, Romper(p))
  BY DEF Romper, SinSoltar, Memoria
<1>2. ASSUME NEW q \in planificar(p) PROVE SinSoltar(p, q)
  BY DEF planificar, obtener_proximo_ejecucion, enviar_esi_confirmacion_sentencia, Memoria,
         SinSoltar
<1>3. SinSoltar(p, aumentar_tiempo_espera_ready(p))
  <2> DEFINE q == aumentar_tiempo_espera_ready(p)
  <2>1. q.bloqueados = p.bloqueados /\ q.dueno = p.dueno
    BY DEF aumentar_tiempo_espera_ready, Memoria
  <2>2. ASSUME NEW x \in ESIs PROVE q.pcb[x].clave = p.pcb[x].clave
    <3>1. q.pcb[x] \in {p.pcb[x], [p.pcb[x] EXCEPT !.espera = p.pcb[x].espera + 1]}
      BY DEF aumentar_tiempo_espera_ready, Memoria
    <3>2. p.pcb[x] \in Pcb
      BY <1>0
    <3>3. \A n : [p.pcb[x] EXCEPT !.espera = n].clave = p.pcb[x].clave
      BY <3>2 DEF Pcb
    <3> QED BY <3>1, <3>3
  <2> QED BY <1>0, <2>1, <2>2 DEF SinSoltar
<1>4. SinSoltar(p, enviar_esi_confirmacion_sentencia(p))
  BY DEF enviar_esi_confirmacion_sentencia, SinSoltar, Memoria
<1>5. ASSUME NEW k, NEW e PROVE SinSoltar(p, bloquear_clave(p, k, e))
  <2> DEFINE d == IF e = p.exec \/ e \in ToSet(p.listos) THEN e ELSE Sistema
             q == [p EXCEPT !.dueno[k] = d]
  <2>1. d # Libre
    <3>1. p.exec # Libre /\ Libre \notin ToSet(p.listos)
      BY Elementos, PidsDistintos DEF Memoria
    <3> QED BY <3>1, PidsDistintos
  <2> HIDE DEF d
  <2>2. SinSoltar(p, q)
    BY <1>0, <2>1 DEF SinSoltar, Memoria
  <2>3. bloquear_clave(p, k, e) \in {p, q}
    BY DEF bloquear_clave, d
  <2> HIDE DEF q
  <2> QED BY <2>2, <2>3 DEF SinSoltar
<1> QED BY <1>1, <1>2, <1>3, <1>4, <1>5

\* A key is unlocked only when nobody is left that waits for it.
LEMMA DesbloquearMotivos ==
  ASSUME NEW p \in Memoria, NEW S, Ubicados(p, S), Motivos(p), NEW k \in Claves
  PROVE  Motivos(desbloquear_clave(p, k))
<1> DEFINE espera == EsperanClave(p, k)
           i == Min(espera)
           e == p.bloqueados[i]
           b == RemoveAt(p.bloqueados, i)
           f == Despertado(p.pcb[e])
           q0 == [p EXCEPT !.bloqueados = b, !.pcb[e] = f]
           l == Append(p.listos, e)
           r == [pedir_desalojo(q0, e) EXCEPT !.listos = l]
           r1 == [pedir_desalojo(q0, e) EXCEPT !.listos = l, !.dueno[k] = Libre]
           s == [p EXCEPT !.dueno[k] = Libre]
<1>1. /\ p.bloqueados \in Seq(ESIs) /\ p.pcb \in [ESIs -> Pcb]
      /\ p.dueno \in [Claves -> ESIs \cup {Sistema, Libre}]
      /\ DOMAIN p.bloqueados \in SUBSET Nat /\ ToSet(p.bloqueados) \subseteq ESIs
  <2>1. p.bloqueados \in Seq(ESIs)
    BY DEF Memoria
  <2> QED BY <2>1, Elementos DEF Memoria
<1>2. ASSUME NEW x \in ToSet(p.bloqueados)
      PROVE  \E j \in DOMAIN p.bloqueados :
               p.bloqueados[j] = x /\ (p.pcb[x].clave = k => j \in espera)
  BY <1>1, <1>2, Elementos DEF EsperanClave
<1>3. ASSUME espera = {} PROVE Motivos(s)
  <2>1. s.bloqueados = p.bloqueados /\ s.pcb = p.pcb /\ s.dueno = [p.dueno EXCEPT ![k] = Libre]
    BY DEF Memoria
  <2> HIDE DEF s, espera
  <2> QED BY <1>1, <1>2, <1>3, <2>1 DEF Motivos
<1>4. ASSUME espera # {} PROVE Motivos(r) /\ (espera = {i} => Motivos(r1))
  <2>1. i \in DOMAIN p.bloqueados /\ i \in espera
    <3>1. espera \in SUBSET Nat /\ espera \subseteq DOMAIN p.bloqueados
      BY <1>1 DEF EsperanClave
    <3> HIDE DEF espera
    <3> QED BY <1>4, <3>1, Minimo
  <2> HIDE DEF i, espera
  <2>2. ToSet(b) = ToSet(p.bloqueados) \ {e}
    BY <1>1, <2>1, QuitarUno DEF Ubicados
  <2>3. ASSUME espera = {i}, NEW x \in ToSet(p.bloqueados), x # e PROVE p.pcb[x].clave # k
    BY <1>2, <2>3
  <2>4. e \in ESIs
    BY <1>1, <2>1, Elementos
  <2> HIDE DEF e, b, l, f
  <2>5. \E v : pedir_desalojo(q0, e) = [p EXCEPT !.bloqueados = b, !.pcb = [p.pcb EXCEPT ![e] = f], !.por_desalojar = v]
    BY DEF pedir_desalojo, Memoria
  <2>6. /\ r.bloqueados = b /\ r.pcb = [p.pcb EXCEPT ![e] = f] /\ r.dueno = p.dueno
        /\ r1.bloqueados = b /\ r1.pcb = [p.pcb EXCEPT ![e] = f]
        /\ r1.dueno = [p.dueno EXCEPT ![k] = Libre]
    BY <2>5 DEF Memoria
  <2> HIDE DEF r, r1
  <2>7. \A x \in ToSet(p.bloqueados) : x # e => [p.pcb EXCEPT ![e] = f][x] = p.pcb[x]
    BY <1>1
  <2> QED BY <1>1, <2>2, <2>3, <2>6, <2>7 DEF Motivos
<1>5. \/ desbloquear_clave(p, k) \in {p, Romper(p)}
      \/ espera = {} /\ desbloquear_clave(p, k) = s
      \/ espera # {} /\ desbloquear_clave(p, k) = r
      \/ espera # {} /\ espera = {i} /\ desbloquear_clave(p, k) = r1
  BY DEF desbloquear_clave
<1> HIDE DEF r, r1, s, espera, i
<1> QED BY <1>3, <1>4, <1>5, FuncionesSinSoltar, MotivosQuietos

LEMMA LiberarMotivos ==
  ASSUME NEW p \in Memoria, Motivos(p), NEW e \in ESIs,
         NEW q \in desbloquear_claves_bloqueadas_pid(p, e)
  PROVE  Motivos(q)
<1> DEFINE D == Despertados(p, e)
           d0 == [k \in Claves |-> IF p.dueno[k] = e THEN Libre ELSE p.dueno[k]]
           c0 == [f \in ESIs |-> IF f \in D THEN Despertado(p.pcb[f]) ELSE p.pcb[f]]
<1>1. CASE q \in {p, Romper(p)}
  BY <1>1, FuncionesSinSoltar, MotivosQuietos
<1>2. ASSUME NEW fila \in SetToSeqs(D), NEW resto \in SinElementos(p.bloqueados, D),
             q = Liberadas(p, e, fila, resto)
      PROVE  Motivos(q)
  <2>1. p.bloqueados \in Seq(ESIs) /\ ToSet(p.bloqueados) \subseteq ESIs
    BY Elementos DEF Memoria
  <2>2. ToSet(resto) \subseteq ToSet(p.bloqueados) \ D
    <3>1. resto \in SetToSeqs(ToSet(p.bloqueados) \ D)
      BY DEF SinElementos
    <3>2. ToSet(p.bloqueados) \ D \in SUBSET ToSet(p.bloqueados)
      OBVIOUS
    <3> QED BY <2>1, <3>1, <3>2, Filas
  <2>3. \A x \in ToSet(p.bloqueados) \ D :
          /\ c0[x] = p.pcb[x]
          /\ p.pcb[x].clave \in Claves => d0[p.pcb[x].clave] = p.dueno[p.pcb[x].clave]
    BY <2>1 DEF Despertados, ClavesDe
  <2>4. q.bloqueados = resto /\ q.pcb = c0 /\ q.dueno = d0
    <3> DEFINE a == SinClavesDe(p, e)
               v == ConDesalojo(a, fila).por_desalojar
    <3>1. a = [p EXCEPT !.dueno = d0, !.pcb = c0]
      BY DEF SinClavesDe
    <3> HIDE DEF d0, c0, a
    <3>2. ConDesalojo(a, fila) = [p EXCEPT !.dueno = d0, !.pcb = c0, !.por_desalojar = v]
      BY <3>1 DEF ConDesalojo, Memoria
    <3> HIDE DEF v
    <3> QED BY <1>2, <3>2 DEF Liberadas, Memoria, a
  <2> HIDE DEF c0, d0, D
  <2> QED BY <2>2, <2>3, <2>4 DEF Motivos
<1>3. \/ q \in {p, Romper(p)}
      \/ \E fila \in SetToSeqs(D), resto \in SinElementos(p.bloqueados, D) :
           q = Liberadas(p, e, fila, resto)
  BY DEF desbloquear_claves_bloqueadas_pid
<1> QED BY <1>1, <1>2, <1>3

LEMMA FinalizarMotivos ==
  ASSUME NEW p \in Memoria, NEW S, Ubicados(p, S), Motivos(p), NEW e \in ESIs,
         NEW l \in BOOLEAN, NEW q \in finalizar_esi(p, e, l)
  PROVE  Motivos(q)
<1> DEFINE c == sacar_de_colas(p, e)
<1>1. CASE ~EnSistema(p, e)
  BY <1>1 DEF finalizar_esi
<1>2. ASSUME EnSistema(p, e), NEW r \in {c} \cup desbloquear_claves_bloqueadas_pid(c, e),
             q = pasar_a_terminados(r, e)
      PROVE  Motivos(q)
  <2>1. c \in Memoria /\ Ubicados(c, S \ {e})
    BY <1>2, SacarDeColas, SacarUbica DEF Deriva
  <2>2. Motivos(c)
    <3> DEFINE b == sacar_esi_de_lista_pid(p.bloqueados, e)
    <3>1. ToSet(b) \subseteq ToSet(p.bloqueados)
      BY SacarDeLista DEF Memoria
    <3> HIDE DEF b
    <3>2. c.pcb = p.pcb /\ c.dueno = p.dueno /\ c.bloqueados \in {p.bloqueados, b}
      BY DEF sacar_de_colas, Memoria, b
    <3> HIDE DEF c
    <3>3. SinSoltar(p, c)
      BY <3>1, <3>2 DEF SinSoltar
    <3> QED BY <3>3, MotivosQuietos
  <2> HIDE DEF c
  <2>3. r \in Memoria /\ Ubicados(r, S \ {e}) /\ Motivos(r)
    BY <2>1, <2>2, Liberar, LiberarUbica, LiberarMotivos DEF Deriva
  <2>4. CASE r.fallo
    BY <1>2, <2>3, <2>4 DEF pasar_a_terminados
  <2>5. CASE ~r.fallo
    <3>1. e \notin ToSet(r.bloqueados)
      BY <2>3, <2>5 DEF Ubicados, Presentes
    <3>2. r.bloqueados \in Seq(ESIs) /\ ToSet(r.bloqueados) \subseteq ESIs
      BY <2>3, Elementos DEF Memoria
    <3>3. /\ q.bloqueados = r.bloqueados /\ q.dueno = r.dueno
          /\ \A x \in ESIs : x # e => q.pcb[x] = r.pcb[x]
      BY <1>2, <2>3, <2>5 DEF pasar_a_terminados, Memoria
    <3>4. SinSoltar(r, q)
      BY <3>1, <3>2, <3>3 DEF SinSoltar
    <3> QED BY <2>3, <3>4, MotivosQuietos
  <2> QED BY <2>4, <2>5
<1> QED BY <1>1, <1>2 DEF finalizar_esi

LEMMA ConfirmarMotivos ==
  ASSUME NEW p \in Memoria, NEW S, Ubicados(p, S), Motivos(p)
  PROVE  /\ Motivos(confirmar_bloqueo_por_get(p))
         /\ p.store_clave # Ninguna => Motivos(confirmar_desbloqueo_por_store(p))
         /\ Motivos(confirmar_pausa_por_consola(p))
         /\ Motivos(confirmar_desalojo_ejecucion(p))
<1>0. /\ p.bloqueados \in Seq(ESIs) /\ ToSet(p.bloqueados) \subseteq ESIs
      /\ Motivos(Romper(p))
  BY Elementos, FuncionesSinSoltar, MotivosQuietos DEF Memoria
<1>1. Motivos(confirmar_bloqueo_por_get(p))
  <2> DEFINE m == bloquear_clave(p, p.get_clave, p.get_pid)
             q == [m EXCEPT !.por_get = FALSE, !.get_clave = Ninguna, !.get_pid = Nadie]
  <2>1. p.get_pid # Nadie => m \in Memoria
    BY BloquearClave DEF Memoria, Deriva
  <2>2. SinSoltar(p, m)
    BY FuncionesSinSoltar
  <2>3. confirmar_bloqueo_por_get(p) = IF p.get_pid = Nadie THEN Romper(p) ELSE q
    BY DEF confirmar_bloqueo_por_get
  <2> HIDE DEF m
  <2>4. p.get_pid # Nadie => SinSoltar(p, q)
    BY <2>1, <2>2 DEF SinSoltar, Memoria
  <2> HIDE DEF q
  <2> QED BY <1>0, <2>3, <2>4, MotivosQuietos
<1>2. ASSUME p.store_clave # Ninguna PROVE Motivos(confirmar_desbloqueo_por_store(p))
  <2> DEFINE m == desbloquear_clave(p, p.store_clave)
             q == [m EXCEPT !.store_clave = Ninguna]
  <2>1. p.store_clave \in Claves
    BY <1>2 DEF Memoria
  <2>2. m \in Memoria /\ Motivos(m)
    BY <2>1, DesbloquearClave, DesbloquearMotivos DEF Deriva
  <2>3. confirmar_desbloqueo_por_store(p) = q
    BY DEF confirmar_desbloqueo_por_store
  <2> HIDE DEF m
  <2> QED BY <2>2, <2>3 DEF Motivos, Memoria
<1>3. ASSUME NEW q, \E l, x, d : q = [p EXCEPT !.pcb[p.exec].espera = 0, !.listos = l,
                                               !.exec = x, !.por_desalojar = d]
      PROVE  Motivos(q)
  <2>1. /\ q.bloqueados = p.bloqueados /\ q.dueno = p.dueno
        /\ q.pcb = [p.pcb EXCEPT ![p.exec].espera = 0]
    BY <1>3 DEF Memoria
  <2>2. ASSUME NEW f \in ESIs PROVE q.pcb[f].clave = p.pcb[f].clave
    <3>1. p.pcb[f] \in Pcb
      BY DEF Memoria
    <3> QED BY <2>1, <3>1 DEF Memoria, Pcb
  <2>3. SinSoltar(p, q)
    BY <1>0, <2>1, <2>2 DEF SinSoltar
  <2> QED BY <2>3, MotivosQuietos
<1>4. Motivos(confirmar_pausa_por_consola(p))
  <2> DEFINE q == [p EXCEPT !.pcb[p.exec].espera = 0, !.listos = Append(p.listos, p.exec),
                            !.exec = Nadie, !.por_desalojar = p.por_desalojar]
  <2>1. Motivos(q)
    BY <1>3
  <2>2. confirmar_pausa_por_consola(p) \in {Romper(p), q}
    BY DEF confirmar_pausa_por_consola, Memoria
  <2> HIDE DEF q
  <2> QED BY <1>0, <2>1, <2>2
<1>5. Motivos(confirmar_desalojo_ejecucion(p))
  <2> DEFINE cola == Append(p.listos, p.exec)
             l == sacar_esi_de_lista_pid(cola, p.por_desalojar)
             x == IF p.por_desalojar \in ToSet(cola) THEN p.por_desalojar ELSE Nadie
             q == [p EXCEPT !.pcb[p.exec].espera = 0, !.listos = l, !.exec = x,
                            !.por_desalojar = Nadie]
  <2>1. Motivos(q)
    BY <1>3
  <2>2. confirmar_desalojo_ejecucion(p) \in {Romper(p), q}
    BY DEF confirmar_desalojo_ejecucion
  <2> HIDE DEF q
  <2> QED BY <1>0, <2>1, <2>2
<1> QED BY <1>1, <1>2, <1>4, <1>5

LEMMA CorrectoMotivos ==
  ASSUME NEW p \in Memoria, NEW S, Ubicados(p, S), Motivos(p), p.exec # Nadie, ~p.bloqueo,
         NEW q \in resultado_correcto(p)
  PROVE  Motivos(q)
<1> DEFINE c1 == [p EXCEPT !.pcb[p.exec] = [sentencia_contada(@) EXCEPT !.repetir = FALSE]]
           c2 == IF c1.bloqueo THEN confirmar_bloqueo_ejecucion(c1) ELSE c1
           c3 == IF c2.por_get THEN confirmar_bloqueo_por_get(c2) ELSE c2
           c4 == IF ~c3.fallo /\ c3.store_clave # Ninguna
                 THEN confirmar_desbloqueo_por_store(c3) ELSE c3
           c5 == IF ~c4.fallo /\ c4.pausado THEN confirmar_pausa_por_consola(c4) ELSE c4
           C6 == IF ~c5.fallo /\ c5.kill THEN confirmar_kill_ejecucion(c5) ELSE {c5}
           c7(c) == IF ~c.fallo /\ c.por_desalojar # Nadie
                    THEN confirmar_desalojo_ejecucion(c) ELSE c
           c8(c) == IF ~c.fallo /\ c.exec # Nadie
                    THEN enviar_esi_confirmacion_sentencia(c) ELSE c
           D(c) == c \in Memoria /\ Ubicados(c, S) /\ Motivos(c)
<1>1. PICK c6 \in C6 : q = c8(c7(c6))
  BY DEF resultado_correcto
<1>2. D(c1) /\ ~c1.bloqueo
  <2> DEFINE f == [sentencia_contada(p.pcb[p.exec]) EXCEPT !.repetir = FALSE]
  <2>1. p.exec \in ESIs /\ p.pcb \in [ESIs -> Pcb] /\ p.pcb[p.exec] \in Pcb
    BY DEF Memoria
  <2>2. sentencia_contada(p.pcb[p.exec]) \in Pcb
    BY <2>1, Ficha
  <2>3. f \in Pcb
    BY <2>2 DEF Pcb
  <2>4. c1 = [p EXCEPT !.pcb = [p.pcb EXCEPT ![p.exec] = f]]
    BY DEF Memoria
  <2> HIDE DEF f, c1
  <2>5. /\ c1 \in Memoria /\ NadieSeMueve(p, c1) /\ c1.dueno = p.dueno /\ ~c1.bloqueo
        /\ c1.bloqueados = p.bloqueados /\ c1.pcb = [p.pcb EXCEPT ![p.exec] = f]
    BY <2>1, <2>3, <2>4 DEF Memoria, NadieSeMueve
  <2>6. p.exec \notin ToSet(p.bloqueados) /\ ToSet(p.bloqueados) \subseteq ESIs
    BY Elementos DEF Memoria, Ubicados
  <2>7. SinSoltar(p, c1)
    BY <2>1, <2>5, <2>6 DEF SinSoltar
  <2> QED BY <2>5, <2>7, UbicadosQuietos, MotivosQuietos
<1> HIDE DEF c1
<1>3. D(c2)
  BY <1>2
<1> HIDE DEF c2
<1>4. D(c3)
  BY <1>3, ConfirmarGet, ConfirmarUbica, ConfirmarMotivos DEF Deriva
<1> HIDE DEF c3
<1>5. D(c4)
  BY <1>4, ConfirmarStore, ConfirmarUbica, ConfirmarMotivos DEF Deriva
<1> HIDE DEF c4
<1>6. D(c5)
  BY <1>5, ConfirmarPausa, ConfirmarUbica, ConfirmarMotivos DEF Deriva
<1> HIDE DEF c5
<1>7. D(c6)
  <2>1. CASE c6 = c5
    BY <1>6, <2>1
  <2>2. CASE c6 = Romper(c5)
    <3>1. NadieSeMueve(c5, Romper(c5)) /\ SinSoltar(c5, Romper(c5))
      BY <1>6, FuncionesSinSoltar DEF Romper, NadieSeMueve, Memoria
    <3> QED BY <1>6, <2>2, <3>1, DerivaRomper, UbicadosQuietos, MotivosQuietos DEF Deriva
  <2>3. CASE c5.exec # Nadie /\ c6 \in finalizar_esi(c5, c5.exec, TRUE)
    <3>1. c5.exec \in ESIs
      BY <1>6, <2>3 DEF Memoria
    <3> QED BY <1>6, <2>3, <3>1, FinalizarEsi, FinalizarUbica, FinalizarMotivos DEF Deriva
  <2> QED BY <1>1, <2>1, <2>2, <2>3 DEF confirmar_kill_ejecucion
<1> HIDE DEF C6
<1>8. D(c7(c6))
  BY <1>7, ConfirmarDesalojo, ConfirmarUbica, ConfirmarMotivos DEF Deriva
<1> HIDE DEF c7
<1> QED BY <1>1, <1>8, FuncionesSinSoltar, MotivosQuietos

LEMMA BloqueadaMotivos ==
  ASSUME NEW p \in Memoria, NEW S, Ubicados(p, S), Motivos(p), p.exec # Nadie, NEW e \in ESIs,
         p.get_clave # Ninguna, p.dueno[p.get_clave] # Libre
  PROVE  Motivos(resultado_clave_bloqueada(p, e))
<1> DEFINE f0 == sentencia_contada(p.pcb[p.exec])
           f == [f0 EXCEPT !.repetir = TRUE, !.clave = p.get_clave]
           b == Append(p.bloqueados, p.exec)
           q == [p EXCEPT !.pcb = [p.pcb EXCEPT ![p.exec] = f], !.bloqueados = b, !.exec = Nadie,
                          !.get_clave = Ninguna, !.get_pid = Nadie]
<1>1. /\ p.exec \in ESIs /\ p.bloqueados \in Seq(ESIs) /\ p.pcb \in [ESIs -> Pcb]
      /\ p.get_clave \in Claves
  BY DEF Memoria
<1>2. ToSet(b) = ToSet(p.bloqueados) \cup {p.exec} /\ ToSet(p.bloqueados) \subseteq ESIs
  BY <1>1, AgregarAlFinal, Elementos
<1>3. f.clave = p.get_clave
  <2>1. f0 \in Pcb
    BY <1>1, Ficha
  <2> HIDE DEF f0
  <2> QED BY <2>1 DEF Pcb
<1>4. resultado_clave_bloqueada(p, e) \in {Romper(p), p, q}
  BY DEF resultado_clave_bloqueada, Memoria
<1> HIDE DEF f, b
<1>5. q.bloqueados = b /\ q.dueno = p.dueno /\ q.pcb = [p.pcb EXCEPT ![p.exec] = f]
  BY DEF Memoria
<1> HIDE DEF q
<1>6. Motivos(q)
  BY <1>1, <1>2, <1>3, <1>5 DEF Motivos, Ubicados
<1> QED BY <1>4, <1>6, FuncionesSinSoltar, MotivosQuietos

LEMMA MensajeMotivos ==
  ASSUME NEW p \in Memoria, NEW S, Ubicados(p, S), Motivos(p), NEW e \in ESIs, NEW resultado,
         p.exec = e, ~p.bloqueo,
         resultado = "CLAVE_BLOQUEADA" => p.get_clave # Ninguna /\ p.dueno[p.get_clave] # Libre,
         NEW q \in recibir_mensaje_esi(p, e, resultado)
  PROVE  Motivos(q)
<1>1. PICK r \in procesar_resultado(p, e, resultado) :
        q \in planificar(aumentar_tiempo_espera_ready(r))
  BY DEF recibir_mensaje_esi
<1> DEFINE s == aumentar_tiempo_espera_ready(r)
<1>2. r \in Memoria /\ p.exec # Nadie
  BY ProcesarResultado, PidsDistintos DEF Deriva
<1>3. Motivos(r)
  <2>1. CASE r \in resultado_correcto(p)
    BY <1>2, <2>1, CorrectoMotivos
  <2>2. CASE \E l \in BOOLEAN : r \in finalizar_esi(p, p.exec, l)
    BY <2>2, FinalizarMotivos
  <2>3. CASE resultado = "CLAVE_BLOQUEADA" /\ r = resultado_clave_bloqueada(p, e)
    BY <1>2, <2>3, BloqueadaMotivos
  <2> QED BY <1>2, <2>1, <2>2, <2>3 DEF procesar_resultado
<1>4. s \in Memoria /\ Motivos(s)
  BY <1>2, <1>3, AumentarEspera, FuncionesSinSoltar, MotivosQuietos DEF Deriva
<1> QED BY <1>1, <1>4, FuncionesSinSoltar, MotivosQuietos

LEMMA NuevoMotivos ==
  ASSUME NEW p \in Memoria, NEW S, Ubicados(p, S), Motivos(p), ~p.fallo,
         NEW e \in ESIs, e \notin S, NEW q \in atender_nuevo_esi(p, e)
  PROVE  Motivos(q)
<1> DEFINE l == Append(p.listos, e)
           c == [p.pcb EXCEPT ![e] = crear_esi]
           r == [p EXCEPT !.pcb = c, !.listos = l]
<1>1. l \in Seq(ESIs) /\ p.bloqueados \in Seq(ESIs)
  BY AgregarAlFinal DEF Memoria
<1>2. c \in [ESIs -> Pcb] /\ \A x \in ESIs : x # e => c[x] = p.pcb[x]
  BY EstimacionPositiva DEF Memoria, crear_esi, Pcb
<1>3. q \in planificar(pedir_desalojo(r, e))
  BY DEF atender_nuevo_esi, Memoria
<1> HIDE DEF l, c
<1>4. r \in Memoria /\ r.bloqueados = p.bloqueados /\ r.dueno = p.dueno /\ r.pcb = c
  BY <1>1, <1>2 DEF Memoria
<1> HIDE DEF r
<1>5. e \notin ToSet(p.bloqueados) /\ ToSet(p.bloqueados) \subseteq ESIs
  BY <1>1, Elementos DEF Ubicados, Presentes
<1>6. SinSoltar(p, r)
  BY <1>2, <1>4, <1>5 DEF SinSoltar
<1> DEFINE s == pedir_desalojo(r, e)
           v == s.por_desalojar
<1>7. v \in ESIs \cup {Nadie} /\ s = [r EXCEPT !.por_desalojar = v]
  BY <1>4, PedirDesalojo
<1> HIDE DEF v
<1>8. s \in Memoria /\ SinSoltar(r, s)
  BY <1>4, <1>7 DEF Memoria, SinSoltar
<1> QED BY <1>3, <1>6, <1>8, FuncionesSinSoltar, MotivosQuietos

-------------------------------------------------------------------------------
(***************************************************************************)
(* What the blocked ESIs wait for, in the system.                          *)
(***************************************************************************)
\* An ESI that is being told to block will wait for a key that is locked: nothing
\* is unlocked between the answer to its GET and the reading of its result.
NegadoConMotivo ==
  ~plan.fallo => \A e \in ESIs :
    fase[e] \in {"veredicto", "respuesta"} /\ resp[e] = "CLAVE_BLOQUEADA" =>
      plan.get_clave # Ninguna /\ plan.dueno[plan.get_clave] # Libre

IMotivos == IDuenos /\ Ubicados(plan, Llegados) /\ Motivos(plan) /\ NegadoConMotivo

\* A step that gives no such answer and does not touch the locks.
LEMMA NegadoTranquilo ==
  ASSUME NegadoConMotivo, Ajena(plan, plan'), plan'.fallo = plan.fallo,
         \A f \in ESIs :
           fase'[f] \in {"veredicto", "respuesta"} /\ resp'[f] = "CLAVE_BLOQUEADA" =>
             fase[f] \in {"veredicto", "respuesta"} /\ resp[f] = "CLAVE_BLOQUEADA"
  PROVE  NegadoConMotivo'
  BY DEF NegadoConMotivo, Ajena, Aplaza

LEMMA MotivosEsi ==
  ASSUME IMotivos, NEW e \in ESIs, Esi(e) \/ Coordinador(e)
  PROVE  (Motivos(plan) /\ NegadoConMotivo)'
<1>1. /\ plan \in Memoria /\ fase \in [ESIs -> Fases]
      /\ resp \in [ESIs -> Resultados \cup {"nada"}]
  BY DEF IMotivos, IDuenos, IVivo, IInv, TypeOK
<1>2. plan' = plan \/ plan' = [plan EXCEPT !.orden = plan.orden \ {e}]
  BY <1>1
  DEF Memoria, Esi, Coordinador, LeerLinea, RepetirLinea, FinDelScript, LineaInvalida,
      TomaOrden, RechazarSentencia, EliminarClave, ConsultarPlanificador, ProseguirOperacion,
      Responder
<1>3. SinSoltar(plan, plan') /\ Ajena(plan, plan') /\ plan'.fallo = plan.fallo
  BY <1>1, <1>2 DEF SinSoltar, Ajena, Aplaza, Memoria
<1>4. \A f \in ESIs : f # e => fase'[f] = fase[f] /\ resp'[f] = resp[f]
  BY <1>1
  DEF Esi, Coordinador, LeerLinea, RepetirLinea, FinDelScript, LineaInvalida, Terminar, Enviar,
      RechazarSentencia, EliminarClave, ConsultarPlanificador, ProseguirOperacion, Responder
<1>5. fase'[e] \in {"veredicto", "respuesta"} /\ resp'[e] = "CLAVE_BLOQUEADA" =>
        fase[e] \in {"veredicto", "respuesta"} /\ resp[e] = "CLAVE_BLOQUEADA"
  <2>1. CASE Esi(e)
    BY <1>1, <2>1
    DEF Esi, LeerLinea, RepetirLinea, FinDelScript, LineaInvalida, Terminar, Enviar
  <2>2. CASE Coordinador(e)
    BY <1>1, <2>2
    DEF Coordinador, RechazarSentencia, EliminarClave, ConsultarPlanificador,
        ProseguirOperacion, Responder
  <2> QED BY <2>1, <2>2
<1> QED BY <1>3, <1>4, <1>5, NegadoTranquilo, MotivosQuietos DEF IMotivos

LEMMA MotivosAtender ==
  ASSUME IMotivos, NEW e \in ESIs, LlegarEsi(e) \/ RecibirConsulta(e) \/ RecibirMensajeEsi(e)
  PROVE  (Motivos(plan) /\ NegadoConMotivo)'
<1>1. /\ plan \in Memoria /\ fase \in [ESIs -> Fases]
      /\ resp \in [ESIs -> Resultados \cup {"nada"}]
      /\ ~plan.fallo
  BY DEF IMotivos, IDuenos, IVivo, IInv, TypeOK, LlegarEsi, RecibirConsulta, RecibirMensajeEsi
<1>2. CASE LlegarEsi(e)
  <2>1. e \notin Llegados /\ plan' \in atender_nuevo_esi(plan, e)
    BY <1>2 DEF LlegarEsi, Llegados
  <2>2. Motivos(plan')
    BY <1>1, <2>1, NuevoMotivos DEF IMotivos
  <2>3. Ajena(plan, plan') /\ plan'.fallo = plan.fallo
    BY <1>1, <2>1, NuevoAjena
  <2>4. fase' = [fase EXCEPT ![e] = "espera"] /\ resp' = resp
    BY <1>2 DEF LlegarEsi
  <2> QED BY <1>1, <2>2, <2>3, <2>4, NegadoTranquilo DEF IMotivos
<1>3. CASE RecibirConsulta(e)
  <2> DEFINE k == linea[e].clave
             op == linea[e].op
  <2>1. /\ fase[e] = "consulta" /\ k \in Claves
        /\ resp'[e] = veredicto(plan, e, op, k)
        /\ plan' = recibir_mensaje_coordinador(plan, e, op, k)
        /\ \A f \in ESIs : f # e => fase'[f] = fase[f] /\ resp'[f] = resp[f]
    BY <1>1, <1>3 DEF RecibirConsulta, IMotivos, IDuenos, IVivo, IInv, LineaLeida
  <2> HIDE DEF k, op
  <2>2. /\ SinSoltar(plan, plan') /\ plan'.dueno = plan.dueno
        /\ op = "GET" => plan'.get_clave = k
    BY <1>1, <2>1 DEF recibir_mensaje_coordinador, SinSoltar, Memoria
  <2>3. ASSUME NEW f \in ESIs, f # e PROVE fase[f] \in {"afuera", "espera"}
    BY <1>1, <2>1, <2>3, SoloDelActual DEF IMotivos, IDuenos
  <2>4. resp'[e] = "CLAVE_BLOQUEADA" => op = "GET" /\ plan.dueno[k] # Libre
    BY <2>1 DEF veredicto, buscar_clave_bloqueada
  <2>5. NegadoConMotivo'
    BY <2>1, <2>2, <2>3, <2>4, ClavesDistintas DEF NegadoConMotivo
  <2> QED BY <2>2, <2>5, MotivosQuietos DEF IMotivos
<1>4. CASE RecibirMensajeEsi(e)
  <2>1. /\ fase[e] = "respuesta" /\ fase'[e] = "espera"
        /\ \A f \in ESIs : f # e => fase'[f] = fase[f]
        /\ plan' \in recibir_mensaje_esi(plan, e, resp[e])
    BY <1>1, <1>4 DEF RecibirMensajeEsi
  <2>2. ASSUME NEW f \in ESIs, f # e PROVE fase[f] \in {"afuera", "espera"}
    BY <1>1, <2>1, <2>2, SoloDelActual DEF IMotivos, IDuenos
  <2>3. NegadoConMotivo'
    BY <2>1, <2>2 DEF NegadoConMotivo
  <2>4. plan.exec = e /\ ~plan.bloqueo
    BY <1>1, <2>1, SoloDelActual DEF IMotivos, IDuenos, Reparto, SinEncargos
  <2>5. resp[e] = "CLAVE_BLOQUEADA" => plan.get_clave # Ninguna /\ plan.dueno[plan.get_clave] # Libre
    BY <1>1, <2>1 DEF IMotivos, NegadoConMotivo
  <2>6. Motivos(plan')
    BY <1>1, <2>1, <2>4, <2>5, MensajeMotivos DEF IMotivos
  <2> QED BY <2>3, <2>6
<1> QED BY <1>2, <1>3, <1>4

LEMMA MotivosConsola ==
  ASSUME IMotivos, ConsolaPausar \/ ConsolaContinuar
  PROVE  (Motivos(plan) /\ NegadoConMotivo)'
<1>1. plan \in Memoria /\ fase' = fase /\ resp' = resp
  BY DEF IMotivos, IDuenos, IVivo, IInv, TypeOK, ConsolaPausar, ConsolaContinuar
<1>2. SinSoltar(plan, plan') /\ Ajena(plan, plan') /\ plan'.fallo = plan.fallo
  <2>1. CASE ConsolaPausar
    BY <1>1, <2>1 DEF ConsolaPausar, consola_pausar, Memoria, SinSoltar, Ajena, Aplaza
  <2>2. CASE ConsolaContinuar
    <3> DEFINE p == [plan EXCEPT !.pausado = FALSE]
    <3>1. p \in Memoria /\ SinSoltar(plan, p) /\ Ajena(plan, p) /\ p.fallo = plan.fallo
      BY <1>1 DEF Memoria, SinSoltar, Ajena, Aplaza
    <3>2. plan' \in planificar(p)
      BY <2>2 DEF ConsolaContinuar, consola_continuar
    <3> HIDE DEF p
    <3> QED BY <3>1, <3>2, PlanificarAjena, FuncionesSinSoltar DEF SinSoltar, Ajena, Aplaza
  <2> QED BY <2>1, <2>2
<1> QED BY <1>1, <1>2, NegadoTranquilo, MotivosQuietos DEF IMotivos

LEMMA ConservaMotivos ==
  ASSUME PuedenCaer = {}, Comandos \subseteq {"pausar", "continuar"}, IMotivos, [Next]_vars
  PROVE  IMotivos'
<1>1. IDuenos' /\ Ubicados(plan, Llegados)'
  <2>1. IColas
    BY DEF IMotivos, IDuenos, IVivo, IColas
  <2> QED BY <2>1, ConservaDuenos, ConservaColas DEF IMotivos, IColas
<1>2. CASE UNCHANGED vars
  <2>1. plan' = plan /\ fase' = fase /\ resp' = resp
    BY <1>2 DEF vars
  <2>2. Motivos(plan')
    BY <2>1 DEF IMotivos
  <2>3. NegadoConMotivo'
    BY <2>1 DEF IMotivos, NegadoConMotivo
  <2> QED BY <1>1, <2>2, <2>3 DEF IMotivos
<1>3. CASE Next
  <2>1. ASSUME NEW e \in ESIs, Caer(e) PROVE FALSE
    BY <2>1 DEF Caer
  <2>2. ASSUME NEW e \in ESIs, RecibirDesconexion(e) \/ RecibirReset(e) PROVE FALSE
    BY <2>2 DEF RecibirDesconexion, RecibirReset, Conectado, IMotivos, IDuenos, IVivo, SinCaidas
  <2>3. ASSUME Consola PROVE (Motivos(plan) /\ NegadoConMotivo)'
    <3>1. ConsolaPausar \/ ConsolaContinuar
      BY <2>3 DEF Consola, ConsolaDesbloquear, ConsolaBloquear, ConsolaMatar, Comando
    <3> QED BY <3>1, MotivosConsola
  <2>4. (Motivos(plan) /\ NegadoConMotivo)'
    BY <1>3, <2>1, <2>2, <2>3, MotivosEsi, MotivosAtender DEF Next, Atender
  <2> QED BY <1>1, <2>4 DEF IMotivos
<1> QED BY <1>2, <1>3

\* No lost wake-up, when no ESI dies on its own and the operator only pauses and
\* continues: each ESI in esi_bloqueados waits for a key that is in
\* claves_bloqueadas, so that whoever unlocks it will find the ESI.
THEOREM NingunDespertarPerdido ==
  ASSUME PuedenCaer = {}, Comandos \subseteq {"pausar", "continuar"}
  PROVE  Spec => []EsperaConMotivo
<1>1. IMotivos /\ [Next]_vars => IMotivos'
  BY ConservaMotivos
<1>2. IMotivos => EsperaConMotivo
  BY ClavesDistintas DEF IMotivos, Motivos, EsperaConMotivo
<1>3. Init => IMotivos
  <2>1. ToSet(<<>>) = {}
    BY EmptySeq DEF ToSet
  <2> QED
    BY <2>1, InicioDuenos, InicioColas
    DEF Init, MemoriaInicial, IMotivos, IColas, Motivos, NegadoConMotivo
<1> QED BY <1>1, <1>2, <1>3, PTL DEF Spec

-------------------------------------------------------------------------------
(***************************************************************************)
(* Who keeps keys after its end, function by function.                     *)
(***************************************************************************)
\* The only finished ESIs that own a key are in A.
Herencia(p, A) == \A k \in Claves : p.dueno[k] \in p.terminados => p.dueno[k] \in A

\* A function that finishes nobody and gives no key to a finished ESI.
SinHerencia(p, q) ==
  /\ q.terminados = p.terminados
  /\ \A k \in Claves : q.dueno[k] = p.dueno[k] \/ q.dueno[k] \notin p.terminados

LEMMA HerenciaQuieta ==
  ASSUME NEW p, NEW q, NEW A, Herencia(p, A), SinHerencia(p, q)
  PROVE  Herencia(q, A)
  BY DEF Herencia, SinHerencia

LEMMA FuncionesSinHerencia ==
  ASSUME NEW p \in Memoria
  PROVE  /\ SinHerencia(p, Romper(p))
         /\ \A q \in planificar(p) : SinHerencia(p, q)
         /\ SinHerencia(p, aumentar_tiempo_espera_ready(p))
         /\ SinHerencia(p, enviar_esi_confirmacion_sentencia(p))
         /\ \A e \in ESIs : SinHerencia(p, sacar_de_colas(p, e))
         /\ \A e \in ESIs : \A q \in atender_nuevo_esi(p, e) : SinHerencia(p, q)
         /\ \A e \in ESIs : \A k : SinHerencia(p, bloquear_esi_pid(p, k, e))
         /\ \A e \in ESIs : \A k, op : SinHerencia(p, recibir_mensaje_coordinador(p, e, op, k))
<1>1. SinHerencia(p, Romper(p))
  BY DEF Romper, SinHerencia, Memoria
<1>2. ASSUME NEW q \in planificar(p) PROVE SinHerencia(p, q)
  BY DEF planificar, obtener_proximo_ejecucion, enviar_esi_confirmacion_sentencia, Memoria,
         SinHerencia
<1>3. SinHerencia(p, aumentar_tiempo_espera_ready(p))
  BY DEF aumentar_tiempo_espera_ready, Memoria, SinHerencia
<1>4. SinHerencia(p, enviar_esi_confirmacion_sentencia(p))
  BY DEF enviar_esi_confirmacion_sentencia, Memoria, SinHerencia
<1>5. ASSUME NEW e \in ESIs PROVE SinHerencia(p, sacar_de_colas(p, e))
  BY DEF sacar_de_colas, Memoria, SinHerencia
<1>6. ASSUME NEW e \in ESIs, NEW q \in atender_nuevo_esi(p, e) PROVE SinHerencia(p, q)
  <2> DEFINE l == Append(p.listos, e)
             c == [p.pcb EXCEPT ![e] = crear_esi]
             r == [p EXCEPT !.pcb = c, !.listos = l]
             s == pedir_desalojo(r, e)
             v == s.por_desalojar
  <2>1. l \in Seq(ESIs) /\ c \in [ESIs -> Pcb]
    BY AgregarAlFinal, EstimacionPositiva DEF Memoria, crear_esi, Pcb
  <2>2. q \in planificar(s)
    BY <1>6 DEF atender_nuevo_esi, Memoria
  <2> HIDE DEF l, c
  <2>3. r \in Memoria /\ r.terminados = p.terminados /\ r.dueno = p.dueno
    BY <2>1 DEF Memoria
  <2> HIDE DEF r
  <2>4. v \in ESIs \cup {Nadie} /\ s = [r EXCEPT !.por_desalojar = v]
    BY <2>3, PedirDesalojo
  <2> HIDE DEF v, s
  <2>5. s \in Memoria /\ s.terminados = p.terminados /\ s.dueno = p.dueno
    BY <2>3, <2>4 DEF Memoria
  <2>6. q.terminados = s.terminados /\ q.dueno = s.dueno
    BY <2>2, <2>5
    DEF planificar, obtener_proximo_ejecucion, enviar_esi_confirmacion_sentencia, Memoria
  <2> QED BY <2>5, <2>6 DEF SinHerencia
<1>7. ASSUME NEW e \in ESIs, NEW k PROVE SinHerencia(p, bloquear_esi_pid(p, k, e))
  BY DEF bloquear_esi_pid, Memoria, SinHerencia
<1>8. ASSUME NEW e \in ESIs, NEW k, NEW op
      PROVE  SinHerencia(p, recibir_mensaje_coordinador(p, e, op, k))
  BY DEF recibir_mensaje_coordinador, Memoria, SinHerencia
<1> QED BY <1>1, <1>2, <1>3, <1>4, <1>5, <1>6, <1>7, <1>8

LEMMA DesbloquearHerencia ==
  ASSUME NEW p \in Memoria, NEW k \in Claves
  PROVE  SinHerencia(p, desbloquear_clave(p, k))
<1> DEFINE espera == EsperanClave(p, k)
           i == Min(espera)
           e == p.bloqueados[i]
           q0 == [p EXCEPT !.bloqueados = RemoveAt(p.bloqueados, i),
                           !.pcb[e] = Despertado(p.pcb[e])]
           r == [pedir_desalojo(q0, e) EXCEPT !.listos = Append(p.listos, e)]
           r1 == [r EXCEPT !.dueno[k] = Libre]
           s == [p EXCEPT !.dueno[k] = Libre]
<1>1. Libre \notin p.terminados
  BY PidsDistintos DEF Memoria
<1>2. SinHerencia(p, s)
  BY <1>1 DEF Memoria, SinHerencia
<1>3. desbloquear_clave(p, k) \in {p, Romper(p), s, r, r1}
  BY DEF desbloquear_clave
<1> HIDE DEF e, i
<1>4. /\ r.terminados = p.terminados /\ r.dueno = p.dueno
      /\ r1.terminados = p.terminados /\ r1.dueno = [p.dueno EXCEPT ![k] = Libre]
  BY DEF pedir_desalojo, Memoria
<1> HIDE DEF r, r1, s
<1>5. SinHerencia(p, r) /\ SinHerencia(p, r1)
  BY <1>1, <1>4 DEF SinHerencia, Memoria
<1>6. SinHerencia(p, p) /\ SinHerencia(p, Romper(p))
  BY DEF SinHerencia, Romper, Memoria
<1> QED BY <1>2, <1>3, <1>5, <1>6

\* A key goes to the running ESI or to a ready one: neither has finished.
LEMMA BloquearHerencia ==
  ASSUME NEW p \in Memoria, NEW S, Ubicados(p, S), ~p.fallo, NEW k, NEW e \in ESIs
  PROVE  SinHerencia(p, bloquear_clave(p, k, e))
<1> DEFINE d == IF e = p.exec \/ e \in ToSet(p.listos) THEN e ELSE Sistema
           q == [p EXCEPT !.dueno[k] = d]
<1>1. d \notin p.terminados
  BY PidsDistintos DEF Ubicados, Presentes, Memoria
<1> HIDE DEF d
<1>2. SinHerencia(p, q)
  BY <1>1 DEF SinHerencia, Memoria
<1>3. bloquear_clave(p, k, e) \in {p, q}
  BY DEF bloquear_clave, d
<1>4. SinHerencia(p, p)
  BY DEF SinHerencia
<1> QED BY <1>2, <1>3, <1>4

\* After the release, e owns nothing.
LEMMA LiberarHerencia ==
  ASSUME NEW p \in Memoria, NEW e \in ESIs, NEW q \in desbloquear_claves_bloqueadas_pid(p, e)
  PROVE  SinHerencia(p, q) /\ (~q.fallo => \A k \in Claves : q.dueno[k] # e)
<1> DEFINE D == Despertados(p, e)
           d0 == [k \in Claves |-> IF p.dueno[k] = e THEN Libre ELSE p.dueno[k]]
<1>0. Libre # e /\ Libre \notin p.terminados
  BY PidsDistintos DEF Memoria
<1>1. CASE q = p /\ ClavesDe(p, e) = {}
  BY <1>1 DEF SinHerencia, ClavesDe
<1>2. CASE q = Romper(p)
  BY <1>2 DEF Romper, SinHerencia, Memoria
<1>3. ASSUME NEW fila, NEW resto, q = Liberadas(p, e, fila, resto)
      PROVE  SinHerencia(p, q) /\ \A k \in Claves : q.dueno[k] # e
  <2>1. q.dueno = d0 /\ q.terminados = p.terminados
    <3> DEFINE a == SinClavesDe(p, e)
    <3>1. a.dueno = d0 /\ a.terminados = p.terminados /\ DOMAIN a = DOMAIN p
      BY DEF SinClavesDe, Memoria
    <3> HIDE DEF a, d0
    <3> DEFINE b == ConDesalojo(a, fila)
    <3>2. b.dueno = d0 /\ b.terminados = p.terminados /\ DOMAIN b = DOMAIN p
      BY <3>1 DEF ConDesalojo, Memoria
    <3> HIDE DEF b
    <3> QED BY <1>3, <3>2 DEF Liberadas, Memoria, a, b
  <2> QED BY <1>0, <2>1 DEF SinHerencia
<1> QED BY <1>1, <1>2, <1>3 DEF desbloquear_claves_bloqueadas_pid

\* An ESI that is finished keeps its keys only if they are not released.
LEMMA FinalizarHerencia ==
  ASSUME NEW p \in Memoria, NEW A, Herencia(p, A), NEW e \in ESIs,
         NEW l \in BOOLEAN, NEW q \in finalizar_esi(p, e, l)
  PROVE  /\ l => Herencia(q, A)
         /\ Herencia(q, A \cup {e})
         /\ q.terminados \subseteq p.terminados \cup {e}
<1> DEFINE c == sacar_de_colas(p, e)
<1>1. CASE q = p
  BY <1>1 DEF Herencia
<1>2. ASSUME NEW r \in {c} \cup desbloquear_claves_bloqueadas_pid(c, e),
             l => r \in desbloquear_claves_bloqueadas_pid(c, e),
             q = pasar_a_terminados(r, e), c \in Memoria
      PROVE  /\ l => Herencia(q, A)
             /\ Herencia(q, A \cup {e})
             /\ q.terminados \subseteq p.terminados \cup {e}
  <2>1. SinHerencia(p, c) /\ (r = c \/ r \in desbloquear_claves_bloqueadas_pid(c, e))
    BY <1>2, FuncionesSinHerencia
  <2> HIDE DEF c
  <2>2. SinHerencia(c, r) /\ r \in Memoria
    BY <1>2, <2>1, LiberarHerencia, Liberar DEF SinHerencia, Deriva
  <2>3. Herencia(r, A) /\ r.terminados = p.terminados
    BY <2>1, <2>2, HerenciaQuieta DEF SinHerencia
  <2>4. l /\ ~r.fallo => \A k \in Claves : r.dueno[k] # e
    BY <1>2, LiberarHerencia
  <2>5. CASE r.fallo
    BY <1>2, <2>3, <2>5 DEF pasar_a_terminados, Herencia
  <2>6. CASE ~r.fallo
    <3>1. q.dueno = r.dueno /\ q.terminados = r.terminados \cup {e}
      BY <1>2, <2>2, <2>6 DEF pasar_a_terminados, Memoria
    <3> QED BY <2>3, <2>4, <2>6, <3>1 DEF Herencia
  <2> QED BY <2>5, <2>6
<1>3. EnSistema(p, e) => c \in Memoria
  BY SacarDeColas DEF Deriva
<1> QED BY <1>1, <1>2, <1>3 DEF finalizar_esi

LEMMA CorrectoHerencia ==
  ASSUME NEW p \in Memoria, NEW S, Ubicados(p, S), NEW A, Herencia(p, A), p.exec # Nadie,
         ~p.fallo, NEW q \in resultado_correcto(p)
  PROVE  Herencia(q, A)
<1> DEFINE c1 == [p EXCEPT !.pcb[p.exec] = [sentencia_contada(@) EXCEPT !.repetir = FALSE]]
           c2 == IF c1.bloqueo THEN confirmar_bloqueo_ejecucion(c1) ELSE c1
           c3 == IF c2.por_get THEN confirmar_bloqueo_por_get(c2) ELSE c2
           c4 == IF ~c3.fallo /\ c3.store_clave # Ninguna
                 THEN confirmar_desbloqueo_por_store(c3) ELSE c3
           c5 == IF ~c4.fallo /\ c4.pausado THEN confirmar_pausa_por_consola(c4) ELSE c4
           C6 == IF ~c5.fallo /\ c5.kill THEN confirmar_kill_ejecucion(c5) ELSE {c5}
           c7(c) == IF ~c.fallo /\ c.por_desalojar # Nadie
                    THEN confirmar_desalojo_ejecucion(c) ELSE c
           c8(c) == IF ~c.fallo /\ c.exec # Nadie
                    THEN enviar_esi_confirmacion_sentencia(c) ELSE c
           D(c) == c \in Memoria /\ Ubicados(c, S) /\ Herencia(c, A)
<1>1. PICK c6 \in C6 : q = c8(c7(c6))
  BY DEF resultado_correcto
<1>2. D(c1) /\ c1.exec = p.exec /\ ~c1.fallo
  <2> DEFINE f == [sentencia_contada(p.pcb[p.exec]) EXCEPT !.repetir = FALSE]
  <2>1. p.exec \in ESIs /\ p.pcb \in [ESIs -> Pcb] /\ p.pcb[p.exec] \in Pcb
    BY DEF Memoria
  <2>2. sentencia_contada(p.pcb[p.exec]) \in Pcb
    BY <2>1, Ficha
  <2>3. f \in Pcb
    BY <2>2 DEF Pcb
  <2>4. c1 = [p EXCEPT !.pcb = [p.pcb EXCEPT ![p.exec] = f]]
    BY DEF Memoria
  <2> HIDE DEF f, c1
  <2>5. c1 \in Memoria /\ NadieSeMueve(p, c1) /\ SinHerencia(p, c1) /\ c1.fallo = p.fallo
    BY <2>1, <2>3, <2>4 DEF Memoria, NadieSeMueve, SinHerencia
  <2> QED BY <2>5, UbicadosQuietos, HerenciaQuieta DEF NadieSeMueve
<1> HIDE DEF c1
<1>3. D(c2) /\ ~c2.fallo
  <2> DEFINE b == confirmar_bloqueo_ejecucion(c1)
  <2>1. SinHerencia(c1, b) /\ b.fallo = c1.fallo
    BY <1>2 DEF confirmar_bloqueo_ejecucion, SinHerencia, Memoria
  <2>2. b \in Memoria /\ Ubicados(b, S)
    BY <1>2, ConfirmarBloqueo, ConfirmarUbica DEF Deriva
  <2> HIDE DEF b
  <2>3. c2 \in {b, c1}
    BY DEF b
  <2> QED BY <1>2, <2>1, <2>2, <2>3, HerenciaQuieta
<1> HIDE DEF c2
<1>4. D(c3)
  <2> DEFINE m == bloquear_clave(c2, c2.get_clave, c2.get_pid)
             b == [m EXCEPT !.por_get = FALSE, !.get_clave = Ninguna, !.get_pid = Nadie]
  <2>1. c3 \in Memoria /\ Ubicados(c3, S)
    BY <1>3, ConfirmarGet, ConfirmarUbica DEF Deriva
  <2>2. c2.get_pid # Nadie => m \in Memoria /\ SinHerencia(c2, m)
    BY <1>3, BloquearClave, BloquearHerencia DEF Memoria, Deriva
  <2>3. c3 = c2 \/ c3 = Romper(c2) \/ (c2.get_pid # Nadie /\ c3 = b)
    BY DEF confirmar_bloqueo_por_get
  <2> HIDE DEF m
  <2>4. c2.get_pid # Nadie => SinHerencia(c2, b)
    BY <2>2 DEF SinHerencia, Memoria
  <2> HIDE DEF b
  <2>5. SinHerencia(c2, c2) /\ SinHerencia(c2, Romper(c2))
    BY <1>3 DEF SinHerencia, Romper, Memoria
  <2> HIDE DEF c3
  <2> QED BY <1>3, <2>1, <2>3, <2>4, <2>5, HerenciaQuieta
<1> HIDE DEF c3
<1>5. D(c4)
  <2> DEFINE m == desbloquear_clave(c3, c3.store_clave)
             b == [m EXCEPT !.store_clave = Ninguna]
  <2>1. c4 \in Memoria /\ Ubicados(c4, S)
    BY <1>4, ConfirmarStore, ConfirmarUbica DEF Deriva
  <2>2. c3.store_clave # Ninguna => m \in Memoria /\ SinHerencia(c3, m)
    BY <1>4, DesbloquearClave, DesbloquearHerencia DEF Memoria, Deriva
  <2>3. c4 = c3 \/ (c3.store_clave # Ninguna /\ c4 = b)
    BY DEF confirmar_desbloqueo_por_store
  <2> HIDE DEF m, c4
  <2>4. c3.store_clave # Ninguna => SinHerencia(c3, b)
    BY <2>2 DEF SinHerencia, Memoria
  <2> HIDE DEF b
  <2> QED BY <1>4, <2>1, <2>3, <2>4, HerenciaQuieta
<1> HIDE DEF c4
<1>6. D(c5)
  <2>1. c5 \in Memoria /\ Ubicados(c5, S)
    BY <1>5, ConfirmarPausa, ConfirmarUbica DEF Deriva
  <2>2. SinHerencia(c4, c5)
    BY <1>5 DEF confirmar_pausa_por_consola, Romper, SinHerencia, Memoria
  <2> HIDE DEF c5
  <2> QED BY <1>5, <2>1, <2>2, HerenciaQuieta
<1> HIDE DEF c5
<1>7. D(c6)
  <2>1. CASE c6 = c5
    BY <1>6, <2>1
  <2>2. CASE c6 = Romper(c5)
    <3>1. NadieSeMueve(c5, Romper(c5)) /\ SinHerencia(c5, Romper(c5))
      BY <1>6 DEF Romper, NadieSeMueve, SinHerencia, Memoria
    <3> QED BY <1>6, <2>2, <3>1, DerivaRomper, UbicadosQuietos, HerenciaQuieta DEF Deriva
  <2>3. CASE c5.exec # Nadie /\ c6 \in finalizar_esi(c5, c5.exec, TRUE)
    <3>1. c5.exec \in ESIs
      BY <1>6, <2>3 DEF Memoria
    <3> QED BY <1>6, <2>3, <3>1, FinalizarEsi, FinalizarUbica, FinalizarHerencia DEF Deriva
  <2> QED BY <1>1, <2>1, <2>2, <2>3 DEF confirmar_kill_ejecucion
<1> HIDE DEF C6
<1>8. D(c7(c6))
  <2> DEFINE d == c7(c6)
  <2>1. d \in Memoria /\ Ubicados(d, S)
    BY <1>7, ConfirmarDesalojo, ConfirmarUbica DEF Deriva
  <2>2. SinHerencia(c6, d)
    BY <1>7 DEF confirmar_desalojo_ejecucion, Romper, SinHerencia, Memoria
  <2> HIDE DEF d
  <2>3. D(d)
    BY <1>7, <2>1, <2>2, HerenciaQuieta
  <2> QED BY <2>3 DEF d
<1> HIDE DEF c7
<1>9. SinHerencia(c7(c6), c8(c7(c6)))
  BY <1>8 DEF enviar_esi_confirmacion_sentencia, SinHerencia, Memoria
<1> QED BY <1>1, <1>8, <1>9, HerenciaQuieta

LEMMA MensajeHerencia ==
  ASSUME NEW p \in Memoria, NEW S, Ubicados(p, S), NEW A, Herencia(p, A), NEW e \in ESIs,
         p.exec = e, ~p.fallo,
         NEW resultado \in Resultados, NEW q \in recibir_mensaje_esi(p, e, resultado)
  PROVE  /\ resultado # "ABORTAR" => Herencia(q, A)
         /\ Herencia(q, A \cup {e})
<1>1. PICK r \in procesar_resultado(p, e, resultado) :
        q \in planificar(aumentar_tiempo_espera_ready(r))
  BY DEF recibir_mensaje_esi
<1> DEFINE s == aumentar_tiempo_espera_ready(r)
<1>2. r \in Memoria /\ p.exec # Nadie
  BY ProcesarResultado, PidsDistintos DEF Deriva
<1>3. (resultado # "ABORTAR" => Herencia(r, A)) /\ Herencia(r, A \cup {e})
  <2>1. CASE r \in resultado_correcto(p)
    <3>1. Herencia(r, A)
      BY <1>2, <2>1, CorrectoHerencia
    <3> QED BY <3>1 DEF Herencia
  <2>2. CASE \E l \in BOOLEAN : r \in finalizar_esi(p, e, l) /\ (resultado = "ABORTAR" \/ l)
    BY <2>2, FinalizarHerencia
  <2>3. CASE r = resultado_clave_bloqueada(p, e)
    <3>1. SinHerencia(p, r)
      BY <2>3 DEF resultado_clave_bloqueada, Romper, SinHerencia, Memoria
    <3>2. Herencia(r, A)
      BY <3>1, HerenciaQuieta
    <3> QED BY <3>2 DEF Herencia
  <2> QED BY <1>2, <2>1, <2>2, <2>3 DEF procesar_resultado, Resultados
<1>4. s \in Memoria /\ SinHerencia(r, s)
  BY <1>2, AumentarEspera, FuncionesSinHerencia DEF Deriva
<1> HIDE DEF s
<1>5. SinHerencia(s, q)
  BY <1>1, <1>4, FuncionesSinHerencia DEF s
<1> QED BY <1>3, <1>4, <1>5, HerenciaQuieta

LEMMA DesconexionHerencia ==
  ASSUME NEW p \in Memoria, NEW A, Herencia(p, A), NEW e \in ESIs,
         NEW q \in recibir_desconexion_esi(p, e)
  PROVE  Herencia(q, A)
<1>1. PICK r \in planificar(p) :
        \E s \in finalizar_esi(r, e, TRUE) : q \in planificar(s)
  BY DEF recibir_desconexion_esi
<1>2. PICK s \in finalizar_esi(r, e, TRUE) : q \in planificar(s)
  BY <1>1
<1>3. r \in Memoria /\ Herencia(r, A)
  BY Planificar, FuncionesSinHerencia, HerenciaQuieta DEF Deriva
<1>4. s \in Memoria /\ Herencia(s, A)
  BY <1>3, FinalizarEsi, FinalizarHerencia DEF Deriva
<1> QED BY <1>2, <1>4, FuncionesSinHerencia, HerenciaQuieta

LEMMA ConsolaHerencia ==
  ASSUME NEW p \in Memoria, NEW S, Ubicados(p, S), ~p.fallo, NEW A, Herencia(p, A), NEW q,
         \/ q = consola_pausar(p) \/ q \in consola_continuar(p)
         \/ \E k \in Claves : q \in consola_desbloquear_clave(p, k)
         \/ \E k \in Claves, e \in ESIs : q = consola_bloquear_clave(p, k, e)
         \/ \E e \in ESIs : q \in consola_matar_proceso(p, e)
  PROVE  Herencia(q, A)
<1>1. ASSUME NEW r \in Memoria, SinHerencia(p, r), q \in planificar(r) PROVE Herencia(q, A)
  BY <1>1, FuncionesSinHerencia, HerenciaQuieta
<1>2. ASSUME NEW b \in BOOLEAN
      PROVE  LET r == [p EXCEPT !.pausado = b] IN r \in Memoria /\ SinHerencia(p, r)
  BY DEF Memoria, SinHerencia
<1>3. CASE q = consola_pausar(p)
  BY <1>2, <1>3, HerenciaQuieta DEF consola_pausar
<1>4. CASE q \in consola_continuar(p)
  BY <1>1, <1>2, <1>4 DEF consola_continuar
<1>5. ASSUME NEW k \in Claves, q \in consola_desbloquear_clave(p, k) PROVE Herencia(q, A)
  BY <1>1, <1>5, DesbloquearClave, DesbloquearHerencia DEF consola_desbloquear_clave, Deriva
<1>6. ASSUME NEW k \in Claves, NEW e \in ESIs, q = consola_bloquear_clave(p, k, e)
      PROVE  Herencia(q, A)
  BY <1>6, BloquearHerencia, FuncionesSinHerencia, HerenciaQuieta DEF consola_bloquear_clave
<1>7. ASSUME NEW e \in ESIs, q \in consola_matar_proceso(p, e) PROVE Herencia(q, A)
  <2>1. CASE e = p.exec
    <3>1. SinHerencia(p, q)
      BY <1>7, <2>1 DEF consola_matar_proceso, SinHerencia, Memoria
    <3> QED BY <3>1, HerenciaQuieta
  <2>2. CASE e # p.exec
    <3>1. PICK r \in finalizar_esi(p, e, TRUE) : q \in planificar(r)
      BY <1>7, <2>2 DEF consola_matar_proceso
    <3>2. r \in Memoria /\ Herencia(r, A)
      BY FinalizarEsi, FinalizarHerencia DEF Deriva
    <3> QED BY <3>1, <3>2, FuncionesSinHerencia, HerenciaQuieta
  <2> QED BY <2>1, <2>2
<1> QED BY <1>3, <1>4, <1>5, <1>6, <1>7

-------------------------------------------------------------------------------
(***************************************************************************)
(* Who keeps keys after its end, in the system.                            *)
(***************************************************************************)
Abortados == {e \in plan.terminados : fin[e] = "aborto"}

\* A result is what its name says, and no connection is reset: the keys of an ESI
\* are then kept only when it reports ABORTAR.
Contestado ==
  \A e \in ESIs : /\ proceso[e] # "reset"
                  /\ fase[e] \in {"veredicto", "respuesta"} => resp[e] \in Resultados

IHerencia == IColas /\ Contestado /\ DuenoVivo

LEMMA HerenciaPlan ==
  ASSUME IHerencia
  PROVE  /\ plan \in Memoria /\ fase \in [ESIs -> Fases]
         /\ resp \in [ESIs -> Resultados \cup {"nada"}]
         /\ proceso \in [ESIs -> {"vivo", "cerrado", "reset"}]
         /\ Ubicados(plan, Llegados) /\ Herencia(plan, Abortados)
  BY DEF IHerencia, IColas, IInv, TypeOK, DuenoVivo, Herencia, Abortados

\* What is recorded of an ESI that had ended does not change.
LEMMA DuenoVivoSigue ==
  ASSUME NEW motivo, Herencia(plan', Abortados), Anotar(motivo) \/ fin' = fin,
         plan \in Memoria
  PROVE  DuenoVivo'
<1>1. plan.terminados \subseteq ESIs
  BY DEF Memoria
<1> QED BY <1>1 DEF Herencia, Abortados, Anotar, DuenoVivo

LEMMA HerenciaEsi ==
  ASSUME IHerencia, NEW e \in ESIs, Esi(e) \/ Coordinador(e)
  PROVE  Contestado' /\ DuenoVivo'
<1>1. /\ plan \in Memoria /\ fase \in [ESIs -> Fases] /\ Herencia(plan, Abortados)
      /\ resp \in [ESIs -> Resultados \cup {"nada"}]
      /\ proceso \in [ESIs -> {"vivo", "cerrado", "reset"}]
  BY HerenciaPlan
<1>2. fin' = fin /\ (plan' = plan \/ plan' = [plan EXCEPT !.orden = plan.orden \ {e}])
  BY <1>1
  DEF Memoria, Esi, Coordinador, LeerLinea, RepetirLinea, FinDelScript, LineaInvalida,
      TomaOrden, RechazarSentencia, EliminarClave, ConsultarPlanificador, ProseguirOperacion,
      Responder
<1>3. SinHerencia(plan, plan')
  BY <1>1, <1>2 DEF SinHerencia, Memoria
<1>4. DuenoVivo'
  BY <1>1, <1>2, <1>3, HerenciaQuieta, DuenoVivoSigue
<1>5. Contestado'
  <2>1. \A f \in ESIs : f # e =>
          fase'[f] = fase[f] /\ resp'[f] = resp[f] /\ proceso'[f] = proceso[f]
    BY <1>1
    DEF Esi, Coordinador, LeerLinea, RepetirLinea, FinDelScript, LineaInvalida, Terminar, Enviar,
        RechazarSentencia, EliminarClave, ConsultarPlanificador, ProseguirOperacion, Responder
  <2>2. CASE Esi(e)
    <3>1. /\ fase'[e] = "sentencia" /\ proceso' = proceso
          \/ /\ resp'[e] \in {"LISTO", "ABORTAR"} /\ proceso'[e] = "cerrado"
      BY <1>1, <2>2
      DEF Esi, LeerLinea, RepetirLinea, FinDelScript, LineaInvalida, Terminar, Enviar
    <3> QED BY <2>1, <3>1 DEF Contestado, IHerencia, Resultados
  <2>3. CASE Coordinador(e)
    <3>1. \/ fase'[e] \in {"consulta", "espera"} /\ proceso' = proceso
          \/ resp'[e] \in Resultados /\ proceso'[e] \in {"vivo", "cerrado"}
      BY <1>1, <2>3
      DEF Coordinador, RechazarSentencia, EliminarClave, ConsultarPlanificador,
          ProseguirOperacion, Responder, Contestado, IHerencia, Resultados
    <3> QED BY <2>1, <3>1 DEF Contestado, IHerencia
  <2> QED BY <2>2, <2>3
<1> QED BY <1>4, <1>5

LEMMA HerenciaMensaje ==
  ASSUME IHerencia, NEW e \in ESIs, RecibirMensajeEsi(e)
  PROVE  Contestado' /\ DuenoVivo'
<1>1. /\ plan \in Memoria /\ Ubicados(plan, Llegados) /\ Herencia(plan, Abortados)
      /\ ~plan.fallo /\ fase[e] = "respuesta" /\ e \notin plan.terminados
      /\ plan' \in recibir_mensaje_esi(plan, e, resp[e])
      /\ proceso' = proceso /\ fase'[e] = "espera"
      /\ \A f \in ESIs : f # e => fase'[f] = fase[f] /\ resp'[f] = resp[f]
  BY HerenciaPlan DEF RecibirMensajeEsi, Conectado
<1>2. plan.exec = e /\ resp[e] \in Resultados
  BY <1>1
  DEF IHerencia, IColas, IInv, UnoEnEjecucion, Contestado, Conectado
<1>3. Contestado'
  BY <1>1 DEF IHerencia, Contestado
<1>4. CASE resp[e] # "ABORTAR"
  <2>1. Herencia(plan', Abortados)
    BY <1>1, <1>2, <1>4, MensajeHerencia
  <2> QED BY <1>1, <1>3, <2>1, DuenoVivoSigue DEF RecibirMensajeEsi
<1>5. CASE resp[e] = "ABORTAR"
  <2>1. Herencia(plan', Abortados \cup {e})
    BY <1>1, <1>2, MensajeHerencia
  <2>2. fin' = [f \in ESIs |-> IF f \in plan'.terminados \ plan.terminados THEN "aborto" ELSE fin[f]]
    BY <1>5 DEF RecibirMensajeEsi, Anotar
  <2>3. plan.terminados \subseteq ESIs
    BY <1>1 DEF Memoria
  <2>4. DuenoVivo'
    BY <1>1, <2>1, <2>2, <2>3 DEF Herencia, Abortados, DuenoVivo
  <2> QED BY <1>3, <2>4
<1> QED BY <1>4, <1>5

LEMMA HerenciaAtender ==
  ASSUME IHerencia, NEW e \in ESIs, LlegarEsi(e) \/ RecibirConsulta(e) \/ RecibirDesconexion(e)
  PROVE  Contestado' /\ DuenoVivo'
<1>1. /\ plan \in Memoria /\ Ubicados(plan, Llegados) /\ Herencia(plan, Abortados)
      /\ fase \in [ESIs -> Fases] /\ resp \in [ESIs -> Resultados \cup {"nada"}]
  BY HerenciaPlan
<1>2. CASE LlegarEsi(e)
  <2>1. SinHerencia(plan, plan') /\ fin' = fin
    BY <1>1, <1>2, FuncionesSinHerencia DEF LlegarEsi
  <2>2. Contestado'
    BY <1>1, <1>2 DEF LlegarEsi, Contestado, IHerencia
  <2> QED BY <1>1, <2>1, <2>2, HerenciaQuieta, DuenoVivoSigue
<1>3. CASE RecibirConsulta(e)
  <2>1. SinHerencia(plan, plan') /\ fin' = fin
    BY <1>1, <1>3, FuncionesSinHerencia DEF RecibirConsulta
  <2>2. resp'[e] \in Resultados
    BY <1>1, <1>3 DEF RecibirConsulta, veredicto, Resultados
  <2>3. Contestado'
    BY <1>1, <1>3, <2>2 DEF RecibirConsulta, Contestado, IHerencia
  <2> QED BY <1>1, <2>1, <2>3, HerenciaQuieta, DuenoVivoSigue
<1>4. CASE RecibirDesconexion(e)
  <2>1. Herencia(plan', Abortados)
    BY <1>1, <1>4, DesconexionHerencia DEF RecibirDesconexion
  <2>2. Contestado'
    BY <1>4 DEF RecibirDesconexion, Contestado, IHerencia
  <2> QED BY <1>1, <1>4, <2>1, <2>2, DuenoVivoSigue DEF RecibirDesconexion
<1> QED BY <1>2, <1>3, <1>4

LEMMA HerenciaConsola ==
  ASSUME IHerencia, Consola
  PROVE  Contestado' /\ DuenoVivo'
<1>1. plan \in Memoria /\ Ubicados(plan, Llegados) /\ Herencia(plan, Abortados)
  BY HerenciaPlan
<1>2. ~plan.fallo /\ (fin' = fin \/ Anotar("kill"))
  BY DEF Consola, ConsolaPausar, ConsolaContinuar, ConsolaDesbloquear, ConsolaBloquear,
         ConsolaMatar, Comando
<1>3. Contestado'
  BY DEF Consola, ConsolaPausar, ConsolaContinuar, ConsolaDesbloquear, ConsolaBloquear,
         ConsolaMatar, Contestado, IHerencia
<1>4. \/ plan' = consola_pausar(plan) \/ plan' \in consola_continuar(plan)
      \/ \E k \in Claves : plan' \in consola_desbloquear_clave(plan, k)
      \/ \E k \in Claves, e \in ESIs : plan' = consola_bloquear_clave(plan, k, e)
      \/ \E e \in ESIs : plan' \in consola_matar_proceso(plan, e)
  BY DEF Consola, ConsolaPausar, ConsolaContinuar, ConsolaDesbloquear, ConsolaBloquear,
         ConsolaMatar
<1>5. Herencia(plan', Abortados)
  BY <1>1, <1>2, <1>4, ConsolaHerencia
<1> QED BY <1>1, <1>2, <1>3, <1>5, DuenoVivoSigue

LEMMA ConservaHerencia ==
  ASSUME PuedenCaer = {}, IHerencia, [Next]_vars
  PROVE  IHerencia'
<1>1. IColas'
  BY ConservaColas DEF IHerencia
<1>2. CASE UNCHANGED vars
  <2>1. DuenoVivo' /\ Contestado'
    BY <1>2 DEF vars, IHerencia, DuenoVivo, Contestado
  <2> QED BY <1>1, <2>1 DEF IHerencia
<1>3. CASE Next
  <2>1. ASSUME NEW e \in ESIs, Caer(e) \/ RecibirReset(e) PROVE FALSE
    BY <2>1 DEF Caer, RecibirReset, IHerencia, Contestado
  <2>2. Contestado' /\ DuenoVivo'
    BY <1>3, <2>1, HerenciaEsi, HerenciaMensaje, HerenciaAtender, HerenciaConsola
    DEF Next, Atender
  <2> QED BY <1>1, <2>2 DEF IHerencia
<1> QED BY <1>2, <1>3

\* When no ESI dies on its own, whatever the operator kills, blocks or unblocks and
\* whatever Instancia fails: finalizar_esi leaves no key to the ESI it finishes,
\* but for one that reports ABORTAR.
THEOREM SoloElAbortadoRetiene == ASSUME PuedenCaer = {} PROVE Spec => []DuenoVivo
<1>1. IHerencia /\ [Next]_vars => IHerencia'
  BY ConservaHerencia
<1>2. IHerencia => DuenoVivo
  BY DEF IHerencia
<1>3. Init => IHerencia
  BY InicioColas DEF Init, MemoriaInicial, IHerencia, Contestado, DuenoVivo
<1> QED BY <1>1, <1>2, <1>3, PTL DEF Spec

-------------------------------------------------------------------------------
(***************************************************************************)
(* How a key leaves its owner.                                             *)
(***************************************************************************)
LEMMA FinalizarSuelta ==
  ASSUME NEW p \in Memoria, NEW e \in ESIs, NEW l \in BOOLEAN, ~p.fallo,
         NEW q \in finalizar_esi(p, e, l)
  PROVE  q.dueno = p.dueno \/ e \in q.terminados
<1> DEFINE c == sacar_de_colas(p, e)
<1>1. CASE ~EnSistema(p, e)
  BY <1>1 DEF finalizar_esi
<1>2. c \in Memoria /\ c.dueno = p.dueno /\ ~c.fallo
  <2>1. c \in Memoria
    BY SacarDeColas DEF Deriva
  <2> QED BY <2>1 DEF sacar_de_colas, Memoria
<1> HIDE DEF c
<1>3. ASSUME NEW r \in {c} \cup desbloquear_claves_bloqueadas_pid(c, e),
             q = pasar_a_terminados(r, e)
      PROVE  q.dueno = p.dueno \/ e \in q.terminados
  <2>1. r \in Memoria
    BY <1>2, <1>3, Liberar DEF Deriva
  <2>2. r.dueno = p.dueno \/ ~r.fallo
    <3>1. CASE r \in {c, Romper(c)}
      BY <1>2, <3>1 DEF Romper, Memoria
    <3>2. ASSUME NEW fila, NEW resto, r = Liberadas(c, e, fila, resto) PROVE ~r.fallo
      BY <1>2, <3>2 DEF Liberadas, ConDesalojo, SinClavesDe, Memoria
    <3> QED BY <1>3, <3>1, <3>2 DEF desbloquear_claves_bloqueadas_pid
  <2>3. q.dueno = r.dueno /\ (~r.fallo => e \in q.terminados)
    BY <1>3, <2>1 DEF pasar_a_terminados, Memoria
  <2> QED BY <2>2, <2>3
<1> QED BY <1>1, <1>3 DEF finalizar_esi, c

\* A CORRECTO takes from an ESI only the key of the pending STORE.
LEMMA CorrectoSuelta ==
  ASSUME NEW p \in Memoria, p.exec # Nadie, ~p.bloqueo, ~p.kill,
         NEW q \in resultado_correcto(p), NEW k \in Claves, p.dueno[k] \in ESIs,
         k # p.store_clave
  PROVE  q.dueno[k] = p.dueno[k]
<1> DEFINE c1 == [p EXCEPT !.pcb[p.exec] = [sentencia_contada(@) EXCEPT !.repetir = FALSE]]
           c2 == IF c1.bloqueo THEN confirmar_bloqueo_ejecucion(c1) ELSE c1
           c3 == IF c2.por_get THEN confirmar_bloqueo_por_get(c2) ELSE c2
           c4 == IF ~c3.fallo /\ c3.store_clave # Ninguna
                 THEN confirmar_desbloqueo_por_store(c3) ELSE c3
           c5 == IF ~c4.fallo /\ c4.pausado THEN confirmar_pausa_por_consola(c4) ELSE c4
           C6 == IF ~c5.fallo /\ c5.kill THEN confirmar_kill_ejecucion(c5) ELSE {c5}
           c7(c) == IF ~c.fallo /\ c.por_desalojar # Nadie
                    THEN confirmar_desalojo_ejecucion(c) ELSE c
           c8(c) == IF ~c.fallo /\ c.exec # Nadie
                    THEN enviar_esi_confirmacion_sentencia(c) ELSE c
           R(c) == c \in Memoria /\ c.dueno[k] = p.dueno[k] /\ ~c.bloqueo /\ ~c.kill
<1>1. PICK c6 \in C6 : q = c8(c7(c6))
  BY DEF resultado_correcto
<1>2. R(c1) /\ c1.store_clave = p.store_clave
  <2> DEFINE f == [sentencia_contada(p.pcb[p.exec]) EXCEPT !.repetir = FALSE]
  <2>1. p.exec \in ESIs /\ p.pcb \in [ESIs -> Pcb] /\ p.pcb[p.exec] \in Pcb
    BY DEF Memoria
  <2>2. sentencia_contada(p.pcb[p.exec]) \in Pcb
    BY <2>1, Ficha
  <2>3. f \in Pcb
    BY <2>2 DEF Pcb
  <2>4. c1 = [p EXCEPT !.pcb = [p.pcb EXCEPT ![p.exec] = f]]
    BY DEF Memoria
  <2> HIDE DEF f, c1
  <2> QED BY <2>1, <2>3, <2>4 DEF Memoria
<1> HIDE DEF c1
<1>3. R(c2) /\ c2.store_clave = p.store_clave
  BY <1>2
<1> HIDE DEF c2
<1>4. R(c3) /\ c3.store_clave = p.store_clave
  <2> DEFINE m == bloquear_clave(c2, c2.get_clave, c2.get_pid)
             b == [m EXCEPT !.por_get = FALSE, !.get_clave = Ninguna, !.get_pid = Nadie]
  <2>1. c3 \in Memoria
    BY <1>3, ConfirmarGet DEF Deriva
  <2>2. c2.get_pid # Nadie => m \in Memoria
    BY <1>3, BloquearClave DEF Memoria, Deriva
  <2>3. m.dueno[k] = p.dueno[k] /\ m.store_clave = p.store_clave /\ ~m.bloqueo /\ ~m.kill
    BY <1>3, PidsDistintos DEF bloquear_clave, buscar_clave_bloqueada, Memoria
  <2>4. c3 = c2 \/ c3 = Romper(c2) \/ (c2.get_pid # Nadie /\ c3 = b)
    BY DEF confirmar_bloqueo_por_get
  <2> HIDE DEF m
  <2>5. /\ c2.get_pid # Nadie => /\ b.dueno[k] = p.dueno[k] /\ b.store_clave = p.store_clave
                                 /\ ~b.bloqueo /\ ~b.kill
    BY <2>2, <2>3 DEF Memoria
  <2> HIDE DEF b, c3
  <2>6. R(Romper(c2)) /\ Romper(c2).store_clave = p.store_clave
    BY <1>3 DEF Romper, Memoria
  <2> QED BY <1>3, <2>1, <2>4, <2>5, <2>6
<1> HIDE DEF c3
<1>5. R(c4)
  <2> DEFINE m == desbloquear_clave(c3, c3.store_clave)
             b == [m EXCEPT !.store_clave = Ninguna]
  <2>1. c4 \in Memoria
    BY <1>4, ConfirmarStore DEF Deriva
  <2>2. ASSUME c3.store_clave # Ninguna
        PROVE  m \in Memoria /\ m.dueno[k] = p.dueno[k] /\ ~m.bloqueo /\ ~m.kill
    <3>1. c3.store_clave \in Claves
      BY <1>4, <2>2 DEF Memoria
    <3> QED BY <1>4, <3>1, DesbloquearClave, DesbloquearClaves DEF Deriva, Aplaza
  <2>3. c4 = c3 \/ (c3.store_clave # Ninguna /\ c4 = b)
    BY DEF confirmar_desbloqueo_por_store
  <2> HIDE DEF m, c4
  <2> QED BY <1>4, <2>1, <2>2, <2>3 DEF Memoria
<1> HIDE DEF c4
<1>6. R(c5)
  <2>1. c5 \in Memoria
    BY <1>5, ConfirmarPausa DEF Deriva
  <2> QED BY <1>5, <2>1 DEF confirmar_pausa_por_consola, Romper, Memoria
<1> HIDE DEF c5
<1>7. R(c6)
  BY <1>1, <1>6
<1> HIDE DEF C6
<1> DEFINE d == c7(c6)
<1>8. d \in Memoria /\ d.dueno = c6.dueno
  <2>1. d \in Memoria
    BY <1>7, ConfirmarDesalojo DEF Deriva
  <2> QED BY <1>7, <2>1 DEF confirmar_desalojo_ejecucion, Romper, Memoria
<1>9. q = c8(d)
  BY <1>1
<1> HIDE DEF d
<1>10. q.dueno = d.dueno
  BY <1>8, <1>9 DEF enviar_esi_confirmacion_sentencia, Memoria
<1> QED BY <1>7, <1>8, <1>10

LEMMA MensajeSuelta ==
  ASSUME NEW p \in Memoria, ~p.fallo, NEW e \in ESIs, p.exec = e, ~p.bloqueo, ~p.kill,
         NEW resultado, NEW q \in recibir_mensaje_esi(p, e, resultado),
         NEW k \in Claves, p.dueno[k] \in ESIs, q.dueno[k] # p.dueno[k]
  PROVE  \/ p.dueno[k] = e /\ e \in q.terminados
         \/ resultado = "CORRECTO" /\ k = p.store_clave
<1>1. PICK r \in procesar_resultado(p, e, resultado) :
        q \in planificar(aumentar_tiempo_espera_ready(r))
  BY DEF recibir_mensaje_esi
<1> DEFINE s == aumentar_tiempo_espera_ready(r)
<1>2. r \in Memoria /\ p.exec # Nadie
  BY ProcesarResultado, PidsDistintos DEF Deriva
<1>3. s \in Memoria /\ s.dueno = r.dueno /\ s.terminados = r.terminados
  <2>1. s \in Memoria
    BY <1>2, AumentarEspera DEF Deriva
  <2> QED BY <1>2, <2>1 DEF aumentar_tiempo_espera_ready, Memoria
<1> HIDE DEF s
<1>4. q.dueno = r.dueno /\ q.terminados = r.terminados
  BY <1>1, <1>3, PlanificarAjena, PlanificarEncarga DEF s, Ajena
<1>5. CASE resultado = "CORRECTO"
  <2>1. r \in resultado_correcto(p)
    BY <1>2, <1>5 DEF procesar_resultado
  <2> QED BY <1>2, <1>4, <1>5, <2>1, CorrectoSuelta
<1>6. CASE resultado = "CLAVE_BLOQUEADA"
  <2>1. r = resultado_clave_bloqueada(p, e)
    BY <1>2, <1>6 DEF procesar_resultado
  <2>2. r.dueno = p.dueno
    BY <2>1 DEF resultado_clave_bloqueada, Romper, Memoria
  <2> QED BY <1>4, <2>2
<1>7. CASE resultado \notin {"CORRECTO", "CLAVE_BLOQUEADA"}
  <2>1. PICK l \in BOOLEAN : r \in finalizar_esi(p, e, l)
    BY <1>2, <1>7 DEF procesar_resultado
  <2>2. r.dueno = p.dueno \/ e \in r.terminados
    BY <2>1, FinalizarSuelta
  <2>3. p.dueno[k] # e => r.dueno[k] = p.dueno[k]
    BY <2>1, FinalizarClaves
  <2> QED BY <1>4, <2>2, <2>3
<1> QED BY <1>5, <1>6, <1>7

\* While no Instancia fails, a pending release is of a key whose owner is in the
\* system and has not been told to abort.
StorePropio ==
  ~HayFallas /\ ~plan.fallo /\ plan.store_clave # Ninguna =>
    \E e \in ESIs \ plan.terminados :
      plan.dueno[plan.store_clave] = e /\ ~(fase[e] = "respuesta" /\ resp[e] = "ABORTAR")

ISuelta == IDuenos /\ StorePropio

\* That owner has its STORE answered or on its way back.
LEMMA StoreEnCurso ==
  ASSUME ISuelta, ~HayFallas, ~plan.fallo, plan.store_clave # Ninguna
  PROVE  \E e \in ESIs \ plan.terminados :
           /\ plan.dueno[plan.store_clave] = e /\ plan.exec = e
           /\ fase[e] \in {"veredicto", "respuesta"} /\ resp[e] = "CORRECTO"
           /\ linea[e] = [op |-> "STORE", clave |-> plan.store_clave]
<1>1. PICK e \in ESIs \ plan.terminados :
        plan.dueno[plan.store_clave] = e /\ ~(fase[e] = "respuesta" /\ resp[e] = "ABORTAR")
  BY DEF ISuelta, StorePropio
<1>2. Suelta(e, plan.store_clave)
  BY <1>1 DEF ISuelta, IDuenos, Reparto, StorePendiente
<1>3. /\ fase[e] \in {"veredicto", "respuesta"} /\ resp[e] = "CORRECTO"
      /\ linea[e] = [op |-> "STORE", clave |-> plan.store_clave]
  BY <1>1, <1>2 DEF Suelta
<1>4. plan.exec = e
  BY <1>1, <1>3, SoloDelActual DEF ISuelta, IDuenos
<1> QED BY <1>1, <1>3, <1>4

\* A step that touches neither the locks nor what is pending, and tells no such
\* owner to abort.
LEMMA StoreTranquilo ==
  ASSUME ISuelta, Ajena(plan, plan'), plan'.fallo = plan.fallo,
         plan'.terminados = plan.terminados,
         \A f \in ESIs :
           ~HayFallas /\ fase[f] \in {"veredicto", "respuesta"} /\ resp[f] = "CORRECTO" =>
             ~(fase'[f] = "respuesta" /\ resp'[f] = "ABORTAR")
  PROVE  StorePropio'
<1> SUFFICES ASSUME ~HayFallas, ~plan.fallo, plan.store_clave # Ninguna
             PROVE  \E e \in ESIs \ plan.terminados :
                      plan.dueno[plan.store_clave] = e
                        /\ ~(fase'[e] = "respuesta" /\ resp'[e] = "ABORTAR")
  BY DEF StorePropio, Ajena, Aplaza
<1> QED BY StoreEnCurso

\* What the steps in which no result is read do to the Planificador.
LEMMA PasoAjeno ==
  ASSUME IDuenos, NEW e \in ESIs, LlegarEsi(e) \/ Esi(e) \/ Coordinador(e)
  PROVE  Ajena(plan, plan') /\ plan'.fallo = plan.fallo /\ plan'.terminados = plan.terminados
<1>1. plan \in Memoria
  BY DEF IDuenos, IVivo, IInv, TypeOK
<1>2. CASE LlegarEsi(e)
  BY <1>1, <1>2, NuevoAjena, NuevoEncarga DEF LlegarEsi
<1>3. CASE Esi(e) \/ Coordinador(e)
  <2>1. plan' = plan \/ plan' = [plan EXCEPT !.orden = plan.orden \ {e}]
    BY <1>1, <1>3
    DEF Memoria, Esi, Coordinador, LeerLinea, RepetirLinea, FinDelScript, LineaInvalida,
        TomaOrden, RechazarSentencia, EliminarClave, ConsultarPlanificador, ProseguirOperacion,
        Responder
  <2> QED BY <1>1, <2>1 DEF Memoria, Ajena, Aplaza
<1> QED BY <1>2, <1>3

LEMMA ConsolaAjena ==
  ASSUME IDuenos, ConsolaPausar \/ ConsolaContinuar
  PROVE  Ajena(plan, plan') /\ plan'.fallo = plan.fallo /\ plan'.terminados = plan.terminados
<1>1. plan \in Memoria
  BY DEF IDuenos, IVivo, IInv, TypeOK
<1>2. CASE ConsolaPausar
  BY <1>1, <1>2 DEF ConsolaPausar, consola_pausar, Memoria, Ajena, Aplaza
<1>3. CASE ConsolaContinuar
  <2> DEFINE p == [plan EXCEPT !.pausado = FALSE]
  <2>1. /\ p \in Memoria /\ Ajena(plan, p) /\ p.fallo = plan.fallo
        /\ p.terminados = plan.terminados
    BY <1>1 DEF Memoria, Ajena, Aplaza
  <2>2. plan' \in planificar(p)
    BY <1>3 DEF ConsolaContinuar, consola_continuar
  <2> HIDE DEF p
  <2> QED BY <2>1, <2>2, PlanificarAjena, PlanificarEncarga DEF Ajena, Aplaza
<1> QED BY <1>2, <1>3

LEMMA SueltaEsi ==
  ASSUME ISuelta, NEW e \in ESIs, LlegarEsi(e) \/ Esi(e) \/ Coordinador(e)
  PROVE  StorePropio'
<1>1. /\ fase \in [ESIs -> Fases] /\ resp \in [ESIs -> Resultados \cup {"nada"}]
  BY DEF ISuelta, IDuenos, IVivo, IInv, TypeOK
<1>2. Ajena(plan, plan') /\ plan'.fallo = plan.fallo /\ plan'.terminados = plan.terminados
  BY PasoAjeno DEF ISuelta
<1>3. \A f \in ESIs : f # e => fase'[f] = fase[f] /\ resp'[f] = resp[f]
  BY <1>1
  DEF LlegarEsi, Esi, Coordinador, LeerLinea, RepetirLinea, FinDelScript, LineaInvalida,
      Terminar, Enviar, RechazarSentencia, EliminarClave, ConsultarPlanificador,
      ProseguirOperacion, Responder
<1>4. ASSUME ~HayFallas, fase[e] \in {"veredicto", "respuesta"}, resp[e] = "CORRECTO"
      PROVE  resp'[e] # "ABORTAR"
  <2>1. ProseguirOperacion(e)
    BY <1>4
    DEF LlegarEsi, Esi, Coordinador, LeerLinea, RepetirLinea, FinDelScript, LineaInvalida,
        TomaOrden, RechazarSentencia, EliminarClave, ConsultarPlanificador
  <2>2. Responder(e, resp[e])
    BY <1>4, <2>1 DEF ProseguirOperacion
  <2> QED BY <1>1, <1>4, <2>2 DEF Responder
<1> QED BY <1>2, <1>3, <1>4, StoreTranquilo

LEMMA SueltaAtender ==
  ASSUME ISuelta, NEW e \in ESIs, RecibirConsulta(e) \/ RecibirMensajeEsi(e)
  PROVE  StorePropio'
<1>1. /\ plan \in Memoria /\ ~plan.fallo
      /\ fase \in [ESIs -> Fases] /\ resp \in [ESIs -> Resultados \cup {"nada"}]
  BY DEF ISuelta, IDuenos, IVivo, IInv, TypeOK, RecibirConsulta, RecibirMensajeEsi
<1>2. fase[e] \in {"consulta", "respuesta"}
  BY DEF RecibirConsulta, RecibirMensajeEsi
<1>3. e \notin plan.terminados /\ plan.exec = e
  BY <1>1, <1>2, SoloDelActual DEF ISuelta, IDuenos
<1>4. CASE RecibirConsulta(e)
  <2> DEFINE k == linea[e].clave
             op == linea[e].op
  <2>1. /\ fase[e] = "consulta" /\ fase'[e] = "veredicto" /\ k \in Claves
        /\ plan' = recibir_mensaje_coordinador(plan, e, op, k)
    BY <1>1, <1>4 DEF RecibirConsulta, ISuelta, IDuenos, IVivo, IInv, LineaLeida
  <2> HIDE DEF k, op
  <2>2. /\ plan'.terminados = plan.terminados /\ plan'.dueno = plan.dueno
        /\ plan'.store_clave # plan.store_clave =>
             plan.dueno[k] = e /\ plan'.store_clave = k
    BY <1>1, <2>1 DEF recibir_mensaje_coordinador, Memoria
  <2>3. ~HayFallas => plan.store_clave = Ninguna
    BY <1>1, <1>3, <2>1, StoreEnCurso
  <2> QED BY <1>3, <2>1, <2>2, <2>3 DEF StorePropio
<1>5. CASE RecibirMensajeEsi(e)
  <2>1. fase[e] = "respuesta" /\ plan' \in recibir_mensaje_esi(plan, e, resp[e])
    BY <1>5 DEF RecibirMensajeEsi
  <2> SUFFICES ASSUME ~HayFallas, ~plan'.fallo PROVE plan'.store_clave = Ninguna
    BY DEF StorePropio
  <2>2. CASE resp[e] = "CORRECTO"
    <3>1. /\ ~plan.bloqueo /\ ~plan.kill
          /\ plan.por_get => \E f \in ESIs : GetEnCurso(f) /\ plan.get_pid = f
      BY <1>1 DEF ISuelta, IDuenos, Reparto, SinEncargos, GetPendiente
    <3>2. ASSUME NEW f \in ESIs, GetEnCurso(f) PROVE f = e
      BY <1>1, <1>3, <3>2, SoloDelActual DEF GetEnCurso, ISuelta, IDuenos
    <3>3. plan.por_get => plan.get_pid = e
      BY <3>1, <3>2
    <3> QED BY <1>1, <1>3, <2>1, <2>2, <3>1, <3>3, MensajeClaves
  <2>3. CASE resp[e] # "CORRECTO"
    <3>1. plan'.store_clave = plan.store_clave
      BY <1>1, <1>3, <2>1, <2>3, MensajeClaves
    <3> QED BY <1>1, <1>3, <2>3, <3>1, StoreEnCurso
  <2> QED BY <2>2, <2>3
<1> QED BY <1>4, <1>5

LEMMA ConservaSuelta ==
  ASSUME PuedenCaer = {}, Comandos \subseteq {"pausar", "continuar"}, ISuelta, [Next]_vars
  PROVE  ISuelta'
<1>1. IDuenos'
  BY ConservaDuenos DEF ISuelta
<1>2. CASE UNCHANGED vars
  <2>1. plan' = plan /\ fase' = fase /\ resp' = resp
    BY <1>2 DEF vars
  <2> QED BY <1>1, <2>1 DEF ISuelta, StorePropio
<1>3. CASE Next
  <2>1. ASSUME NEW e \in ESIs, Caer(e) \/ RecibirDesconexion(e) \/ RecibirReset(e) PROVE FALSE
    BY <2>1
    DEF Caer, RecibirDesconexion, RecibirReset, Conectado, ISuelta, IDuenos, IVivo, SinCaidas
  <2>2. ASSUME Consola PROVE StorePropio'
    <3>1. ConsolaPausar \/ ConsolaContinuar
      BY <2>2 DEF Consola, ConsolaDesbloquear, ConsolaBloquear, ConsolaMatar, Comando
    <3>2. fase' = fase /\ resp' = resp
      BY <3>1 DEF ConsolaPausar, ConsolaContinuar
    <3> QED BY <3>1, <3>2, ConsolaAjena, StoreTranquilo DEF ISuelta
  <2>3. StorePropio'
    BY <1>3, <2>1, <2>2, SueltaEsi, SueltaAtender DEF Next, Atender
  <2> QED BY <1>1, <2>3 DEF ISuelta
<1> QED BY <1>2, <1>3

\* When no ESI dies on its own, no Instancia fails and the operator only pauses and
\* continues: a key leaves its owner only when the owner is finished or when the
\* Planificador reads the CORRECTO of the owner's STORE of that key, although
\* nothing in clave_a_desbloquear_por_store says whose it is.
THEOREM LaClaveSaleConSuDueno ==
  ASSUME PuedenCaer = {}, ~HayFallas, Comandos \subseteq {"pausar", "continuar"}
  PROVE  Spec => SoloLiberaElDueno
<1>1. ISuelta /\ [Next]_vars => ISuelta'
  BY ConservaSuelta
<1>2. Init => ISuelta
  BY InicioDuenos DEF Init, MemoriaInicial, ISuelta, StorePropio
<1>3. ISuelta /\ [Next]_vars =>
        [\A k \in Claves, e \in ESIs :
           plan.dueno[k] = e /\ plan'.dueno[k] # e =>
             \/ e \in plan'.terminados \ plan.terminados
             \/ /\ fase[e] = "respuesta" /\ fase'[e] = "espera"
                /\ resp[e] = "CORRECTO" /\ linea[e] = [op |-> "STORE", clave |-> k]]_vars
  <2> SUFFICES ASSUME ISuelta, Next, NEW k \in Claves, NEW e \in ESIs,
                      plan.dueno[k] = e, plan'.dueno[k] # e
               PROVE  \/ e \in plan'.terminados \ plan.terminados
                      \/ /\ fase[e] = "respuesta" /\ fase'[e] = "espera"
                         /\ resp[e] = "CORRECTO" /\ linea[e] = [op |-> "STORE", clave |-> k]
    OBVIOUS
  <2>1. ASSUME NEW f \in ESIs, LlegarEsi(f) \/ Esi(f) \/ Coordinador(f) PROVE FALSE
    BY <2>1, PasoAjeno DEF ISuelta, Ajena
  <2>2. ASSUME NEW f \in ESIs, Caer(f) \/ RecibirDesconexion(f) \/ RecibirReset(f) PROVE FALSE
    BY <2>2
    DEF Caer, RecibirDesconexion, RecibirReset, Conectado, ISuelta, IDuenos, IVivo, SinCaidas
  <2>3. ASSUME Consola PROVE FALSE
    <3>1. ConsolaPausar \/ ConsolaContinuar
      BY <2>3 DEF Consola, ConsolaDesbloquear, ConsolaBloquear, ConsolaMatar, Comando
    <3> QED BY <3>1, ConsolaAjena DEF ISuelta, Ajena
  <2>4. ASSUME NEW f \in ESIs, RecibirConsulta(f) PROVE FALSE
    <3>1. plan'.dueno = plan.dueno
      BY <2>4
      DEF RecibirConsulta, recibir_mensaje_coordinador, Memoria, ISuelta, IDuenos, IVivo, IInv,
          TypeOK
    <3> QED BY <3>1
  <2>5. PICK f \in ESIs : RecibirMensajeEsi(f)
    BY <2>1, <2>2, <2>3, <2>4 DEF Next, Atender
  <2>6. /\ plan \in Memoria /\ ~plan.fallo /\ fase[f] = "respuesta" /\ fase'[f] = "espera"
        /\ plan' \in recibir_mensaje_esi(plan, f, resp[f])
    BY <2>5 DEF RecibirMensajeEsi, ISuelta, IDuenos, IVivo, IInv, TypeOK
  <2>7. f \notin plan.terminados /\ plan.exec = f
    BY <2>6, SoloDelActual DEF ISuelta, IDuenos
  <2>8. ~plan.bloqueo /\ ~plan.kill
    BY <2>6 DEF ISuelta, IDuenos, Reparto, SinEncargos
  <2>9. \/ e = f /\ f \in plan'.terminados
        \/ resp[f] = "CORRECTO" /\ k = plan.store_clave
    <3> DEFINE p == plan
               q == plan'
               r == resp[f]
    <3>1. /\ p \in Memoria /\ ~p.fallo /\ ~p.bloqueo /\ ~p.kill /\ p.exec = f
          /\ q \in recibir_mensaje_esi(p, f, r)
          /\ p.dueno[k] = e /\ q.dueno[k] # p.dueno[k] /\ p.dueno[k] \in ESIs
      BY <2>6, <2>7, <2>8
    <3> HIDE DEF p, q, r
    <3>2. \/ p.dueno[k] = f /\ f \in q.terminados
          \/ r = "CORRECTO" /\ k = p.store_clave
      BY ONLY <3>1, MensajeSuelta
    <3> QED BY <3>1, <3>2 DEF p, q, r
  <2>10. CASE k = plan.store_clave /\ resp[f] = "CORRECTO"
    <3>1. k # Ninguna
      BY ClavesDistintas
    <3>2. /\ e = f /\ linea[e] = [op |-> "STORE", clave |-> k]
      BY <2>6, <2>7, <2>10, <3>1, StoreEnCurso
    <3> QED BY <2>6, <2>10, <3>2
  <2> QED BY <2>7, <2>9, <2>10
<1> QED BY <1>1, <1>2, <1>3, PTL DEF Spec, SoloLiberaElDueno
================================================================================
