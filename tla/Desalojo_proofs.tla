---------------------------- MODULE Desalojo_proofs ----------------------------
(***************************************************************************)
(* Proof of DesalojoJusto of ReDistinto, for every algorithm, console      *)
(* command, death of an ESI and failure of an Instancia: who takes the     *)
(* processor from whom.                                                    *)
(*                                                                         *)
(* A function of Planificador either preempts nobody (NoDesaloja) or is    *)
(* the CORRECTO of the running ESI, which applies the pending preemption   *)
(* (Aplica).  There is one lemma for each function, then one for each      *)
(* handler.                                                                *)
(***************************************************************************)
EXTENDS ReDistinto_proofs

\* A preemption that is pending in q and was not in p has been decided by the
\* comparison of the two ESIs as they are in q.
Decidido(p, q) ==
  q.por_desalojar # p.por_desalojar =>
    /\ q.exec \in ESIs /\ q.por_desalojar \in ToSet(q.listos)
    /\ q.pcb[q.por_desalojar].real < q.pcb[q.exec].actual

\* While the same ESI runs, nothing that the comparison looks at changes.
Mantiene(p, q) ==
  p.exec \in ESIs /\ q.exec = p.exec =>
    /\ q.pcb[p.exec].actual = p.pcb[p.exec].actual
    /\ \A x \in ToSet(p.listos) : q.pcb[x].real = p.pcb[x].real

\* The ESI that leaves the processor does not become ready.
Suelta(p, q) ==
  p.exec \in ESIs => q.exec = p.exec \/ p.exec \notin ToSet(q.listos)

\* A function that preempts nobody.
NoDesaloja(p, q) == Decidido(p, q) /\ Mantiene(p, q) /\ Suelta(p, q)

\* Neither does one that leaves alone what the comparison looks at, or that breaks.
LEMMA NoDesalojaIgual ==
  ASSUME NEW p \in Memoria, NEW q,
         q.exec = p.exec, q.listos = p.listos, q.por_desalojar = p.por_desalojar,
         q.pcb = p.pcb
  PROVE  NoDesaloja(p, q)
  BY DEF NoDesaloja, Decidido, Mantiene, Suelta

\* A process that breaks, or does nothing, preempts nobody.
LEMMA NoDesalojaRomper ==
  ASSUME NEW p \in Memoria
  PROVE  NoDesaloja(p, p) /\ NoDesaloja(p, Romper(p))
<1>1. NoDesaloja(p, p)
  BY NoDesalojaIgual
<1> DEFINE q == Romper(p)
<1>2. q.exec = p.exec /\ q.listos = p.listos /\ q.por_desalojar = p.por_desalojar /\ q.pcb = p.pcb
  BY DEF Romper, Memoria
<1> HIDE DEF q
<1>3. NoDesaloja(p, q)
  BY <1>2, NoDesalojaIgual
<1> QED BY <1>1, <1>3 DEF q

\* planificar gives the processor only when nobody has it.
LEMMA PlanificarElige ==
  ASSUME NEW p \in Memoria, NEW q \in planificar(p)
  PROVE  \/ q = p
         \/ /\ p.exec = Nadie /\ ~p.fallo
            /\ q.exec \in ToSet(p.listos) /\ ToSet(q.listos) \subseteq ToSet(p.listos)
            /\ q.por_desalojar = p.por_desalojar /\ q.pcb = p.pcb
<1>1. CASE q = p
  BY <1>1
<1>2. CASE ~p.fallo /\ p.exec = Nadie /\ q \in obtener_proximo_ejecucion(p)
  <2>1. PICK i \in Proximos(p) :
          q = enviar_esi_confirmacion_sentencia(
                [p EXCEPT !.exec = p.listos[i], !.listos = RemoveAt(p.listos, i)])
    BY <1>2 DEF obtener_proximo_ejecucion
  <2> DEFINE e == p.listos[i]
             l == RemoveAt(p.listos, i)
  <2>2. p.listos \in Seq(ESIs) /\ i \in DOMAIN p.listos
    BY <2>1 DEF Memoria, Proximos
  <2>3. e \in ToSet(p.listos) /\ ToSet(l) \subseteq ToSet(p.listos)
    BY <2>2, Elementos, Quitar
  <2> HIDE DEF e, l
  <2>4. q.exec = e /\ q.listos = l /\ q.por_desalojar = p.por_desalojar /\ q.pcb = p.pcb
    BY <2>1 DEF enviar_esi_confirmacion_sentencia, Memoria, e, l
  <2> QED BY <1>2, <2>3, <2>4
<1> QED BY <1>1, <1>2 DEF planificar

\* planificar after or before a function that preempts nobody preempts nobody: it
\* chooses among the ready ones, and the one that had the processor is not there.
LEMMA PlanificarDespues ==
  ASSUME NEW p \in Memoria, NEW m \in Memoria, NoDesaloja(p, m), NEW q \in planificar(m)
  PROVE  NoDesaloja(p, q)
<1>1. CASE q = m
  BY <1>1
<1>2. CASE /\ m.exec = Nadie
           /\ q.exec \in ToSet(m.listos) /\ ToSet(q.listos) \subseteq ToSet(m.listos)
           /\ q.por_desalojar = m.por_desalojar /\ q.pcb = m.pcb
  <2>1. Decidido(p, q)
    BY <1>2, PidsDistintos DEF NoDesaloja, Decidido
  <2>2. ASSUME p.exec \in ESIs PROVE q.exec # p.exec /\ p.exec \notin ToSet(q.listos)
    BY <1>2, <2>2, PidsDistintos DEF NoDesaloja, Suelta
  <2> QED BY <2>1, <2>2 DEF NoDesaloja, Mantiene, Suelta
<1> QED BY <1>1, <1>2, PlanificarElige

\* The same, with planificar first, as when a connection ends.
LEMMA PlanificarAntes ==
  ASSUME NEW p \in Memoria, NEW m \in planificar(p), NEW q, NoDesaloja(m, q)
  PROVE  NoDesaloja(p, q)
<1>1. CASE m = p
  BY <1>1
<1>2. CASE p.exec = Nadie /\ m.por_desalojar = p.por_desalojar
  BY <1>2, PidsDistintos DEF NoDesaloja, Decidido, Mantiene, Suelta
<1> QED BY <1>1, <1>2, PlanificarElige

\* The time spent ready is no part of the comparison.
LEMMA AumentarIgual ==
  ASSUME NEW p \in Memoria
  PROVE  LET q == aumentar_tiempo_espera_ready(p)
         IN  /\ q.exec = p.exec /\ q.listos = p.listos /\ q.por_desalojar = p.por_desalojar
             /\ q.fallo = p.fallo
             /\ \A x \in ESIs : q.pcb[x].real = p.pcb[x].real /\ q.pcb[x].actual = p.pcb[x].actual
<1> DEFINE q == aumentar_tiempo_espera_ready(p)
           s(x) == IF Algoritmo = "HRRN" /\ x \in ToSet(p.listos)
                   THEN [p.pcb[x] EXCEPT !.espera = @ + 1] ELSE p.pcb[x]
<1>1. ASSUME NEW x \in ESIs PROVE s(x).real = p.pcb[x].real /\ s(x).actual = p.pcb[x].actual
  <2>1. p.pcb[x] \in Pcb BY DEF Memoria
  <2> QED BY <2>1 DEF Pcb
<1>2. q = [p EXCEPT !.pcb = [x \in ESIs |-> s(x)]]
  BY DEF aumentar_tiempo_espera_ready
<1> HIDE DEF s, q
<1>3. /\ q.exec = p.exec /\ q.listos = p.listos /\ q.por_desalojar = p.por_desalojar
      /\ q.fallo = p.fallo /\ q.pcb = [x \in ESIs |-> s(x)]
  BY <1>2 DEF Memoria
<1>4. \A x \in ESIs : q.pcb[x].real = p.pcb[x].real /\ q.pcb[x].actual = p.pcb[x].actual
  BY <1>1, <1>3
<1> QED BY <1>3, <1>4 DEF q

\* aumentar_tiempo_espera_ready preempts nobody.
LEMMA AumentarDespues ==
  ASSUME NEW p \in Memoria, NEW m \in Memoria, NoDesaloja(p, m)
  PROVE  NoDesaloja(p, aumentar_tiempo_espera_ready(m))
<1> DEFINE q == aumentar_tiempo_espera_ready(m)
<1>1. /\ q.exec = m.exec /\ q.listos = m.listos /\ q.por_desalojar = m.por_desalojar
      /\ \A x \in ESIs : q.pcb[x].real = m.pcb[x].real /\ q.pcb[x].actual = m.pcb[x].actual
  BY AumentarIgual
<1> HIDE DEF q
<1>2. ToSet(m.listos) \subseteq ESIs /\ ToSet(p.listos) \subseteq ESIs
  BY Elementos DEF Memoria
<1>3. Decidido(p, q)
  BY <1>1, <1>2 DEF NoDesaloja, Decidido
<1>4. Mantiene(p, q)
  BY <1>1, <1>2 DEF NoDesaloja, Mantiene
<1>5. Suelta(p, q)
  BY <1>1 DEF NoDesaloja, Suelta
<1> QED BY <1>3, <1>4, <1>5 DEF NoDesaloja, q

--------------------------------------------------------------------------------
\* The ESI woken for a key is compared with the running one, and nobody else is touched.
LEMMA DesbloquearNoDesaloja ==
  ASSUME NEW p \in Memoria, NEW S, Ubicados(p, S), NEW k \in Claves
  PROVE  LET q == desbloquear_clave(p, k)
         IN  NoDesaloja(p, q) /\ q.exec = p.exec /\ ToSet(p.listos) \subseteq ToSet(q.listos)
<1> DEFINE espera == EsperanClave(p, k)
           i == Min(espera)
           e == p.bloqueados[i]
           b == RemoveAt(p.bloqueados, i)
           l == Append(p.listos, e)
           c == [p.pcb EXCEPT ![e] = Despertado(p.pcb[e])]
           q0 == [p EXCEPT !.bloqueados = b, !.pcb = c]
           m == pedir_desalojo(q0, e)
           r == [m EXCEPT !.listos = l]
           r1 == [m EXCEPT !.listos = l, !.dueno[k] = Libre]
           s == [p EXCEPT !.dueno[k] = Libre]
           Bien(q) == /\ NoDesaloja(p, q) /\ q.exec = p.exec
                      /\ ToSet(p.listos) \subseteq ToSet(q.listos)
<1>1. Bien(s)
  <2>1. s.exec = p.exec /\ s.listos = p.listos /\ s.por_desalojar = p.por_desalojar /\ s.pcb = p.pcb
    BY DEF Memoria
  <2> HIDE DEF s
  <2> QED BY <2>1, NoDesalojaIgual
<1>2. Bien(p) /\ Bien(Romper(p))
  <2>1. Romper(p).exec = p.exec /\ Romper(p).listos = p.listos
    BY DEF Romper, Memoria
  <2> QED BY <2>1, NoDesalojaRomper
<1>3. ASSUME espera # {}
      PROVE  Bien(r) /\ Bien(r1)
  <2>1. p.bloqueados \in Seq(ESIs) /\ p.listos \in Seq(ESIs) /\ p.pcb \in [ESIs -> Pcb]
    BY DEF Memoria
  <2>2. DOMAIN p.bloqueados \in SUBSET Nat
    BY <2>1, Elementos
  <2>3. i \in DOMAIN p.bloqueados
    <3>1. espera \in SUBSET Nat /\ espera \subseteq DOMAIN p.bloqueados
      BY <2>2 DEF EsperanClave
    <3> HIDE DEF espera
    <3> QED BY <1>3, <3>1, Minimo
  <2> HIDE DEF i
  <2>4. e \in ESIs /\ e \in ToSet(p.bloqueados)
    BY <2>1, <2>3, Elementos
  <2> HIDE DEF e
  <2>5. e # p.exec /\ e \notin ToSet(p.listos)
    BY <2>4 DEF Ubicados
  <2>6. ToSet(l) = ToSet(p.listos) \cup {e}
    BY <2>1, <2>4, AgregarAlFinal
  <2>7. \A x \in ESIs \ {e} : c[x] = p.pcb[x]
    BY <2>1
  <2>8. ToSet(p.listos) \subseteq ESIs
    BY <2>1, Elementos
  <2> HIDE DEF b, l, c
  <2>9. q0.exec = p.exec /\ q0.pcb = c /\ q0.por_desalojar = p.por_desalojar /\ q0.dueno = p.dueno
    BY DEF Memoria
  <2>10. /\ r.exec = p.exec /\ r.listos = l /\ r.pcb = c
         /\ r1.exec = p.exec /\ r1.listos = l /\ r1.pcb = c
         /\ r.por_desalojar = m.por_desalojar /\ r1.por_desalojar = m.por_desalojar
    BY DEF pedir_desalojo, Memoria
  <2>11. m.por_desalojar # p.por_desalojar =>
           m.por_desalojar = e /\ p.exec \in ESIs /\ c[e].real < c[p.exec].actual
    <3>1. m.por_desalojar = IF Desaloja(q0, e) THEN e ELSE p.por_desalojar
      BY DEF pedir_desalojo, Memoria
    <3>2. Desaloja(q0, e) => p.exec # Nadie /\ c[e].real < c[p.exec].actual
      BY <2>9 DEF Desaloja
    <3>3. p.exec \in ESIs \cup {Nadie}
      BY DEF Memoria
    <3> HIDE DEF m, q0
    <3> QED BY <3>1, <3>2, <3>3
  <2> HIDE DEF r, r1, m
  <2>12. ASSUME NEW q, q.exec = p.exec, q.listos = l, q.pcb = c, q.por_desalojar = m.por_desalojar
         PROVE  Bien(q)
    <3>1. Decidido(p, q)
      BY <2>6, <2>11, <2>12 DEF Decidido
    <3>2. Mantiene(p, q)
      BY <2>5, <2>7, <2>8, <2>12 DEF Mantiene
    <3>3. Suelta(p, q)
      BY <2>12 DEF Suelta
    <3> QED BY <2>6, <2>12, <3>1, <3>2, <3>3 DEF NoDesaloja
  <2> HIDE DEF Bien
  <2> QED BY <2>10, <2>12
<1>4. \/ desbloquear_clave(p, k) \in {p, Romper(p), s}
      \/ espera # {} /\ desbloquear_clave(p, k) \in {r, r1}
  <2>1. q0 = [p EXCEPT !.bloqueados = b, !.pcb[e] = Despertado(p.pcb[e])]
    BY DEF Memoria
  <2> HIDE DEF q0
  <2> QED BY <2>1 DEF desbloquear_clave
<1> HIDE DEF r, r1, s, espera, Bien
<1>5. Bien(desbloquear_clave(p, k))
  BY <1>1, <1>2, <1>3, <1>4
<1> QED BY <1>5 DEF Bien

\* So are the ESIs woken by the end of another one: none of them was running or ready.
LEMMA LiberarNoDesaloja ==
  ASSUME NEW p \in Memoria, NEW S, Ubicados(p, S), NEW e \in ESIs,
         NEW q \in desbloquear_claves_bloqueadas_pid(p, e)
  PROVE  /\ Decidido(p, q)
         /\ \A x \in ESIs \ ToSet(p.bloqueados) : q.pcb[x] = p.pcb[x]
         /\ ToSet(q.listos) \subseteq ToSet(p.listos) \cup ToSet(p.bloqueados)
         /\ q.exec = p.exec
<1> DEFINE D == Despertados(p, e)
           c0 == [f \in ESIs |-> IF f \in D THEN Despertado(p.pcb[f]) ELSE p.pcb[f]]
           m == SinClavesDe(p, e)
<1>1. CASE q \in {p, Romper(p)}
  <2>1. /\ q.exec = p.exec /\ q.listos = p.listos /\ q.por_desalojar = p.por_desalojar
        /\ q.pcb = p.pcb
    BY <1>1 DEF Romper, Memoria
  <2> QED BY <2>1 DEF Decidido
<1>2. ASSUME NEW fila \in SetToSeqs(D), NEW resto,
             q = Liberadas(p, e, fila, resto)
      PROVE  /\ Decidido(p, q)
             /\ \A x \in ESIs \ ToSet(p.bloqueados) : q.pcb[x] = p.pcb[x]
             /\ ToSet(q.listos) \subseteq ToSet(p.listos) \cup ToSet(p.bloqueados)
             /\ q.exec = p.exec
  <2>1. p.bloqueados \in Seq(ESIs) /\ p.listos \in Seq(ESIs)
    BY DEF Memoria
  <2>2. D \in SUBSET ToSet(p.bloqueados)
    BY DEF Despertados
  <2>3. m.exec = p.exec /\ m.pcb = c0 /\ m.por_desalojar = p.por_desalojar /\ m.listos = p.listos
    BY DEF SinClavesDe, Memoria
  <2>4. \A x \in ESIs \ ToSet(p.bloqueados) : c0[x] = p.pcb[x]
    BY <2>2
  <2> HIDE DEF D, c0
  <2>5. fila \in Seq(ESIs) /\ IsInjective(fila) /\ ToSet(fila) = D
    BY <2>1, <2>2, Filas, FilaDe
  <2> DEFINE l == p.listos \o fila
             v == ConDesalojo(m, fila).por_desalojar
  <2>6. ToSet(l) = ToSet(p.listos) \cup ToSet(fila)
    BY <2>1, <2>2, <2>5, UnirListas DEF Ubicados
  <2>7. q.exec = p.exec /\ q.pcb = c0 /\ q.por_desalojar = v /\ q.listos = l
    <3>1. /\ ConDesalojo(m, fila).exec = p.exec /\ ConDesalojo(m, fila).pcb = c0
          /\ DOMAIN ConDesalojo(m, fila) = DOMAIN p
      BY <2>3 DEF ConDesalojo, SinClavesDe, Memoria
    <3>2. DOMAIN p = {"exec", "listos", "bloqueados", "terminados", "dueno", "pcb", "pausado",
                     "bloqueo", "kill", "por_desalojar", "por_get", "get_clave", "get_pid",
                     "store_clave", "orden", "fallo"}
      BY DEF Memoria
    <3> HIDE DEF m
    <3> QED BY <1>2, <3>1, <3>2 DEF Liberadas, m
  <2>8. v # p.por_desalojar =>
          v \in ToSet(fila) /\ p.exec \in ESIs /\ c0[v].real < c0[p.exec].actual
    <3> DEFINE ganan == {i \in DOMAIN fila : Desaloja(m, fila[i])}
    <3>1. CASE ganan = {}
      BY <2>3, <3>1 DEF ConDesalojo
    <3>2. CASE ganan # {}
      <4>1. DOMAIN fila = 1..Len(fila) /\ Len(fila) \in Nat
        BY <2>5, LenProperties
      <4>2. ganan \in SUBSET (1..Len(fila))
        BY <4>1
      <4>3. v = fila[Max(ganan)]
        BY <3>2 DEF ConDesalojo, SinClavesDe, Memoria
      <4>4. Max(ganan) \in ganan
        <5> HIDE DEF ganan
        <5> QED BY <3>2, <4>1, <4>2, Maximo
      <4>5. Max(ganan) \in DOMAIN fila /\ Desaloja(m, v)
        BY <4>3, <4>4
      <4> HIDE DEF v
      <4>6. v \in ToSet(fila)
        BY <2>5, <4>3, <4>5, Elementos
      <4>7. p.exec # Nadie /\ c0[v].real < c0[p.exec].actual
        BY <2>3, <4>5 DEF Desaloja
      <4> QED BY <4>6, <4>7 DEF Memoria
    <3> QED BY <3>1, <3>2
  <2> HIDE DEF l, v
  <2>9. Decidido(p, q)
    BY <2>6, <2>7, <2>8 DEF Decidido
  <2> QED BY <2>2, <2>4, <2>5, <2>6, <2>7, <2>9
<1>3. \/ q \in {p, Romper(p)}
      \/ \E fila \in SetToSeqs(D), resto \in SinElementos(p.bloqueados, D) :
           q = Liberadas(p, e, fila, resto)
  BY DEF desbloquear_claves_bloqueadas_pid
<1> QED BY <1>1, <1>2, <1>3

\* The end of an ESI takes it out of its place, before it wakes those that wait for
\* its keys.
LEMMA FinalizarNoDesaloja ==
  ASSUME NEW p \in Memoria, NEW S, Ubicados(p, S), NEW e \in ESIs, NEW l \in BOOLEAN,
         NEW q \in finalizar_esi(p, e, l)
  PROVE  NoDesaloja(p, q)
<1> DEFINE c == sacar_de_colas(p, e)
<1>1. CASE ~EnSistema(p, e)
  BY <1>1, NoDesalojaRomper DEF finalizar_esi
<1>2. ASSUME EnSistema(p, e), NEW r \in {c} \cup desbloquear_claves_bloqueadas_pid(c, e),
             q = pasar_a_terminados(r, e)
      PROVE  NoDesaloja(p, q)
  <2>0. p.listos \in Seq(ESIs) /\ p.bloqueados \in Seq(ESIs) /\ Nadie \notin ESIs
    BY PidsDistintos DEF Memoria
  <2>a. ToSet(p.listos) \subseteq ESIs /\ ToSet(p.bloqueados) \subseteq ESIs
    BY <2>0, Elementos
  <2>1. c \in Memoria /\ Ubicados(c, S \ {e})
    BY <1>2, SacarDeColas, SacarUbica DEF Deriva
  <2>2. /\ c.exec = IF e = p.exec THEN Nadie ELSE p.exec
        /\ c.pcb = p.pcb /\ c.por_desalojar = p.por_desalojar
        /\ ToSet(c.listos) \subseteq ToSet(p.listos)
        /\ ToSet(c.bloqueados) \subseteq ToSet(p.bloqueados)
    <3>1. /\ ToSet(sacar_esi_de_lista_pid(p.listos, e)) \subseteq ToSet(p.listos)
          /\ ToSet(sacar_esi_de_lista_pid(p.bloqueados, e)) \subseteq ToSet(p.bloqueados)
      BY <2>0, SacarUno DEF Ubicados
    <3> QED BY <3>1 DEF sacar_de_colas, Memoria
  <2> HIDE DEF c
  <2>3. /\ r \in Memoria /\ Decidido(c, r) /\ r.exec = c.exec
        /\ \A x \in ESIs \ ToSet(c.bloqueados) : r.pcb[x] = c.pcb[x]
        /\ ToSet(r.listos) \subseteq ToSet(c.listos) \cup ToSet(c.bloqueados)
    <3>1. CASE r = c
      BY <2>1, <3>1 DEF Decidido
    <3>2. CASE r \in desbloquear_claves_bloqueadas_pid(c, e)
      BY <2>1, <3>2, Liberar, LiberarNoDesaloja DEF Deriva
    <3> QED BY <1>2, <3>1, <3>2
  <2>4. /\ q.exec = r.exec /\ q.listos = r.listos /\ q.por_desalojar = r.por_desalojar
        /\ \A x \in ESIs : q.pcb[x].real = r.pcb[x].real /\ q.pcb[x].actual = r.pcb[x].actual
    <3> DEFINE g == [r.pcb EXCEPT ![e].clave = Ninguna]
    <3>1. ASSUME NEW x \in ESIs PROVE g[x].real = r.pcb[x].real /\ g[x].actual = r.pcb[x].actual
      <4>1. r.pcb \in [ESIs -> Pcb] /\ r.pcb[x] \in Pcb
        BY <2>3 DEF Memoria
      <4> QED BY <4>1 DEF Pcb
    <3>2. /\ q.exec = r.exec /\ q.listos = r.listos /\ q.por_desalojar = r.por_desalojar
          /\ q.pcb \in {r.pcb, g}
      BY <1>2, <2>3 DEF pasar_a_terminados, Memoria
    <3> HIDE DEF g
    <3> QED BY <3>1, <3>2
  <2>5. ToSet(r.listos) \subseteq ESIs
    BY <2>a, <2>2, <2>3
  <2>6. Decidido(p, q)
    BY <2>2, <2>3, <2>4, <2>5 DEF Decidido
  <2>7. Mantiene(p, q)
    <3> SUFFICES ASSUME p.exec \in ESIs, q.exec = p.exec
                 PROVE  /\ q.pcb[p.exec].actual = p.pcb[p.exec].actual
                        /\ \A x \in ToSet(p.listos) : q.pcb[x].real = p.pcb[x].real
      BY DEF Mantiene
    <3>1. p.exec \notin ToSet(c.bloqueados)
      BY <2>2 DEF Ubicados
    <3>2. \A x \in ToSet(p.listos) : x \in ESIs /\ x \notin ToSet(c.bloqueados)
      BY <2>a, <2>2 DEF Ubicados
    <3> QED BY <2>2, <2>3, <2>4, <3>1, <3>2
  <2>8. Suelta(p, q)
    <3>1. p.exec \notin ToSet(q.listos)
      BY <2>2, <2>3, <2>4 DEF Ubicados
    <3> QED BY <3>1 DEF Suelta
  <2> QED BY <2>6, <2>7, <2>8 DEF NoDesaloja
<1> QED BY <1>1, <1>2 DEF finalizar_esi

\* A new ESI is compared with the running one.  Its record is new, and nobody's.
LEMMA NuevoNoDesaloja ==
  ASSUME NEW p \in Memoria, NEW S, Ubicados(p, S), NEW e \in ESIs,
         ~p.fallo, e \notin S,
         NEW q \in atender_nuevo_esi(p, e)
  PROVE  NoDesaloja(p, q)
<1> DEFINE l == Append(p.listos, e)
           c == [p.pcb EXCEPT ![e] = crear_esi]
           r == [p EXCEPT !.pcb = c, !.listos = l]
           m == pedir_desalojo(r, e)
<1>1. l \in Seq(ESIs) /\ ToSet(l) = ToSet(p.listos) \cup {e}
  BY AgregarAlFinal DEF Memoria
<1>2. c \in [ESIs -> Pcb]
  BY EstimacionPositiva DEF Memoria, crear_esi, Pcb
<1>3. q \in planificar(m)
  BY DEF atender_nuevo_esi, Memoria
<1>4. \A x \in ESIs \ {e} : c[x] = p.pcb[x]
  BY DEF Memoria
<1> HIDE DEF l, c
<1>5. /\ r \in Memoria /\ r.exec = p.exec /\ r.listos = l /\ r.pcb = c
      /\ r.por_desalojar = p.por_desalojar
  BY <1>1, <1>2 DEF Memoria
<1> HIDE DEF r
<1>6. m \in Memoria
  <2> DEFINE v == m.por_desalojar
  <2>1. v \in ESIs \cup {Nadie} /\ m = [r EXCEPT !.por_desalojar = v]
    BY <1>5, PedirDesalojo
  <2> HIDE DEF v
  <2> QED BY <1>5, <2>1 DEF Memoria
<1>7. /\ m.exec = p.exec /\ m.listos = l /\ m.pcb = c
      /\ m.por_desalojar # p.por_desalojar =>
           m.por_desalojar = e /\ p.exec \in ESIs /\ c[e].real < c[p.exec].actual
  <2>1. /\ m.exec = p.exec /\ m.listos = l /\ m.pcb = c
        /\ m.por_desalojar = IF Desaloja(r, e) THEN e ELSE p.por_desalojar
    BY <1>5 DEF pedir_desalojo, Memoria
  <2>2. Desaloja(r, e) => p.exec # Nadie /\ c[e].real < c[p.exec].actual
    BY <1>5 DEF Desaloja
  <2>3. p.exec \in ESIs \cup {Nadie}
    BY DEF Memoria
  <2> HIDE DEF m
  <2> QED BY <2>1, <2>2, <2>3
<1> HIDE DEF m
<1>8. p.exec # e /\ e \notin ToSet(p.listos) /\ ToSet(p.listos) \subseteq ESIs
  BY Elementos, PidsDistintos DEF Memoria, Ubicados, Presentes
<1>9. NoDesaloja(p, m)
  <2>1. Decidido(p, m)
    BY <1>1, <1>7 DEF Decidido
  <2>2. Mantiene(p, m)
    BY <1>4, <1>7, <1>8 DEF Mantiene
  <2>3. Suelta(p, m)
    BY <1>7 DEF Suelta
  <2> QED BY <2>1, <2>2, <2>3 DEF NoDesaloja
<1> QED BY <1>3, <1>6, <1>9, PlanificarDespues

\* An ESI that the operator blocks leaves esi_listos, or goes on until its CORRECTO.
LEMMA BloquearNoDesaloja ==
  ASSUME NEW p \in Memoria, NEW S, Ubicados(p, S), NEW k, NEW e \in ESIs
  PROVE  NoDesaloja(p, bloquear_esi_pid(p, k, e))
<1> DEFINE q == bloquear_esi_pid(p, k, e)
           g == [p.pcb EXCEPT ![e].clave = k]
<1>1. ASSUME NEW x \in ESIs PROVE g[x].real = p.pcb[x].real /\ g[x].actual = p.pcb[x].actual
  <2>1. p.pcb \in [ESIs -> Pcb] /\ p.pcb[x] \in Pcb
    BY DEF Memoria
  <2> QED BY <2>1 DEF Pcb
<1>2. p.listos \in Seq(ESIs) /\ ToSet(p.listos) \subseteq ESIs
  BY Elementos DEF Memoria
<1>3. ToSet(sacar_esi_de_lista_pid(p.listos, e)) \subseteq ToSet(p.listos)
  BY <1>2, SacarUno DEF Ubicados
<1>4. /\ q.exec = p.exec /\ q.por_desalojar = p.por_desalojar /\ q.pcb \in {p.pcb, g}
      /\ ToSet(q.listos) \subseteq ToSet(p.listos)
  BY <1>3 DEF bloquear_esi_pid, Memoria
<1> HIDE DEF q, g
<1>5. NoDesaloja(p, q)
  BY <1>1, <1>2, <1>4 DEF NoDesaloja, Decidido, Mantiene, Suelta
<1> QED BY <1>5 DEF q

\* The ESI whose GET was refused goes to esi_bloqueados.
LEMMA BloqueadaNoDesaloja ==
  ASSUME NEW p \in Memoria, NEW S, Ubicados(p, S), p.exec # Nadie, NEW e \in ESIs
  PROVE  NoDesaloja(p, resultado_clave_bloqueada(p, e))
<1> DEFINE q == resultado_clave_bloqueada(p, e)
<1>1. CASE q \in {p, Romper(p)}
  BY <1>1, NoDesalojaRomper
<1>2. CASE q.exec = Nadie /\ q.listos = p.listos /\ q.por_desalojar = p.por_desalojar
  BY <1>2, PidsDistintos DEF NoDesaloja, Decidido, Mantiene, Suelta, Ubicados
<1>3. \/ q \in {p, Romper(p)}
      \/ q.exec = Nadie /\ q.listos = p.listos /\ q.por_desalojar = p.por_desalojar
  BY DEF resultado_clave_bloqueada, Memoria
<1> QED BY <1>1, <1>2, <1>3

--------------------------------------------------------------------------------
(***************************************************************************)
(* The CORRECTO of the running ESI, which applies the preemption.          *)
(***************************************************************************)
\* The pending preemption, if any, is of a ready ESI that beats the running one.
Justo(p) ==
  p.por_desalojar # Nadie =>
    /\ p.por_desalojar \in ToSet(p.listos)
    /\ p.pcb[p.por_desalojar].real < p.pcb[p.exec].actual

\* From p to q the ESI that runs in p keeps the processor, or does not become
\* ready, or loses it to one with an estimate below what was left of its own.
DesalojaBien(p, q) ==
  \/ q.exec = p.exec
  \/ p.exec \notin ToSet(q.listos)
  \/ q.exec \in ESIs /\ q.pcb[q.exec].real < p.pcb[p.exec].actual

\* The ESI that ends leaves the processor.
LEMMA FinalizarSuelta ==
  ASSUME NEW p \in Memoria, p.exec \in ESIs, NEW q \in finalizar_esi(p, p.exec, TRUE)
  PROVE  q.exec = Nadie
<1> DEFINE c == sacar_de_colas(p, p.exec)
<1>1. c \in Memoria /\ c.exec = Nadie
  BY SacarDeColas DEF Deriva
<1> HIDE DEF c
<1>2. PICK r \in desbloquear_claves_bloqueadas_pid(c, p.exec) : q = pasar_a_terminados(r, p.exec)
  BY DEF finalizar_esi, EnSistema, c
<1>3. r \in Memoria /\ r.exec = Nadie
  BY <1>1, Liberar DEF Deriva
<1> QED BY <1>2, <1>3, PasarATerminados

\* The preemption gives the processor to the ESI in esi_por_desalojar.
LEMMA DesalojoAplicado ==
  ASSUME NEW p \in Memoria, p.exec # Nadie, p.por_desalojar \in ToSet(p.listos)
  PROVE  LET q == confirmar_desalojo_ejecucion(p)
         IN  /\ q.exec = p.por_desalojar /\ q.exec \in ESIs
             /\ q.pcb[q.exec].real = p.pcb[q.exec].real
<1> DEFINE q == confirmar_desalojo_ejecucion(p)
           g == [p.pcb EXCEPT ![p.exec].espera = 0]
           cola == Append(p.listos, p.exec)
           f == p.por_desalojar
<1>1. p.exec \in ESIs /\ p.listos \in Seq(ESIs)
  BY DEF Memoria
<1>2. f \in ESIs /\ f \in ToSet(cola)
  BY <1>1, Elementos, AgregarAlFinal
<1>3. g[f].real = p.pcb[f].real
  <2>1. p.pcb \in [ESIs -> Pcb] /\ p.pcb[f] \in Pcb
    BY <1>2 DEF Memoria
  <2> QED BY <2>1 DEF Pcb
<1> HIDE DEF g, cola
<1>4. q.exec = f /\ q.pcb = g
  BY <1>2 DEF confirmar_desalojo_ejecucion, Memoria, g, cola
<1> QED BY <1>2, <1>3, <1>4

\* What is left of a burst does not grow when a sentence is counted.
LEMMA RestaNoAumenta ==
  ASSUME NEW a \in Int, NEW n \in Nat, NEW b \in {a, a - n}
  PROVE  b \in Int /\ b <= a
  OBVIOUS

\* Between the count of the sentence and confirmar_desalojo_ejecucion the pending
\* preemption may be replaced by that of an ESI that the STORE has woken, which was
\* compared with what is left after the count; or the running ESI may leave.
LEMMA CorrectoDesaloja ==
  ASSUME NEW p \in Memoria, NEW S, Ubicados(p, S), p.exec # Nadie,
         NEW q \in resultado_correcto(p)
  PROVE  /\ q.fallo \/ q.por_desalojar = Nadie
         /\ ~p.pausado /\ ~p.bloqueo /\ Justo(p) => DesalojaBien(p, q)
<1> DEFINE c1 == [p EXCEPT !.pcb[p.exec] = [sentencia_contada(@) EXCEPT !.repetir = FALSE]]
           c2 == IF c1.bloqueo THEN confirmar_bloqueo_ejecucion(c1) ELSE c1
           c3 == IF c2.por_get THEN confirmar_bloqueo_por_get(c2) ELSE c2
           c4 == IF ~c3.fallo /\ c3.store_clave # Ninguna
                 THEN confirmar_desbloqueo_por_store(c3) ELSE c3
           c5 == IF ~c4.fallo /\ c4.pausado THEN confirmar_pausa_por_consola(c4) ELSE c4
           C6 == IF ~c5.fallo /\ c5.kill THEN confirmar_kill_ejecucion(c5) ELSE {c5}
           c7(c) == IF ~c.fallo /\ c.por_desalojar # Nadie
                    THEN confirmar_desalojo_ejecucion(c) ELSE c
           c8(c) == IF ~c.fallo /\ c.exec # Nadie
                    THEN enviar_esi_confirmacion_sentencia(c) ELSE c
           D(c) == c \in Memoria /\ Ubicados(c, S)
           e == p.exec
<1>0. e \in ESIs
  BY DEF Memoria
<1>1. PICK c6 \in C6 : q = c8(c7(c6))
  BY DEF resultado_correcto
<1>2. /\ D(c1) /\ c1.exec = e /\ c1.listos = p.listos /\ c1.por_desalojar = p.por_desalojar
      /\ c1.bloqueo = p.bloqueo /\ c1.pausado = p.pausado
      /\ \A x \in ESIs : c1.pcb[x].real = p.pcb[x].real
      /\ c1.pcb[e].actual \in Int /\ p.pcb[e].actual \in Int
      /\ c1.pcb[e].actual <= p.pcb[e].actual
  <2> DEFINE f == [sentencia_contada(p.pcb[e]) EXCEPT !.repetir = FALSE]
             g == [p.pcb EXCEPT ![e] = f]
  <2>1. p.pcb \in [ESIs -> Pcb] /\ p.pcb[e] \in Pcb
    BY <1>0 DEF Memoria
  <2>2. sentencia_contada(p.pcb[e]) \in Pcb
    BY <2>1, Ficha
  <2>3. f \in Pcb
    BY <2>2 DEF Pcb
  <2>4. f.real = p.pcb[e].real /\ f.actual \in {p.pcb[e].actual, p.pcb[e].actual - Escala}
    <3> DEFINE s == sentencia_contada(p.pcb[e])
    <3>1. s.real = p.pcb[e].real /\ s.actual \in {p.pcb[e].actual, p.pcb[e].actual - Escala}
      BY <2>1 DEF sentencia_contada, Pcb
    <3> HIDE DEF s
    <3>2. f = [s EXCEPT !.repetir = FALSE]
      BY DEF s
    <3> HIDE DEF f
    <3> QED BY <2>2, <3>1, <3>2 DEF Pcb, s
  <2>5. c1 = [p EXCEPT !.pcb = g]
    BY DEF Memoria
  <2>6. p.pcb[e].actual \in Int
    BY <2>1 DEF Pcb
  <2>7. f.actual \in Int /\ f.actual <= p.pcb[e].actual
    BY <2>4, <2>6, RestaNoAumenta, EstimacionPositiva
  <2> HIDE DEF f, c1
  <2>8. g \in [ESIs -> Pcb] /\ g[e] = f /\ \A x \in ESIs \ {e} : g[x] = p.pcb[x]
    BY <1>0, <2>1, <2>3
  <2> HIDE DEF g
  <2>9. c1 \in Memoria /\ NadieSeMueve(p, c1)
    BY <2>5, <2>8 DEF Memoria, NadieSeMueve
  <2>10. D(c1)
    BY <2>9, UbicadosQuietos
  <2>11. /\ c1.exec = e /\ c1.listos = p.listos /\ c1.por_desalojar = p.por_desalojar
         /\ c1.bloqueo = p.bloqueo /\ c1.pausado = p.pausado /\ c1.pcb = g
    BY <2>5 DEF Memoria
  <2> HIDE DEF D
  <2> QED BY <2>4, <2>6, <2>7, <2>8, <2>10, <2>11
<1> HIDE DEF c1
<1>3. D(c2)
  BY <1>0, <1>2, ConfirmarBloqueo, ConfirmarUbica DEF Deriva
<1>4. ~p.bloqueo => c2 = c1
  BY <1>2
<1> HIDE DEF c2
<1>5. D(c3)
  BY <1>3, ConfirmarGet, ConfirmarUbica DEF Deriva
<1>6. /\ c3.exec = c2.exec /\ c3.listos = c2.listos /\ c3.por_desalojar = c2.por_desalojar
      /\ c3.pcb = c2.pcb /\ c3.pausado = c2.pausado
  BY <1>3 DEF confirmar_bloqueo_por_get, bloquear_clave, Romper, Memoria
<1> HIDE DEF c3
<1>7. D(c4)
  BY <1>5, ConfirmarStore, ConfirmarUbica DEF Deriva
<1>8. /\ NoDesaloja(c3, c4) /\ c4.exec = c3.exec /\ c4.pausado = c3.pausado
      /\ ToSet(c3.listos) \subseteq ToSet(c4.listos)
  <2>1. CASE c4 = c3
    BY <1>5, <2>1, NoDesalojaRomper
  <2>2. CASE c3.store_clave # Ninguna /\ c4 = confirmar_desbloqueo_por_store(c3)
    <3> DEFINE m == desbloquear_clave(c3, c3.store_clave)
    <3>1. c3.store_clave \in Claves
      BY <1>5, <2>2 DEF Memoria
    <3>2. /\ NoDesaloja(c3, m) /\ m.exec = c3.exec /\ m.pausado = c3.pausado
          /\ ToSet(c3.listos) \subseteq ToSet(m.listos) /\ m \in Memoria
      <4>1. c3 \in Memoria /\ Ubicados(c3, S)
        BY <1>5
      <4> HIDE DEF D
      <4>2. Deriva(c3, m, {}) /\ Quieta(c3, m)
        BY <3>1, <4>1, DesbloquearQuieta, DesbloquearClave
      <4>3. NoDesaloja(c3, m) /\ ToSet(c3.listos) \subseteq ToSet(m.listos)
        BY <3>1, <4>1, DesbloquearNoDesaloja
      <4> HIDE DEF m
      <4> QED BY <4>2, <4>3 DEF Quieta, Respeta, Deriva
    <3>3. c4 = [m EXCEPT !.store_clave = Ninguna]
      BY <2>2 DEF confirmar_desbloqueo_por_store
    <3> HIDE DEF m
    <3>4. /\ c4.exec = m.exec /\ c4.listos = m.listos /\ c4.por_desalojar = m.por_desalojar
          /\ c4.pcb = m.pcb /\ c4.pausado = m.pausado
      BY <3>2, <3>3 DEF Memoria
    <3> HIDE DEF c4
    <3>5. NoDesaloja(c3, c4)
      BY <3>2, <3>4 DEF NoDesaloja, Decidido, Mantiene, Suelta
    <3> QED BY <3>2, <3>4, <3>5
  <2> QED BY <2>1, <2>2
<1> HIDE DEF c4
<1>9. D(c5)
  BY <1>7, ConfirmarPausa, ConfirmarUbica DEF Deriva
<1>10. ~c4.pausado => c5 = c4
  OBVIOUS
<1> HIDE DEF c5
<1>11. D(c6) /\ (c6 = c5 \/ (NoDesaloja(c5, c6) /\ c6.exec = Nadie))
  <2>1. CASE c6 = c5
    BY <1>9, <2>1
  <2>2. CASE c5.exec = Nadie /\ c6 = Romper(c5)
    <3>1. NadieSeMueve(c5, Romper(c5)) /\ Romper(c5).exec = Nadie
      BY <1>9, <2>2 DEF Romper, NadieSeMueve, Memoria
    <3> QED BY <1>9, <2>2, <3>1, DerivaRomper, UbicadosQuietos, NoDesalojaRomper DEF Deriva
  <2>3. CASE c5.exec # Nadie /\ c6 \in finalizar_esi(c5, c5.exec, TRUE)
    <3>1. c5.exec \in ESIs
      BY <1>9, <2>3 DEF Memoria
    <3>2. c6.exec = Nadie
      BY <1>9, <2>3, <3>1, FinalizarSuelta
    <3> QED BY <1>9, <2>3, <3>1, <3>2, FinalizarEsi, FinalizarUbica, FinalizarNoDesaloja DEF Deriva
  <2> QED BY <1>1, <2>1, <2>2, <2>3 DEF confirmar_kill_ejecucion
<1> HIDE DEF C6
<1> DEFINE d == c7(c6)
<1>12. D(d)
  BY <1>11, ConfirmarDesalojo, ConfirmarUbica DEF Deriva
<1>13. d.fallo \/ d.por_desalojar = Nadie
  BY <1>11 DEF confirmar_desalojo_ejecucion, Romper, Memoria
<1>14. q.exec = d.exec /\ q.listos = d.listos /\ q.pcb = d.pcb
       /\ q.por_desalojar = d.por_desalojar /\ q.fallo = d.fallo
  <2> HIDE DEF d
  <2>1. q = c8(d)
    BY <1>1 DEF d
  <2> QED BY <1>12, <2>1 DEF enviar_esi_confirmacion_sentencia, Memoria
<1>15. ASSUME ~p.pausado, ~p.bloqueo, Justo(p)
       PROVE  DesalojaBien(p, d)
  <2>1. /\ c3.exec = e /\ c3.listos = p.listos /\ c3.por_desalojar = p.por_desalojar
        /\ c3.pcb = c1.pcb /\ ~c3.pausado
    BY <1>2, <1>4, <1>6, <1>15
  <2>2. c5 = c4 /\ c5.exec = e
    BY <1>8, <1>10, <2>1
  <2>3. ToSet(p.listos) \subseteq ESIs
    BY Elementos DEF Memoria
  <2>4. c5.por_desalojar # Nadie =>
          c5.por_desalojar \in ToSet(c5.listos) /\ c5.pcb[c5.por_desalojar].real < p.pcb[e].actual
    <3>1. CASE c5.por_desalojar = p.por_desalojar
      BY <1>0, <1>2, <1>8, <1>15, <2>1, <2>2, <2>3, <3>1 DEF NoDesaloja, Mantiene, Justo
    <3>2. CASE c5.por_desalojar # p.por_desalojar
      <4>1. /\ c5.por_desalojar \in ToSet(c5.listos)
            /\ c5.pcb[c5.por_desalojar].real < c5.pcb[e].actual
        BY <1>8, <2>1, <2>2, <3>2 DEF NoDesaloja, Decidido
      <4>2. c5.pcb[e].actual = c1.pcb[e].actual
        BY <1>0, <1>8, <2>1, <2>2 DEF NoDesaloja, Mantiene
      <4>3. c5.pcb[c5.por_desalojar].real \in Int
        <5>1. c5.por_desalojar \in ESIs /\ c5.pcb[c5.por_desalojar] \in Pcb
          BY <1>9, <4>1, Elementos DEF Memoria
        <5> QED BY <5>1 DEF Pcb
      <4> QED BY <1>2, <4>1, <4>2, <4>3
    <3> QED BY <3>1, <3>2
  <2>5. CASE c6 = c5
    <3>1. CASE c6.fallo \/ c6.por_desalojar = Nadie
      BY <2>2, <2>5, <3>1 DEF DesalojaBien
    <3>2. CASE ~c6.fallo /\ c6.por_desalojar # Nadie
      <4>1. /\ c6.exec = e /\ c6.exec # Nadie /\ c6 \in Memoria
            /\ c6.por_desalojar \in ToSet(c6.listos)
            /\ c6.pcb[c6.por_desalojar].real < p.pcb[e].actual
        BY <1>9, <2>2, <2>4, <2>5, <3>2
      <4>2. d = confirmar_desalojo_ejecucion(c6)
        BY <3>2
      <4> HIDE DEF d
      <4>3. d.exec \in ESIs /\ d.pcb[d.exec].real = c6.pcb[d.exec].real /\ d.exec = c6.por_desalojar
        BY <4>1, <4>2, DesalojoAplicado
      <4> QED BY <4>1, <4>3 DEF DesalojaBien
    <3> QED BY <3>1, <3>2
  <2>6. CASE NoDesaloja(c5, c6) /\ c6.exec = Nadie
    <3>1. e \notin ToSet(c6.listos)
      BY <1>0, <2>2, <2>6, PidsDistintos DEF NoDesaloja, Suelta
    <3>2. d \in {c6, Romper(c6)}
      BY <2>6 DEF confirmar_desalojo_ejecucion
    <3>3. Romper(c6).listos = c6.listos
      BY <1>11 DEF Romper, Memoria
    <3> HIDE DEF d
    <3> QED BY <3>1, <3>2, <3>3 DEF DesalojaBien
  <2> QED BY <1>11, <2>5, <2>6
<1> HIDE DEF d
<1>16. DesalojaBien(p, d) => DesalojaBien(p, q)
  BY <1>14 DEF DesalojaBien
<1> QED BY <1>13, <1>14, <1>15, <1>16

--------------------------------------------------------------------------------
(***************************************************************************)
(* The handlers.                                                           *)
(***************************************************************************)
\* What a CORRECTO may do to the pending preemption and to the running ESI.
Aplica(p, q) ==
  /\ q.fallo \/ q.por_desalojar = Nadie
  /\ ~p.pausado /\ ~p.bloqueo /\ Justo(p) => DesalojaBien(p, q)

\* Of the messages of the running ESI, only CORRECTO applies the preemption.
LEMMA MensajeDesaloja ==
  ASSUME NEW p \in Memoria, NEW S, Ubicados(p, S), NEW e \in ESIs, NEW resultado,
         NEW q \in recibir_mensaje_esi(p, e, resultado)
  PROVE  NoDesaloja(p, q) \/ Aplica(p, q)
<1>1. PICK r \in procesar_resultado(p, e, resultado) :
        q \in planificar(aumentar_tiempo_espera_ready(r))
  BY DEF recibir_mensaje_esi
<1> DEFINE s == aumentar_tiempo_espera_ready(r)
<1>2. r \in Memoria
  BY ProcesarResultado DEF Deriva
<1>3. s \in Memoria
  BY <1>2, AumentarEspera DEF Deriva
<1>4. CASE NoDesaloja(p, r)
  <2>1. NoDesaloja(p, s)
    BY <1>2, <1>4, AumentarDespues
  <2> HIDE DEF s
  <2>2. NoDesaloja(p, q)
    BY <1>1, <1>3, <2>1, PlanificarDespues DEF s
  <2> QED BY <2>2
<1>5. CASE p.exec # Nadie /\ Aplica(p, r)
  <2>1. /\ s.exec = r.exec /\ s.listos = r.listos /\ s.por_desalojar = r.por_desalojar
        /\ s.fallo = r.fallo /\ \A x \in ESIs : s.pcb[x].real = r.pcb[x].real
    BY <1>2, AumentarIgual
  <2> HIDE DEF s
  <2>2. q \in planificar(s)
    BY <1>1 DEF s
  <2>3. s.fallo \/ s.por_desalojar = Nadie
    BY <1>5, <2>1 DEF Aplica
  <2>4. q.fallo \/ q.por_desalojar = Nadie
    BY <1>3, <2>2, <2>3, PlanificarElige
  <2>5. ASSUME DesalojaBien(p, r) PROVE DesalojaBien(p, q)
    <3>1. DesalojaBien(p, s)
      BY <2>1, <2>5 DEF DesalojaBien
    <3>2. CASE q = s
      BY <3>1, <3>2
    <3>3. CASE s.exec = Nadie /\ ToSet(q.listos) \subseteq ToSet(s.listos)
      BY <1>5, <3>1, <3>3, PidsDistintos DEF DesalojaBien
    <3> QED BY <1>3, <2>2, <3>2, <3>3, PlanificarElige
  <2> QED BY <1>5, <2>4, <2>5 DEF Aplica
<1>6. CASE p.exec = Nadie
  BY <1>1, <1>4, <1>6, NoDesalojaRomper DEF procesar_resultado
<1>7. CASE p.exec # Nadie
  <2>1. p.exec \in ESIs
    BY <1>7 DEF Memoria
  <2>2. \/ r \in resultado_correcto(p)
        \/ \E l \in BOOLEAN : r \in finalizar_esi(p, p.exec, l)
        \/ r = resultado_clave_bloqueada(p, e)
    BY <1>1, <1>7 DEF procesar_resultado
  <2>3. CASE r \in resultado_correcto(p)
    BY <1>5, <1>7, <2>3, CorrectoDesaloja DEF Aplica
  <2>4. CASE \E l \in BOOLEAN : r \in finalizar_esi(p, p.exec, l)
    BY <1>4, <2>1, <2>4, FinalizarNoDesaloja
  <2>5. CASE r = resultado_clave_bloqueada(p, e)
    BY <1>4, <1>7, <2>5, BloqueadaNoDesaloja
  <2> QED BY <2>2, <2>3, <2>4, <2>5
<1> QED BY <1>6, <1>7

\* The end of a connection, which plans, finishes the ESI and plans again.
LEMMA DesconexionNoDesaloja ==
  ASSUME NEW p \in Memoria, NEW S, Ubicados(p, S), NEW e \in ESIs,
         NEW q \in recibir_desconexion_esi(p, e)
  PROVE  NoDesaloja(p, q)
<1>0. PICK m \in planificar(p) :
        \E r \in finalizar_esi(m, e, TRUE) : q \in planificar(r)
  BY DEF recibir_desconexion_esi
<1>1. PICK r \in finalizar_esi(m, e, TRUE) : q \in planificar(r)
  BY <1>0
<1>2. m \in Memoria /\ Ubicados(m, S)
  BY <1>0, Planificar, PlanificarUbica DEF Deriva
<1>3. r \in Memoria /\ NoDesaloja(m, r)
  BY <1>1, <1>2, FinalizarEsi, FinalizarNoDesaloja DEF Deriva
<1>4. NoDesaloja(m, q)
  BY <1>1, <1>2, <1>3, PlanificarDespues
<1> QED BY <1>0, <1>4, PlanificarAntes

\* One command of the console each: pausar, continuar, desbloquear, bloquear, kill.
LEMMA ConsolaNoDesaloja ==
  ASSUME NEW p \in Memoria, NEW S, Ubicados(p, S), NEW q,
         \/ q = consola_pausar(p) \/ q \in consola_continuar(p)
         \/ \E k \in Claves : q \in consola_desbloquear_clave(p, k)
         \/ \E k \in Claves, e \in ESIs : q = consola_bloquear_clave(p, k, e)
         \/ \E e \in ESIs : q \in consola_matar_proceso(p, e)
  PROVE  NoDesaloja(p, q)
<1>1. CASE q = consola_pausar(p)
  <2>1. q.exec = p.exec /\ q.listos = p.listos /\ q.por_desalojar = p.por_desalojar /\ q.pcb = p.pcb
    BY <1>1 DEF consola_pausar, Memoria
  <2> QED BY <2>1, NoDesalojaIgual
<1>2. CASE q \in consola_continuar(p)
  <2> DEFINE m == [p EXCEPT !.pausado = FALSE]
  <2>1. /\ m \in Memoria
        /\ m.exec = p.exec /\ m.listos = p.listos /\ m.por_desalojar = p.por_desalojar
        /\ m.pcb = p.pcb
    BY DEF Memoria
  <2>2. q \in planificar(m)
    BY <1>2 DEF consola_continuar
  <2> HIDE DEF m
  <2>3. NoDesaloja(p, m)
    BY <2>1, NoDesalojaIgual
  <2> QED BY <2>1, <2>2, <2>3, PlanificarDespues
<1>3. ASSUME NEW k \in Claves, q \in consola_desbloquear_clave(p, k)
      PROVE  NoDesaloja(p, q)
  <2> DEFINE m == desbloquear_clave(p, k)
  <2>1. q \in planificar(m)
    BY <1>3 DEF consola_desbloquear_clave
  <2>2. Deriva(p, m, {}) /\ NoDesaloja(p, m)
    BY DesbloquearClave, DesbloquearNoDesaloja
  <2> HIDE DEF m
  <2>3. m \in Memoria
    BY <2>2 DEF Deriva
  <2> QED BY <2>1, <2>2, <2>3, PlanificarDespues
<1>4. ASSUME NEW k \in Claves, NEW e \in ESIs, q = consola_bloquear_clave(p, k, e)
      PROVE  NoDesaloja(p, q)
  <2>1. CASE q = bloquear_esi_pid(p, k, e)
    BY <2>1, BloquearNoDesaloja
  <2>2. CASE q = bloquear_clave(p, k, e)
    <3>1. /\ q.exec = p.exec /\ q.listos = p.listos /\ q.por_desalojar = p.por_desalojar
          /\ q.pcb = p.pcb
      BY <2>2 DEF bloquear_clave, Memoria
    <3> QED BY <3>1, NoDesalojaIgual
  <2> QED BY <1>4, <2>1, <2>2 DEF consola_bloquear_clave
<1>5. ASSUME NEW e \in ESIs, q \in consola_matar_proceso(p, e)
      PROVE  NoDesaloja(p, q)
  <2>1. CASE q = [p EXCEPT !.kill = TRUE]
    <3>1. /\ q.exec = p.exec /\ q.listos = p.listos /\ q.por_desalojar = p.por_desalojar
          /\ q.pcb = p.pcb
      BY <2>1 DEF Memoria
    <3> QED BY <3>1, NoDesalojaIgual
  <2>2. ASSUME NEW m \in finalizar_esi(p, e, TRUE), q \in planificar(m)
        PROVE  NoDesaloja(p, q)
    <3>1. m \in Memoria /\ NoDesaloja(p, m)
      BY FinalizarEsi, FinalizarNoDesaloja DEF Deriva
    <3> QED BY <2>2, <3>1, PlanificarDespues
  <2> QED BY <1>5, <2>1, <2>2 DEF consola_matar_proceso
<1> QED BY <1>1, <1>2, <1>3, <1>4, <1>5

--------------------------------------------------------------------------------
(***************************************************************************)
(* The system.                                                             *)
(***************************************************************************)
\* A step of the system preempts nobody or is a CORRECTO.  One of an ESI or of the
\* Coordinador, which may follow the end of the Planificador, does not touch it.
LEMMA PasoDesaloja ==
  ASSUME IColas, Next
  PROVE  /\ plan.fallo => plan'.fallo /\ plan'.exec = plan.exec
         /\ NoDesaloja(plan, plan') \/ Aplica(plan, plan')
<1>1. plan \in Memoria /\ Ubicados(plan, Llegados)
  BY DEF IColas, IInv, TypeOK
<1>2. ASSUME NEW e \in ESIs, Esi(e) \/ Coordinador(e) \/ Caer(e)
      PROVE  /\ plan'.fallo = plan.fallo /\ plan'.exec = plan.exec
             /\ NoDesaloja(plan, plan')
  <2>1. plan' = plan \/ plan' = [plan EXCEPT !.orden = plan.orden \ {e}]
    BY <1>1, <1>2
    DEF Memoria, Esi, Coordinador, Caer, LeerLinea, RepetirLinea, FinDelScript, LineaInvalida,
        TomaOrden, RechazarSentencia, EliminarClave, ConsultarPlanificador, ProseguirOperacion,
        Responder
  <2>2. /\ plan'.exec = plan.exec /\ plan'.listos = plan.listos /\ plan'.fallo = plan.fallo
        /\ plan'.por_desalojar = plan.por_desalojar /\ plan'.pcb = plan.pcb
    BY <1>1, <2>1 DEF Memoria
  <2> QED BY <1>1, <2>2, NoDesalojaIgual
<1>3. ASSUME NEW e \in ESIs, LlegarEsi(e)
      PROVE  ~plan.fallo /\ NoDesaloja(plan, plan')
  <2>1. ~plan.fallo /\ e \notin Llegados /\ plan' \in atender_nuevo_esi(plan, e)
    BY <1>3 DEF LlegarEsi, Llegados
  <2> QED BY <1>1, <2>1, NuevoNoDesaloja
<1>4. ASSUME NEW e \in ESIs, RecibirConsulta(e)
      PROVE  ~plan.fallo /\ NoDesaloja(plan, plan')
  <2>1. /\ plan'.exec = plan.exec /\ plan'.listos = plan.listos
        /\ plan'.por_desalojar = plan.por_desalojar /\ plan'.pcb = plan.pcb
    BY <1>1, <1>4 DEF RecibirConsulta, recibir_mensaje_coordinador, Memoria
  <2> QED BY <1>1, <1>4, <2>1, NoDesalojaIgual DEF RecibirConsulta
<1>5. ASSUME NEW e \in ESIs, RecibirMensajeEsi(e)
      PROVE  ~plan.fallo /\ (NoDesaloja(plan, plan') \/ Aplica(plan, plan'))
  BY <1>1, <1>5, MensajeDesaloja DEF RecibirMensajeEsi
<1>6. ASSUME NEW e \in ESIs, RecibirDesconexion(e) \/ RecibirReset(e)
      PROVE  ~plan.fallo /\ NoDesaloja(plan, plan')
  BY <1>1, <1>6, DesconexionNoDesaloja, FinalizarNoDesaloja
  DEF RecibirDesconexion, RecibirReset, recibir_error_esi
<1>7. ASSUME Consola
      PROVE  ~plan.fallo /\ NoDesaloja(plan, plan')
  <2>1. \/ plan' = consola_pausar(plan) \/ plan' \in consola_continuar(plan)
        \/ \E k \in Claves : plan' \in consola_desbloquear_clave(plan, k)
        \/ \E k \in Claves, e \in ESIs : plan' = consola_bloquear_clave(plan, k, e)
        \/ \E e \in ESIs : plan' \in consola_matar_proceso(plan, e)
    BY <1>7
    DEF Consola, ConsolaPausar, ConsolaContinuar, ConsolaDesbloquear, ConsolaBloquear,
        ConsolaMatar
  <2>2. ~plan.fallo
    BY <1>7
    DEF Consola, ConsolaPausar, ConsolaContinuar, ConsolaDesbloquear, ConsolaBloquear,
        ConsolaMatar, Comando
  <2> QED BY <1>1, <2>1, <2>2, ConsolaNoDesaloja
<1> QED BY <1>2, <1>3, <1>4, <1>5, <1>6, <1>7 DEF Next, Atender

\* An ESI loses the processor only to one with an estimate below what was left of
\* its own burst, from the comparison to the CORRECTO that applies it, with the two
\* exceptions of QuitaConRazon.  IColas is what it takes: an ESI is in one place only, so
\* no function that moves another one touches either side of the comparison.
THEOREM SeDesalojaConRazon == Spec => DesalojoJusto
<1> DEFINE A == PideConRazon /\ QuitaConRazon
<1>1. IColas /\ [Next]_vars => [A]_vars
  <2> SUFFICES ASSUME IColas, Next PROVE PideConRazon /\ QuitaConRazon
    OBVIOUS
  <2>1. /\ plan.fallo => plan'.fallo /\ plan'.exec = plan.exec
        /\ NoDesaloja(plan, plan') \/ Aplica(plan, plan')
    BY PasoDesaloja
  <2>2. ASSUME NEW e \in ESIs, NEW f \in ESIs,
               ~plan'.fallo,
               plan'.exec = e, plan'.por_desalojar = f, f \in ToSet(plan'.listos),
               plan.por_desalojar # f \/ (plan.exec = e /\ PedidoJusto)
        PROVE  PedidoJusto'
    <3>1. e # Nadie /\ f # Nadie
      BY PidsDistintos
    <3>2. NoDesaloja(plan, plan')
      BY <2>1, <2>2, <3>1 DEF Aplica
    <3>3. plan'.pcb[f].real < plan'.pcb[e].actual
      <4>1. CASE plan.por_desalojar # f
        BY <2>2, <3>2, <4>1 DEF NoDesaloja, Decidido
      <4>2. CASE plan.por_desalojar = f /\ plan.exec = e /\ PedidoJusto
        BY <2>2, <3>2, <4>2 DEF NoDesaloja, Mantiene, PedidoJusto
      <4> QED BY <2>2, <4>1, <4>2
    <3> QED BY <2>2, <3>1, <3>3 DEF PedidoJusto
  <2>3. ASSUME NEW e \in ESIs, NEW f \in ESIs,
               plan.exec = e, plan'.exec = f, e # f, e \in ToSet(plan'.listos),
               ~plan.pausado, ~plan.bloqueo,
               plan.por_desalojar = Nadie \/ PedidoJusto
        PROVE  plan'.pcb[f].real < plan.pcb[e].actual
    <3>1. ~NoDesaloja(plan, plan')
      BY <2>3 DEF NoDesaloja, Suelta
    <3>2. Justo(plan)
      BY <2>3 DEF PedidoJusto, Justo
    <3> QED BY <2>1, <2>3, <3>1, <3>2 DEF Aplica, DesalojaBien
  <2> QED BY <2>2, <2>3 DEF PideConRazon, QuitaConRazon
<1>2. Init => IColas
  BY InicioColas
<1>3. IColas /\ [Next]_vars => IColas'
  BY ConservaColas
<1> QED BY <1>1, <1>2, <1>3, PTL DEF Spec, DesalojoJusto
================================================================================
