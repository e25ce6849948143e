--------------------------- MODULE ReDistinto_proofs ---------------------------
(***************************************************************************)
(* Proofs about ReDistinto, for any number of ESIs, keys and script lines  *)
(* and every algorithm.  With every console command, death of an ESI and   *)
(* failure of an Instancia: the types, that two scripts never advance at   *)
(* once, that every ESI is in exactly one place, and that a pause is       *)
(* respected.  When no ESI dies on its own: the processor is not left idle *)
(* and the running ESI always has something to do.                         *)
(* First, one lemma for each function of Planificador: what it does to the *)
(* memory.                                                                 *)
(***************************************************************************)
EXTENDS ReDistinto, SequenceTheorems, FiniteSetTheorems, WellFoundedInduction, TLAPS

(***************************************************************************)
(* Sequences and the least and greatest elements of a set of positions.    *)
(***************************************************************************)
LEMMA Minimo ==
  ASSUME NEW T \in SUBSET Nat, T # {}
  PROVE  Min(T) \in T /\ \A y \in T : Min(T) <= y
<1> DEFINE R == {ss \in Nat \X Nat : ss[1] < ss[2]}
<1>1. IsWellFoundedOn(R, Nat)
  BY NatLessThanWellFounded DEF OpToRel
<1>2. \A x, y \in Nat : <<y, x>> \notin R => x <= y
  OBVIOUS
<1> HIDE DEF R
<1>3. PICK x \in T : \A y \in T : ~ (<<y, x>> \in R)
  BY <1>1, WFMin
<1>4. ASSUME NEW y \in T PROVE x <= y
  <2>1. x \in Nat /\ y \in Nat OBVIOUS
  <2> QED BY <1>2, <1>3, <2>1
<1> QED BY <1>4 DEF Min

LEMMA Maximo ==
  ASSUME NEW n \in Nat, NEW T \in SUBSET (1..n), T # {}
  PROVE  Max(T) \in T
<1> DEFINE U == {n - x : x \in T}
<1>1. U \in SUBSET Nat /\ U # {}
  <2>1. ASSUME NEW x \in T PROVE n - x \in Nat
    <3>1. x \in 1..n OBVIOUS
    <3> QED BY <3>1
  <2>2. PICK x \in T : TRUE OBVIOUS
  <2>3. n - x \in U OBVIOUS
  <2> QED BY <2>1, <2>3
<1> HIDE DEF U
<1>2. Min(U) \in U /\ \A y \in U : Min(U) <= y
  BY <1>1, Minimo
<1>3. PICK x \in T : Min(U) = n - x
  BY <1>2 DEF U
<1>4. ASSUME NEW y \in T PROVE x >= y
  <2>1. n - y \in U BY DEF U
  <2>2. n - x <= n - y BY <1>2, <1>3, <2>1
  <2>3. x \in Int /\ y \in Int OBVIOUS
  <2> QED BY <2>2, <2>3
<1> QED BY <1>4 DEF Max

\* The elements of a list: where they come from.
LEMMA Elementos ==
  ASSUME NEW S, NEW s \in Seq(S)
  PROVE  /\ DOMAIN s = 1..Len(s) /\ Len(s) \in Nat
         /\ ToSet(s) \subseteq S
         /\ \A i \in DOMAIN s : s[i] \in ToSet(s)
         /\ \A x \in ToSet(s) : \E i \in DOMAIN s : s[i] = x
         /\ IsFiniteSet(ToSet(s))
<1>1. DOMAIN s = 1..Len(s) /\ Len(s) \in Nat /\ \A i \in DOMAIN s : s[i] \in S
  BY LenProperties, ElementOfSeq
<1>2. s \in Surjection(1..Len(s), ToSet(s))
  <2>1. s \in [1..Len(s) -> ToSet(s)]
    BY LenProperties, <1>1 DEF ToSet
  <2> QED BY <2>1, <1>1 DEF ToSet, Surjection
<1>3. IsFiniteSet(ToSet(s))
  <2>1. IsFiniteSet(1..Len(s)) BY <1>1, FS_Interval
  <2> QED BY <1>2, <2>1, FS_Surjection
<1> QED BY <1>1, <1>3 DEF ToSet

LEMMA AgregarAlFinal ==
  ASSUME NEW S, NEW s \in Seq(S), NEW x \in S
  PROVE  Append(s, x) \in Seq(S) /\ ToSet(Append(s, x)) = ToSet(s) \cup {x}
<1>1. /\ Append(s, x) \in Seq(S)
      /\ Len(Append(s, x)) = Len(s) + 1
      /\ \A i \in 1..Len(s) : Append(s, x)[i] = s[i]
      /\ Append(s, x)[Len(s) + 1] = x
  BY AppendProperties
<1>2. Len(s) \in Nat /\ DOMAIN s = 1..Len(s) /\ DOMAIN Append(s, x) = 1..(Len(s) + 1)
  BY <1>1, LenProperties
<1> QED BY <1>1, <1>2 DEF ToSet

LEMMA Concatenar ==
  ASSUME NEW S, NEW s \in Seq(S), NEW t \in Seq(S)
  PROVE  s \o t \in Seq(S) /\ ToSet(s \o t) \subseteq ToSet(s) \cup ToSet(t)
<1>1. /\ s \o t \in Seq(S)
      /\ Len(s \o t) = Len(s) + Len(t)
      /\ \A i \in 1..Len(s) + Len(t) :
           (s \o t)[i] = IF i <= Len(s) THEN s[i] ELSE t[i - Len(s)]
  BY ConcatProperties
<1>2. /\ Len(s) \in Nat /\ DOMAIN s = 1..Len(s)
      /\ Len(t) \in Nat /\ DOMAIN t = 1..Len(t)
      /\ DOMAIN (s \o t) = 1..(Len(s) + Len(t))
  BY <1>1, LenProperties
<1>3. ASSUME NEW i \in DOMAIN (s \o t) PROVE (s \o t)[i] \in ToSet(s) \cup ToSet(t)
  <2>1. CASE i <= Len(s) BY <2>1, <1>1, <1>2 DEF ToSet
  <2>2. CASE ~(i <= Len(s))
    <3>1. i - Len(s) \in DOMAIN t BY <2>2, <1>2
    <3> QED BY <2>2, <3>1, <1>1, <1>2 DEF ToSet
  <2> QED BY <2>1, <2>2
<1> QED BY <1>1, <1>3 DEF ToSet

LEMMA Quitar ==
  ASSUME NEW S, NEW s \in Seq(S), NEW i \in DOMAIN s
  PROVE  RemoveAt(s, i) \in Seq(S) /\ ToSet(RemoveAt(s, i)) \subseteq ToSet(s)
<1> DEFINE a == SubSeq(s, 1, i - 1)
           b == SubSeq(s, i + 1, Len(s))
<1>1. i \in 1..Len(s) /\ Len(s) \in Nat /\ DOMAIN s = 1..Len(s)
  BY LenProperties
<1>2. /\ a \in Seq(S) /\ Len(a) = i - 1 /\ \A j \in 1..(i - 1) : a[j] = s[j]
      /\ b \in Seq(S) /\ Len(b) = Len(s) - i /\ \A j \in 1..(Len(s) - i) : b[j] = s[j + i]
  <2>1. \A j \in 1..(i - 1) : s[j] \in S
    BY <1>1, ElementOfSeq
  <2>2. \A j \in (i + 1)..Len(s) : s[j] \in S
    BY <1>1, ElementOfSeq
  <2>3. i - 1 \in Int /\ i + 1 \in Int /\ Len(s) \in Int /\ i >= 1 /\ i <= Len(s)
    BY <1>1
  <2>4. a \in Seq(S) /\ Len(a) = i - 1 /\ \A j \in 1..(i - 1) : a[j] = s[j]
    BY <2>1, <2>3, SubSeqProperties
  <2>5. b \in Seq(S) /\ Len(b) = Len(s) - i /\ \A j \in 1..(Len(s) - i) : b[j] = s[j + i]
    BY <2>2, <2>3, SubSeqProperties
  <2> QED BY <2>4, <2>5
<1>3. DOMAIN a = 1..(i - 1) /\ DOMAIN b = 1..(Len(s) - i)
  BY <1>2, LenProperties
<1> HIDE DEF a, b
<1>4. ToSet(a) \subseteq ToSet(s) /\ ToSet(b) \subseteq ToSet(s)
  <2>1. \A j \in 1..(i - 1) : j \in DOMAIN s
    BY <1>1
  <2>2. \A j \in 1..(Len(s) - i) : j + i \in DOMAIN s
    BY <1>1
  <2> QED BY <2>1, <2>2, <1>2, <1>3 DEF ToSet
<1>5. a \o b \in Seq(S) /\ ToSet(a \o b) \subseteq ToSet(s)
  BY <1>2, <1>4, Concatenar
<1> QED BY <1>5 DEF RemoveAt, a, b

-------------------------------------------------------------------------------
(***************************************************************************)
(* What a function may do, from memory p to memory q.                      *)
(***************************************************************************)
\* The ESIs in the queues.
Presentes(p) == ({p.exec} \ {Nadie}) \cup ToSet(p.listos) \cup ToSet(p.bloqueados)

\* It keeps the types, brings nobody into the queues, sends orders to nobody
\* outside them, takes nobody out of terminados, and raises ejec_anterior only for the ESIs of R.
Deriva(p, q, R) ==
  /\ q \in Memoria
  /\ p.fallo => q.fallo
  /\ Presentes(q) \subseteq Presentes(p)
  /\ q.orden \subseteq p.orden \cup Presentes(p)
  /\ p.terminados \subseteq q.terminados
  /\ \A x \in ESIs : q.pcb[x].repetir => p.pcb[x].repetir \/ x \in R

\* It sends no order.
Calla(p, q) == q.orden \subseteq p.orden

\* It sends orders only to the ESI it leaves running.
Ordena(p, q) ==
  q.fallo \/ \A x \in q.orden : x \in p.orden \/ x = q.exec \/ x \in q.terminados

\* It does not take the processor from an ESI that stays in the system, nor
\* sends it another order.
Sigue(p, q) ==
  \/ q.fallo
  \/ /\ q.exec = p.exec \/ p.exec = Nadie \/ p.exec \in q.terminados
     /\ \A x \in q.orden :
          x \in p.orden \/ (x = q.exec /\ x # p.exec) \/ x \in q.terminados

LEMMA DerivaReflexiva ==
  ASSUME NEW p \in Memoria, NEW R
  PROVE  Deriva(p, p, R) /\ Calla(p, p) /\ Sigue(p, p)
  BY DEF Deriva, Calla, Sigue

LEMMA DerivaTransitiva ==
  ASSUME NEW p, NEW q, NEW r, NEW R, NEW T, R \subseteq T,
         Deriva(p, q, R), Deriva(q, r, T)
  PROVE  Deriva(p, r, T)
  BY DEF Deriva

\* Functions one after the other: no order, then orders to the one left running.
LEMMA Encadena ==
  ASSUME NEW p \in Memoria, NEW q \in Memoria, NEW r \in Memoria,
         q.fallo => r.fallo, q.terminados \subseteq r.terminados
  PROVE  /\ Calla(p, q) /\ Calla(q, r) => Calla(p, r)
         /\ Calla(p, q) /\ Ordena(q, r) => Ordena(p, r)
         /\ Ordena(p, q) /\ Sigue(q, r) => Ordena(p, r)
         /\ Sigue(p, q) /\ Sigue(q, r) => Sigue(p, r)
  BY PidsDistintos DEF Memoria, Calla, Ordena, Sigue

-------------------------------------------------------------------------------
(***************************************************************************)
(* The functions that choose the next ESI.                                 *)
(***************************************************************************)
LEMMA EnvioDeConfirmacion ==
  ASSUME NEW p \in Memoria, p.exec # Nadie
  PROVE  LET q == enviar_esi_confirmacion_sentencia(p)
         IN  Deriva(p, q, {}) /\ Ordena(p, q) /\ q.exec = p.exec
  BY DEF Memoria, Deriva, Ordena, Presentes, enviar_esi_confirmacion_sentencia

LEMMA Planificar ==
  ASSUME NEW p \in Memoria, NEW q \in planificar(p)
  PROVE  Deriva(p, q, {}) /\ Sigue(p, q)
<1>1. CASE q = p
  BY <1>1, DerivaReflexiva
<1>2. CASE p.exec = Nadie /\ q \in obtener_proximo_ejecucion(p)
  <2>1. PICK i \in Proximos(p) :
          q = enviar_esi_confirmacion_sentencia(
                [p EXCEPT !.exec = p.listos[i], !.listos = RemoveAt(p.listos, i)])
    BY <1>2 DEF obtener_proximo_ejecucion
  <2> DEFINE e == p.listos[i]
             l == RemoveAt(p.listos, i)
  <2>2. p.listos \in Seq(ESIs) /\ i \in DOMAIN p.listos
    BY <2>1 DEF Memoria, Proximos
  <2>3. e \in ESIs /\ e \in ToSet(p.listos) /\ e # Nadie
    BY <2>2, Elementos, PidsDistintos
  <2>4. l \in Seq(ESIs) /\ ToSet(l) \subseteq ToSet(p.listos)
    BY <2>2, Quitar
  <2> HIDE DEF e, l
  <2>5. q = [p EXCEPT !.exec = e, !.listos = l, !.orden = p.orden \cup {e}]
    BY <2>1 DEF enviar_esi_confirmacion_sentencia, Memoria, e, l
  <2>6. q \in Memoria
    BY <2>3, <2>4, <2>5 DEF Memoria
  <2>7. Deriva(p, q, {})
    BY <2>3, <2>4, <2>5, <2>6 DEF Memoria, Deriva, Presentes
  <2>8. Sigue(p, q)
    BY <1>2, <2>3, <2>5 DEF Memoria, Sigue
  <2> QED BY <2>7, <2>8
<1> QED BY <1>1, <1>2 DEF planificar

LEMMA AumentarEspera ==
  ASSUME NEW p \in Memoria
  PROVE  LET q == aumentar_tiempo_espera_ready(p)
         IN  Deriva(p, q, {}) /\ Calla(p, q) /\ Sigue(p, q)
<1> DEFINE q == aumentar_tiempo_espera_ready(p)
<1>1. /\ q.pcb \in [ESIs -> Pcb] /\ q = [p EXCEPT !.pcb = q.pcb]
      /\ \A x \in ESIs : q.pcb[x].repetir = p.pcb[x].repetir
  <2> DEFINE s(x) == IF Algoritmo = "HRRN" /\ x \in ToSet(p.listos)
                     THEN [p.pcb[x] EXCEPT !.espera = @ + 1] ELSE p.pcb[x]
  <2>1. ASSUME NEW x \in ESIs PROVE s(x) \in Pcb /\ s(x).repetir = p.pcb[x].repetir
    <3>1. p.pcb[x] \in Pcb BY DEF Memoria
    <3> QED BY <3>1 DEF Pcb
  <2>2. q = [p EXCEPT !.pcb = [x \in ESIs |-> s(x)]]
    BY DEF aumentar_tiempo_espera_ready
  <2> HIDE DEF s, q
  <2>3. q.pcb = [x \in ESIs |-> s(x)]
    BY <2>2 DEF Memoria
  <2> QED BY <2>1, <2>2, <2>3 DEF Memoria
<1> HIDE DEF q
<1>3. q \in Memoria
  BY <1>1 DEF Memoria
<1>4. Deriva(p, q, {}) /\ Calla(p, q) /\ Sigue(p, q)
  BY <1>1, <1>3 DEF Memoria, Deriva, Calla, Sigue, Presentes
<1> QED BY <1>4 DEF q

-------------------------------------------------------------------------------
(***************************************************************************)
(* Locks.                                                                  *)
(***************************************************************************)
LEMMA CampoEntero ==
  ASSUME NEW r \in Pcb, NEW n \in Int
  PROVE  /\ [r EXCEPT !.espera = n] \in Pcb /\ [r EXCEPT !.espera = n].repetir = r.repetir
         /\ [r EXCEPT !.instr = n] \in Pcb  /\ [r EXCEPT !.instr = n].repetir = r.repetir
         /\ [r EXCEPT !.actual = n] \in Pcb /\ [r EXCEPT !.actual = n].repetir = r.repetir
         /\ [r EXCEPT !.real = n] \in Pcb   /\ [r EXCEPT !.real = n].repetir = r.repetir
  BY DEF Pcb

LEMMA CampoCero ==
  ASSUME NEW r \in Pcb
  PROVE  /\ [r EXCEPT !.espera = 0] \in Pcb /\ [r EXCEPT !.espera = 0].repetir = r.repetir
         /\ [r EXCEPT !.instr = 0] \in Pcb  /\ [r EXCEPT !.instr = 0].repetir = r.repetir
  BY DEF Pcb

LEMMA CampoClave ==
  ASSUME NEW r \in Pcb, NEW k \in Claves \cup {Ninguna}
  PROVE  [r EXCEPT !.clave = k] \in Pcb /\ [r EXCEPT !.clave = k].repetir = r.repetir
  BY DEF Pcb

LEMMA Ficha ==
  ASSUME NEW r \in Pcb
  PROVE  /\ estimar_esi(r) \in Pcb /\ estimar_esi(r).repetir = r.repetir
         /\ sentencia_contada(r) \in Pcb /\ sentencia_contada(r).repetir = r.repetir
         /\ Despertado(r) \in Pcb /\ Despertado(r).repetir = r.repetir
<1>1. Escala \in Int
  BY EstimacionPositiva
<1>2. ASSUME NEW s \in Pcb
      PROVE  s.instr \in Int /\ s.real \in Int /\ s.actual \in Int
  BY DEF Pcb
<1>3. ASSUME NEW s \in Pcb
      PROVE  estimar_esi(s) \in Pcb /\ estimar_esi(s).repetir = s.repetir
  <2> DEFINE nueva == (s.instr * Escala + s.real) \div 2
             s1 == [s EXCEPT !.real = nueva]
             s2 == [s1 EXCEPT !.actual = nueva]
             s3 == [s2 EXCEPT !.instr = 0]
  <2>1. nueva \in Int
    BY <1>1, <1>2
  <2> HIDE DEF nueva
  <2>2. s1 \in Pcb /\ s1.repetir = s.repetir BY <2>1, CampoEntero
  <2>3. s2 \in Pcb /\ s2.repetir = s1.repetir BY <2>1, <2>2, CampoEntero
  <2>4. s3 \in Pcb /\ s3.repetir = s2.repetir BY <2>3, CampoCero
  <2>5. estimar_esi(s) \in {s, s3}
    BY DEF estimar_esi, nueva
  <2> QED BY <2>2, <2>3, <2>4, <2>5
<1>4. sentencia_contada(r) \in Pcb /\ sentencia_contada(r).repetir = r.repetir
  <2> DEFINE s1 == [r EXCEPT !.instr = r.instr + 1]
             s2 == [s1 EXCEPT !.actual = r.actual - Escala]
  <2>1. r.instr + 1 \in Int /\ r.actual - Escala \in Int
    BY <1>1, <1>2
  <2>2. s1 \in Pcb /\ s1.repetir = r.repetir BY <2>1, CampoEntero
  <2>3. s2 \in Pcb /\ s2.repetir = s1.repetir BY <2>1, <2>2, CampoEntero
  <2>4. sentencia_contada(r) \in {r, s2}
    BY DEF sentencia_contada
  <2> QED BY <2>2, <2>3, <2>4
<1>5. /\ [r EXCEPT !.clave = Ninguna, !.espera = 0] \in Pcb
      /\ [r EXCEPT !.clave = Ninguna, !.espera = 0].repetir = r.repetir
  <2> DEFINE s1 == [r EXCEPT !.clave = Ninguna]
             s2 == [s1 EXCEPT !.espera = 0]
  <2>1. s1 \in Pcb /\ s1.repetir = r.repetir BY CampoClave
  <2>2. s2 \in Pcb /\ s2.repetir = s1.repetir BY <2>1, CampoCero
  <2>3. [r EXCEPT !.clave = Ninguna, !.espera = 0] = s2
    OBVIOUS
  <2> HIDE DEF s1, s2
  <2> QED BY <2>1, <2>2, <2>3
<1> QED BY <1>3, <1>4, <1>5 DEF Despertado

LEMMA PedirDesalojo ==
  ASSUME NEW p \in Memoria, NEW e \in ESIs
  PROVE  LET q == pedir_desalojo(p, e)
         IN  /\ q.por_desalojar \in ESIs \cup {Nadie}
             /\ q = [p EXCEPT !.por_desalojar = q.por_desalojar]
  BY DEF pedir_desalojo, Memoria

LEMMA BloquearClave ==
  ASSUME NEW p \in Memoria, NEW k, NEW e \in ESIs
  PROVE  LET q == bloquear_clave(p, k, e)
         IN  Deriva(p, q, {}) /\ Calla(p, q) /\ Sigue(p, q) /\ q.exec = p.exec
<1> DEFINE d == IF e = p.exec \/ e \in ToSet(p.listos) THEN e ELSE Sistema
           q == [p EXCEPT !.dueno[k] = d]
<1>1. d \in ESIs \cup {Sistema, Libre}
  OBVIOUS
<1> HIDE DEF d
<1>2. q \in Memoria
  BY <1>1 DEF Memoria
<1>3. Deriva(p, q, {}) /\ Calla(p, q) /\ Sigue(p, q) /\ q.exec = p.exec
  BY <1>2 DEF Memoria, Deriva, Calla, Sigue, Presentes
<1>4. bloquear_clave(p, k, e) \in {p, q}
  BY DEF bloquear_clave, d
<1> QED BY <1>3, <1>4, DerivaReflexiva

\* The element that sacar_esi_de_lista_pid takes out of a list that has it.
LEMMA SacarDeLista ==
  ASSUME NEW s \in Seq(ESIs), NEW e
  PROVE  LET t == sacar_esi_de_lista_pid(s, e)
         IN  t \in Seq(ESIs) /\ ToSet(t) \subseteq ToSet(s)
<1>1. CASE e \in ToSet(s)
  <2>1. (CHOOSE i \in DOMAIN s : s[i] = e) \in DOMAIN s
    BY <1>1, Elementos
  <2> QED BY <1>1, <2>1, Quitar DEF sacar_esi_de_lista_pid
<1>2. CASE e \notin ToSet(s)
  BY <1>2 DEF sacar_esi_de_lista_pid
<1> QED BY <1>1, <1>2

LEMMA BloquearEsi ==
  ASSUME NEW p \in Memoria, NEW k \in Claves, NEW e \in ESIs
  PROVE  LET q == bloquear_esi_pid(p, k, e)
         IN  Deriva(p, q, {}) /\ Calla(p, q) /\ Sigue(p, q)
<1> DEFINE l == sacar_esi_de_lista_pid(p.listos, e)
           b == Append(p.bloqueados, e)
           q1 == [p EXCEPT !.pcb[e].clave = k, !.bloqueo = TRUE]
           q2 == [p EXCEPT !.pcb[e].clave = k, !.listos = l, !.bloqueados = b]
<1>1. l \in Seq(ESIs) /\ ToSet(l) \subseteq ToSet(p.listos)
  BY SacarDeLista DEF Memoria
<1>2. b \in Seq(ESIs) /\ ToSet(b) = ToSet(p.bloqueados) \cup {e}
  BY AgregarAlFinal DEF Memoria
<1> HIDE DEF l, b
<1>3. /\ [p.pcb EXCEPT ![e].clave = k] \in [ESIs -> Pcb]
      /\ \A x \in ESIs : [p.pcb EXCEPT ![e].clave = k][x].repetir = p.pcb[x].repetir
  BY DEF Memoria, Pcb
<1>4. Deriva(p, q1, {}) /\ Calla(p, q1) /\ Sigue(p, q1)
  <2>1. q1 \in Memoria BY <1>3 DEF Memoria
  <2> QED BY <1>3, <2>1 DEF Memoria, Deriva, Calla, Sigue, Presentes
<1>5. ASSUME e \in ToSet(p.listos)
      PROVE  Deriva(p, q2, {}) /\ Calla(p, q2) /\ Sigue(p, q2)
  <2>1. q2 \in Memoria BY <1>1, <1>2, <1>3 DEF Memoria
  <2> QED BY <1>1, <1>2, <1>3, <1>5, <2>1 DEF Memoria, Deriva, Calla, Sigue, Presentes
<1>6. CASE e = p.exec
  BY <1>4, <1>6 DEF bloquear_esi_pid
<1>7. CASE e # p.exec /\ e \in ToSet(p.listos)
  BY <1>5, <1>7 DEF bloquear_esi_pid, l, b
<1>8. CASE e # p.exec /\ e \notin ToSet(p.listos)
  BY <1>8, DerivaReflexiva DEF bloquear_esi_pid
<1> QED BY <1>6, <1>7, <1>8

LEMMA DerivaRomper ==
  ASSUME NEW p \in Memoria
  PROVE  LET q == Romper(p)
         IN  Deriva(p, q, {}) /\ Calla(p, q) /\ Sigue(p, q) /\ q.fallo
  BY DEF Romper, Memoria, Deriva, Calla, Sigue, Presentes

\* The first waiter goes from esi_bloqueados to the end of esi_listos.
LEMMA DesbloquearClave ==
  ASSUME NEW p \in Memoria, NEW k \in Claves
  PROVE  LET q == desbloquear_clave(p, k)
         IN  Deriva(p, q, {}) /\ Calla(p, q) /\ Sigue(p, q)
<1> DEFINE espera == EsperanClave(p, k)
           i == Min(espera)
           e == p.bloqueados[i]
           b == RemoveAt(p.bloqueados, i)
           l == Append(p.listos, e)
           f == Despertado(p.pcb[e])
           q0 == [p EXCEPT !.bloqueados = b, !.pcb[e] = f]
           r == [pedir_desalojo(q0, e) EXCEPT !.listos = l]
           r1 == [pedir_desalojo(q0, e) EXCEPT !.listos = l, !.dueno[k] = Libre]
           s == [p EXCEPT !.dueno[k] = Libre]
<1>1. Deriva(p, s, {}) /\ Calla(p, s) /\ Sigue(p, s)
  <2>1. s \in Memoria BY DEF Memoria
  <2> QED BY <2>1 DEF Memoria, Deriva, Calla, Sigue, Presentes
<1>2. ASSUME espera # {}
      PROVE  /\ Deriva(p, r, {}) /\ Calla(p, r) /\ Sigue(p, r)
             /\ Deriva(p, r1, {}) /\ Calla(p, r1) /\ Sigue(p, r1)
  <2>1. p.bloqueados \in Seq(ESIs) /\ p.listos \in Seq(ESIs) /\ p.pcb \in [ESIs -> Pcb]
    BY DEF Memoria
  <2>2. DOMAIN p.bloqueados \in SUBSET Nat
    BY <2>1, Elementos
  <2>3. i \in DOMAIN p.bloqueados
    <3>1. espera \in SUBSET Nat /\ espera \subseteq DOMAIN p.bloqueados
      BY <2>2 DEF EsperanClave
    <3> HIDE DEF espera
    <3> QED BY <1>2, <3>1, Minimo
  <2> HIDE DEF i
  <2>4. e \in ESIs /\ e \in ToSet(p.bloqueados)
    BY <2>1, <2>3, Elementos
  <2>5. b \in Seq(ESIs) /\ ToSet(b) \subseteq ToSet(p.bloqueados)
    BY <2>1, <2>3, Quitar
  <2> HIDE DEF e
  <2>6. l \in Seq(ESIs) /\ ToSet(l) = ToSet(p.listos) \cup {e}
    BY <2>1, <2>4, AgregarAlFinal
  <2>7. f \in Pcb /\ f.repetir = p.pcb[e].repetir
    BY <2>1, <2>4, Ficha
  <2> HIDE DEF b, l, f
  <2>8. q0 \in Memoria
    BY <2>4, <2>5, <2>7 DEF Memoria
  <2> DEFINE v == pedir_desalojo(q0, e).por_desalojar
  <2>9. v \in ESIs \cup {Nadie} /\ pedir_desalojo(q0, e) = [q0 EXCEPT !.por_desalojar = v]
    BY <2>4, <2>8, PedirDesalojo
  <2> HIDE DEF v
  <2> DEFINE m == pedir_desalojo(q0, e)
  <2>10. r \in Memoria /\ r1 \in Memoria
    <3>1. m \in Memoria
      BY <2>8, <2>9 DEF Memoria
    <3> HIDE DEF m
    <3>2. [m EXCEPT !.listos = l] \in Memoria
      BY <2>6, <3>1 DEF Memoria
    <3>3. [m EXCEPT !.listos = l, !.dueno[k] = Libre] \in Memoria
      BY <2>6, <3>1 DEF Memoria
    <3> QED BY <3>2, <3>3 DEF m
  <2>11. /\ r.exec = p.exec /\ r.listos = l /\ r.bloqueados = b
         /\ r.terminados = p.terminados /\ r.orden = p.orden /\ r.fallo = p.fallo
         /\ r.pcb = [p.pcb EXCEPT ![e] = f]
         /\ r1.exec = p.exec /\ r1.listos = l /\ r1.bloqueados = b
         /\ r1.terminados = p.terminados /\ r1.orden = p.orden /\ r1.fallo = p.fallo
         /\ r1.pcb = [p.pcb EXCEPT ![e] = f]
    BY <2>9 DEF Memoria
  <2> HIDE DEF r, r1
  <2>12. \A x \in ESIs : [p.pcb EXCEPT ![e] = f][x].repetir = p.pcb[x].repetir
    BY <2>1, <2>4, <2>7
  <2> QED
    BY <2>4, <2>5, <2>6, <2>10, <2>11, <2>12 DEF Deriva, Calla, Sigue, Presentes
<1>3. desbloquear_clave(p, k) \in {p, Romper(p), s} \/ (espera # {} /\ desbloquear_clave(p, k) \in {r, r1})
  BY DEF desbloquear_clave
<1> HIDE DEF r, r1, s, espera
<1> QED BY <1>1, <1>2, <1>3, DerivaReflexiva, DerivaRomper

-------------------------------------------------------------------------------
(***************************************************************************)
(* The end of an ESI.                                                      *)
(***************************************************************************)
\* The sequences of SetToSeqs(D), for D the elements of a list that satisfy
\* something, are lists of those elements.
LEMMA Filas ==
  ASSUME NEW s \in Seq(ESIs), NEW D \in SUBSET ToSet(s), NEW t \in SetToSeqs(D)
  PROVE  t \in Seq(ESIs) /\ ToSet(t) \subseteq D
<1>1. ToSet(s) \subseteq ESIs /\ IsFiniteSet(ToSet(s))
  BY Elementos
<1>2. IsFiniteSet(D)
  BY <1>1, FS_Subset
<1>3. Cardinality(D) \in Nat
  BY <1>2, FS_CardinalityType
<1>4. t \in [1..Cardinality(D) -> D]
  BY DEF SetToSeqs
<1>5. t \in Seq(D)
  BY <1>3, <1>4, SeqDef
<1> QED BY <1>1, <1>4, <1>5, SeqMonotonic DEF ToSet

LEMMA Desalojo ==
  ASSUME NEW p \in Memoria, NEW fila \in Seq(ESIs)
  PROVE  LET q == ConDesalojo(p, fila)
         IN  /\ q.por_desalojar \in ESIs \cup {Nadie}
             /\ q = [p EXCEPT !.por_desalojar = q.por_desalojar]
<1> DEFINE ganan == {i \in DOMAIN fila : Desaloja(p, fila[i])}
<1>1. ASSUME ganan # {} PROVE fila[Max(ganan)] \in ESIs
  <2>1. DOMAIN fila = 1..Len(fila) /\ Len(fila) \in Nat
    BY LenProperties
  <2>2. ganan \in SUBSET (1..Len(fila))
    BY <2>1
  <2> HIDE DEF ganan
  <2>3. Max(ganan) \in ganan
    BY <1>1, <2>1, <2>2, Maximo
  <2> QED BY <2>2, <2>3, ElementOfSeq
<1> QED BY <1>1 DEF ConDesalojo, Memoria

\* Keys and waiters of the ESI that ends: the woken ones go to esi_listos.
LEMMA Liberar ==
  ASSUME NEW p \in Memoria, NEW e \in ESIs, NEW q \in desbloquear_claves_bloqueadas_pid(p, e)
  PROVE  Deriva(p, q, {}) /\ Calla(p, q) /\ q.exec = p.exec
<1> DEFINE D == Despertados(p, e)
           d0 == [k \in Claves |-> IF p.dueno[k] = e THEN Libre ELSE p.dueno[k]]
           c0 == [f \in ESIs |-> IF f \in D THEN Despertado(p.pcb[f]) ELSE p.pcb[f]]
           q0 == SinClavesDe(p, e)
<1>0. D \in SUBSET ToSet(p.bloqueados) /\ q0 = [p EXCEPT !.dueno = d0, !.pcb = c0]
  BY DEF Despertados, SinClavesDe
<1>1. CASE q \in {p, Romper(p)}
  BY <1>1, DerivaReflexiva, DerivaRomper DEF Romper, Memoria
<1>2. ASSUME NEW fila \in SetToSeqs(D), NEW resto \in SinElementos(p.bloqueados, D),
             q = Liberadas(p, e, fila, resto)
      PROVE  Deriva(p, q, {}) /\ Calla(p, q) /\ q.exec = p.exec
  <2>1. p.bloqueados \in Seq(ESIs) /\ p.listos \in Seq(ESIs) /\ p.pcb \in [ESIs -> Pcb]
    BY DEF Memoria
  <2>2. D \in SUBSET ToSet(p.bloqueados)
    BY <1>0
  <2>3. d0 \in [Claves -> ESIs \cup {Sistema, Libre}]
    BY DEF Memoria
  <2> HIDE DEF D, d0, q0
  <2>4. c0 \in [ESIs -> Pcb] /\ \A x \in ESIs : c0[x].repetir = p.pcb[x].repetir
    BY <2>1, Ficha
  <2> HIDE DEF c0
  <2>5. fila \in Seq(ESIs) /\ ToSet(fila) \subseteq ToSet(p.bloqueados)
    BY <2>1, <2>2, Filas
  <2>6. resto \in Seq(ESIs) /\ ToSet(resto) \subseteq ToSet(p.bloqueados)
    <3>1. resto \in SetToSeqs(ToSet(p.bloqueados) \ D)
      BY DEF SinElementos
    <3>2. ToSet(p.bloqueados) \ D \in SUBSET ToSet(p.bloqueados)
      OBVIOUS
    <3> QED BY <2>1, <3>1, <3>2, Filas
  <2> DEFINE l == p.listos \o fila
  <2>7. l \in Seq(ESIs) /\ ToSet(l) \subseteq ToSet(p.listos) \cup ToSet(p.bloqueados)
    BY <2>1, <2>5, Concatenar
  <2>8. q0 \in Memoria
    BY <1>0, <2>3, <2>4 DEF Memoria
  <2> DEFINE v == ConDesalojo(q0, fila).por_desalojar
  <2>9. v \in ESIs \cup {Nadie} /\ ConDesalojo(q0, fila) = [q0 EXCEPT !.por_desalojar = v]
    BY <2>5, <2>8, Desalojo
  <2> HIDE DEF v
  <2>10. q = [p EXCEPT !.dueno = d0, !.pcb = c0, !.por_desalojar = v,
                       !.bloqueados = resto, !.listos = l]
    BY <1>0, <1>2, <2>9 DEF Memoria, Liberadas, q0
  <2> HIDE DEF l
  <2>11. q \in Memoria
    BY <2>3, <2>4, <2>6, <2>7, <2>9, <2>10 DEF Memoria
  <2> QED
    BY <2>4, <2>6, <2>7, <2>10, <2>11 DEF Memoria, Deriva, Calla, Presentes
<1>3. \/ q \in {p, Romper(p)}
      \/ \E fila \in SetToSeqs(D), resto \in SinElementos(p.bloqueados, D) :
           q = Liberadas(p, e, fila, resto)
  BY DEF desbloquear_claves_bloqueadas_pid
<1> QED BY <1>1, <1>2, <1>3

LEMMA SacarDeColas ==
  ASSUME NEW p \in Memoria, NEW e \in ESIs
  PROVE  LET q == sacar_de_colas(p, e)
         IN  /\ Deriva(p, q, {}) /\ Calla(p, q)
             /\ q.exec = IF e = p.exec THEN Nadie ELSE p.exec
<1> DEFINE l == sacar_esi_de_lista_pid(p.listos, e)
           b == sacar_esi_de_lista_pid(p.bloqueados, e)
           q1 == [p EXCEPT !.exec = Nadie]
           q2 == [p EXCEPT !.listos = l]
           q3 == [p EXCEPT !.bloqueados = b]
<1>1. l \in Seq(ESIs) /\ ToSet(l) \subseteq ToSet(p.listos)
  BY SacarDeLista DEF Memoria
<1>2. b \in Seq(ESIs) /\ ToSet(b) \subseteq ToSet(p.bloqueados)
  BY SacarDeLista DEF Memoria
<1> HIDE DEF l, b
<1>3. q1 \in Memoria /\ q2 \in Memoria /\ q3 \in Memoria
  BY <1>1, <1>2 DEF Memoria
<1>4. Deriva(p, q1, {}) /\ Calla(p, q1) /\ q1.exec = Nadie
  BY <1>3 DEF Memoria, Deriva, Calla, Presentes
<1>5. Deriva(p, q2, {}) /\ Calla(p, q2) /\ q2.exec = p.exec
  BY <1>1, <1>3 DEF Memoria, Deriva, Calla, Presentes
<1>6. Deriva(p, q3, {}) /\ Calla(p, q3) /\ q3.exec = p.exec
  BY <1>2, <1>3 DEF Memoria, Deriva, Calla, Presentes
<1> HIDE DEF q1, q2, q3
<1> QED BY <1>4, <1>5, <1>6 DEF sacar_de_colas, q1, q2, q3, l, b

LEMMA PasarATerminados ==
  ASSUME NEW p \in Memoria, NEW e \in ESIs
  PROVE  LET q == pasar_a_terminados(p, e)
         IN  /\ Deriva(p, q, {}) /\ Calla(p, q) /\ q.exec = p.exec
             /\ ~p.fallo => e \in q.terminados
<1> DEFINE q == [p EXCEPT !.terminados = p.terminados \cup {e},
                          !.pcb[e].clave = Ninguna, !.orden = p.orden \ {e}]
<1>1. p.pcb[e] \in Pcb
  BY DEF Memoria
<1>2. [p.pcb[e] EXCEPT !.clave = Ninguna] \in Pcb
      /\ [p.pcb[e] EXCEPT !.clave = Ninguna].repetir = p.pcb[e].repetir
  BY <1>1, CampoClave
<1> DEFINE c == [p.pcb EXCEPT ![e].clave = Ninguna]
<1>3. c \in [ESIs -> Pcb] /\ \A x \in ESIs : c[x].repetir = p.pcb[x].repetir
  BY <1>2 DEF Memoria
<1> HIDE DEF c
<1>4. q = [p EXCEPT !.terminados = p.terminados \cup {e}, !.pcb = c, !.orden = p.orden \ {e}]
  BY DEF Memoria, c
<1>5. q \in Memoria
  BY <1>3, <1>4 DEF Memoria
<1>6. Deriva(p, q, {}) /\ Calla(p, q) /\ q.exec = p.exec /\ e \in q.terminados
  BY <1>3, <1>4, <1>5 DEF Memoria, Deriva, Calla, Presentes
<1>7. pasar_a_terminados(p, e) = IF p.fallo THEN p ELSE q
  BY DEF pasar_a_terminados
<1> HIDE DEF q
<1> QED BY <1>6, <1>7, DerivaReflexiva

\* The ESI that ends is the only one that can lose the processor.
LEMMA FinalizarEsi ==
  ASSUME NEW p \in Memoria, NEW e \in ESIs, NEW l \in BOOLEAN,
         NEW q \in finalizar_esi(p, e, l)
  PROVE  Deriva(p, q, {}) /\ Calla(p, q) /\ Sigue(p, q)
<1> DEFINE c == sacar_de_colas(p, e)
<1>1. CASE ~EnSistema(p, e)
  BY <1>1, DerivaReflexiva DEF finalizar_esi
<1>2. ASSUME NEW r \in {c} \cup desbloquear_claves_bloqueadas_pid(c, e),
             q = pasar_a_terminados(r, e)
      PROVE  Deriva(p, q, {}) /\ Calla(p, q) /\ Sigue(p, q)
  <2>1. /\ Deriva(p, c, {}) /\ Calla(p, c) /\ c \in Memoria
        /\ c.exec = IF e = p.exec THEN Nadie ELSE p.exec
    BY SacarDeColas DEF Deriva
  <2> HIDE DEF c
  <2>2. Deriva(c, r, {}) /\ Calla(c, r) /\ r.exec = c.exec /\ r \in Memoria
    BY <2>1, Liberar, DerivaReflexiva DEF Deriva
  <2>3. /\ Deriva(r, q, {}) /\ Calla(r, q) /\ q.exec = r.exec /\ q \in Memoria
        /\ q.fallo \/ e \in q.terminados
    BY <1>2, <2>2, PasarATerminados DEF Deriva
  <2>4. Deriva(p, q, {})
    BY <2>1, <2>2, <2>3, DerivaTransitiva
  <2>5. Calla(p, q)
    BY <2>1, <2>2, <2>3 DEF Calla
  <2>6. Sigue(p, q)
    BY <2>1, <2>2, <2>3, <2>5 DEF Sigue, Calla
  <2> QED BY <2>4, <2>5, <2>6
<1> QED BY <1>1, <1>2 DEF finalizar_esi

-------------------------------------------------------------------------------
(***************************************************************************)
(* The result of the running ESI.  Until the last function of the chain no *)
(* order is sent, and only its own ejec_anterior may be raised.            *)
(***************************************************************************)
LEMMA ConfirmarBloqueo ==
  ASSUME NEW p \in Memoria, p.exec # Nadie
  PROVE  LET q == confirmar_bloqueo_ejecucion(p)
         IN  Deriva(p, q, {p.exec}) /\ Calla(p, q)
<1> DEFINE b == Append(p.bloqueados, p.exec)
           c == [p.pcb EXCEPT ![p.exec].repetir = TRUE]
           q == [p EXCEPT !.pcb = c, !.bloqueados = b, !.exec = Nadie, !.bloqueo = FALSE]
<1>1. p.exec \in ESIs /\ p.pcb \in [ESIs -> Pcb] /\ p.bloqueados \in Seq(ESIs)
  BY DEF Memoria
<1>2. b \in Seq(ESIs) /\ ToSet(b) = ToSet(p.bloqueados) \cup {p.exec}
  BY <1>1, AgregarAlFinal
<1> HIDE DEF b
<1>3. c \in [ESIs -> Pcb] /\ \A x \in ESIs : c[x].repetir => p.pcb[x].repetir \/ x = p.exec
  BY <1>1 DEF Pcb
<1>4. confirmar_bloqueo_ejecucion(p) = q
  BY DEF confirmar_bloqueo_ejecucion, Memoria, b
<1> HIDE DEF c
<1>5. q \in Memoria
  BY <1>2, <1>3 DEF Memoria
<1>6. Deriva(p, q, {p.exec}) /\ Calla(p, q)
  BY <1>1, <1>2, <1>3, <1>5 DEF Memoria, Deriva, Calla, Presentes
<1> QED BY <1>4, <1>6

LEMMA ConfirmarGet ==
  ASSUME NEW p \in Memoria
  PROVE  LET q == confirmar_bloqueo_por_get(p)
         IN  Deriva(p, q, {}) /\ Calla(p, q)
<1> DEFINE m == bloquear_clave(p, p.get_clave, p.get_pid)
           q == [m EXCEPT !.por_get = FALSE, !.get_clave = Ninguna, !.get_pid = Nadie]
<1>1. ASSUME p.get_pid # Nadie PROVE Deriva(p, q, {}) /\ Calla(p, q)
  <2>1. p.get_pid \in ESIs
    BY <1>1 DEF Memoria
  <2>2. Deriva(p, m, {}) /\ Calla(p, m)
    BY <2>1, BloquearClave
  <2> HIDE DEF m
  <2>3. m \in Memoria
    BY <2>2 DEF Deriva
  <2>4. q \in Memoria
    BY <2>3 DEF Memoria
  <2> QED BY <2>2, <2>3, <2>4 DEF Memoria, Deriva, Calla, Presentes
<1>2. confirmar_bloqueo_por_get(p) = IF p.get_pid = Nadie THEN Romper(p) ELSE q
  BY DEF confirmar_bloqueo_por_get
<1> HIDE DEF q
<1> QED BY <1>1, <1>2, DerivaRomper

LEMMA ConfirmarStore ==
  ASSUME NEW p \in Memoria, p.store_clave # Ninguna
  PROVE  LET q == confirmar_desbloqueo_por_store(p)
         IN  Deriva(p, q, {}) /\ Calla(p, q)
<1> DEFINE m == desbloquear_clave(p, p.store_clave)
           q == [m EXCEPT !.store_clave = Ninguna]
<1>1. p.store_clave \in Claves
  BY DEF Memoria
<1>2. Deriva(p, m, {}) /\ Calla(p, m)
  BY <1>1, DesbloquearClave
<1>3. confirmar_desbloqueo_por_store(p) = q
  BY DEF confirmar_desbloqueo_por_store
<1> HIDE DEF m
<1>4. m \in Memoria
  BY <1>2 DEF Deriva
<1>5. q \in Memoria
  BY <1>4 DEF Memoria
<1>6. Deriva(p, q, {}) /\ Calla(p, q)
  BY <1>2, <1>4, <1>5 DEF Memoria, Deriva, Calla, Presentes
<1> QED BY <1>3, <1>6

LEMMA EsperaCero ==
  ASSUME NEW p \in Memoria, NEW e \in ESIs
  PROVE  LET c == [p.pcb EXCEPT ![e].espera = 0]
         IN  c \in [ESIs -> Pcb] /\ \A x \in ESIs : c[x].repetir = p.pcb[x].repetir
<1>1. p.pcb \in [ESIs -> Pcb] /\ p.pcb[e] \in Pcb
  BY DEF Memoria
<1>2. [p.pcb[e] EXCEPT !.espera = 0] \in Pcb
      /\ [p.pcb[e] EXCEPT !.espera = 0].repetir = p.pcb[e].repetir
  BY <1>1, CampoCero
<1> QED BY <1>1, <1>2

LEMMA ConfirmarPausa ==
  ASSUME NEW p \in Memoria
  PROVE  LET q == confirmar_pausa_por_consola(p)
         IN  Deriva(p, q, {}) /\ Calla(p, q)
<1> DEFINE l == Append(p.listos, p.exec)
           c == [p.pcb EXCEPT ![p.exec].espera = 0]
           q == [p EXCEPT !.pcb = c, !.listos = l, !.exec = Nadie]
<1>1. ASSUME p.exec # Nadie PROVE Deriva(p, q, {}) /\ Calla(p, q)
  <2>1. p.exec \in ESIs /\ p.listos \in Seq(ESIs)
    BY <1>1 DEF Memoria
  <2>2. l \in Seq(ESIs) /\ ToSet(l) = ToSet(p.listos) \cup {p.exec}
    BY <2>1, AgregarAlFinal
  <2>3. c \in [ESIs -> Pcb] /\ \A x \in ESIs : c[x].repetir = p.pcb[x].repetir
    BY <2>1, EsperaCero
  <2> HIDE DEF l, c
  <2>4. q \in Memoria
    BY <2>2, <2>3 DEF Memoria
  <2> QED BY <1>1, <2>2, <2>3, <2>4 DEF Memoria, Deriva, Calla, Presentes
<1>2. confirmar_pausa_por_consola(p) = IF p.exec = Nadie THEN Romper(p) ELSE q
  BY DEF confirmar_pausa_por_consola, Memoria
<1> HIDE DEF q
<1> QED BY <1>1, <1>2, DerivaRomper

LEMMA ConfirmarDesalojo ==
  ASSUME NEW p \in Memoria
  PROVE  LET q == confirmar_desalojo_ejecucion(p)
         IN  Deriva(p, q, {}) /\ Calla(p, q)
<1> DEFINE cola == Append(p.listos, p.exec)
           l == sacar_esi_de_lista_pid(cola, p.por_desalojar)
           c == [p.pcb EXCEPT ![p.exec].espera = 0]
           x == IF p.por_desalojar \in ToSet(cola) THEN p.por_desalojar ELSE Nadie
           q == [p EXCEPT !.pcb = c, !.listos = l, !.exec = x, !.por_desalojar = Nadie]
<1>1. ASSUME p.exec # Nadie PROVE Deriva(p, q, {}) /\ Calla(p, q)
  <2>1. p.exec \in ESIs /\ p.listos \in Seq(ESIs)
    BY <1>1 DEF Memoria
  <2>2. cola \in Seq(ESIs) /\ ToSet(cola) = ToSet(p.listos) \cup {p.exec}
    BY <2>1, AgregarAlFinal
  <2> HIDE DEF cola
  <2>3. l \in Seq(ESIs) /\ ToSet(l) \subseteq ToSet(cola)
    BY <2>2, SacarDeLista
  <2>4. c \in [ESIs -> Pcb] /\ \A y \in ESIs : c[y].repetir = p.pcb[y].repetir
    BY <2>1, EsperaCero
  <2>5. x \in ESIs \cup {Nadie} /\ (x # Nadie => x \in ToSet(cola))
    BY DEF Memoria
  <2> HIDE DEF l, c, x
  <2>6. q \in Memoria
    BY <2>3, <2>4, <2>5 DEF Memoria
  <2> QED BY <1>1, <2>2, <2>3, <2>4, <2>5, <2>6 DEF Memoria, Deriva, Calla, Presentes
<1>2. confirmar_desalojo_ejecucion(p) = IF p.exec = Nadie THEN Romper(p) ELSE q
  BY DEF confirmar_desalojo_ejecucion, Memoria
<1> HIDE DEF q
<1> QED BY <1>1, <1>2, DerivaRomper

\* One more function of the chain that sends nothing.
LEMMA UnPasoMas ==
  ASSUME NEW p, NEW q, NEW r, NEW R,
         Deriva(p, q, R), Calla(p, q), Deriva(q, r, {}), Calla(q, r)
  PROVE  Deriva(p, r, R) /\ Calla(p, r)
  BY DEF Deriva, Calla

LEMMA ResultadoCorrecto ==
  ASSUME NEW p \in Memoria, p.exec # Nadie, NEW q \in resultado_correcto(p)
  PROVE  Deriva(p, q, {p.exec}) /\ Ordena(p, q)
<1> DEFINE c1 == [p EXCEPT !.pcb[p.exec] = [sentencia_contada(@) EXCEPT !.repetir = FALSE]]
           c2 == IF c1.bloqueo THEN confirmar_bloqueo_ejecucion(c1) ELSE c1
           c3 == IF c2.por_get THEN confirmar_bloqueo_por_get(c2) ELSE c2
           c4 == IF ~c3.fallo /\ c3.store_clave # Ninguna
                 THEN confirmar_desbloqueo_por_store(c3) ELSE c3
           c5 == IF ~c4.fallo /\ c4.pausado THEN confirmar_pausa_por_consola(c4) ELSE c4
           C6 == IF ~c5.fallo /\ c5.kill THEN confirmar_kill_ejecucion(c5) ELSE {c5}
           c7(c) == IF ~c.fallo /\ c.por_desalojar # Nadie
                    THEN confirmar_desalojo_ejecucion(c) ELSE c
           c8(c) == IF ~c.fallo /\ c.exec # Nadie
                    THEN enviar_esi_confirmacion_sentencia(c) ELSE c
           D(c) == c \in Memoria /\ Deriva(p, c, {p.exec}) /\ Calla(p, c)
<1>0. ASSUME NEW c, NEW d, D(c), Deriva(c, d, {}), Calla(c, d)
      PROVE  D(d)
  BY <1>0, UnPasoMas DEF Deriva
<1>1. PICK c6 \in C6 : q = c8(c7(c6))
  BY DEF resultado_correcto
<1>2. D(c1) /\ c1.exec = p.exec
  <2> DEFINE f == [sentencia_contada(p.pcb[p.exec]) EXCEPT !.repetir = FALSE]
             c == [p.pcb EXCEPT ![p.exec] = f]
  <2>1. p.exec \in ESIs /\ p.pcb \in [ESIs -> Pcb] /\ p.pcb[p.exec] \in Pcb
    BY DEF Memoria
  <2>2. sentencia_contada(p.pcb[p.exec]) \in Pcb
    BY <2>1, Ficha
  <2>3. f \in Pcb /\ f.repetir = FALSE
    BY <2>2 DEF Pcb
  <2> HIDE DEF f
  <2>4. c \in [ESIs -> Pcb] /\ \A x \in ESIs : c[x].repetir => p.pcb[x].repetir
    BY <2>1, <2>3
  <2>5. c1 = [p EXCEPT !.pcb = c]
    BY DEF Memoria, f
  <2> HIDE DEF c
  <2>6. c1 \in Memoria
    BY <2>4, <2>5 DEF Memoria
  <2> QED BY <2>4, <2>5, <2>6 DEF Memoria, Deriva, Calla, Presentes
<1> HIDE DEF c1
<1>3. D(c2)
  <2>1. Deriva(c1, confirmar_bloqueo_ejecucion(c1), {p.exec})
        /\ Calla(c1, confirmar_bloqueo_ejecucion(c1))
    BY <1>2, ConfirmarBloqueo
  <2> QED BY <1>2, <2>1 DEF Deriva, Calla
<1> HIDE DEF c2
<1>4. D(c3)
  <2>1. Deriva(c2, confirmar_bloqueo_por_get(c2), {})
        /\ Calla(c2, confirmar_bloqueo_por_get(c2))
    BY <1>3, ConfirmarGet
  <2>2. D(confirmar_bloqueo_por_get(c2))
    BY <1>0, <1>3, <2>1
  <2> QED BY <1>3, <2>2
<1> HIDE DEF c3
<1>5. D(c4)
  <2>1. ASSUME c3.store_clave # Ninguna
        PROVE  Deriva(c3, confirmar_desbloqueo_por_store(c3), {})
               /\ Calla(c3, confirmar_desbloqueo_por_store(c3))
    BY <1>4, <2>1, ConfirmarStore
  <2>2. c3.store_clave # Ninguna => D(confirmar_desbloqueo_por_store(c3))
    BY <1>0, <1>4, <2>1
  <2> QED BY <1>4, <2>2
<1> HIDE DEF c4
<1>6. D(c5)
  <2>1. Deriva(c4, confirmar_pausa_por_consola(c4), {})
        /\ Calla(c4, confirmar_pausa_por_consola(c4))
    BY <1>5, ConfirmarPausa
  <2>2. D(confirmar_pausa_por_consola(c4))
    BY <1>0, <1>5, <2>1
  <2> QED BY <1>5, <2>2
<1> HIDE DEF c5
<1>7. D(c6)
  <2>1. CASE c6 = c5
    BY <1>6, <2>1
  <2>2. CASE c6 = Romper(c5)
    BY <1>0, <1>6, <2>2, DerivaRomper
  <2>3. CASE c5.exec # Nadie /\ c6 \in finalizar_esi(c5, c5.exec, TRUE)
    <3>1. c5.exec \in ESIs
      BY <1>6, <2>3 DEF Memoria
    <3> QED BY <1>0, <1>6, <2>3, <3>1, FinalizarEsi
  <2> QED BY <1>1, <2>1, <2>2, <2>3 DEF confirmar_kill_ejecucion
<1> HIDE DEF C6
<1>8. D(c7(c6))
  <2>1. Deriva(c6, confirmar_desalojo_ejecucion(c6), {})
        /\ Calla(c6, confirmar_desalojo_ejecucion(c6))
    BY <1>7, ConfirmarDesalojo
  <2>2. D(confirmar_desalojo_ejecucion(c6))
    BY <1>0, <1>7, <2>1
  <2> QED BY <1>7, <2>2
<1> HIDE DEF c7
<1>9. Deriva(c7(c6), q, {}) /\ Ordena(c7(c6), q)
  BY <1>1, <1>8, EnvioDeConfirmacion, DerivaReflexiva DEF Ordena
<1> QED BY <1>8, <1>9 DEF Deriva, Calla, Ordena

LEMMA ResultadoBloqueada ==
  ASSUME NEW p \in Memoria, p.exec # Nadie, NEW e \in ESIs
  PROVE  LET q == resultado_clave_bloqueada(p, e)
         IN  Deriva(p, q, {p.exec}) /\ Calla(p, q)
<1> DEFINE f0 == sentencia_contada(p.pcb[p.exec])
           f == [f0 EXCEPT !.repetir = TRUE, !.clave = p.get_clave]
           c == [p.pcb EXCEPT ![p.exec] = f]
           b == Append(p.bloqueados, p.exec)
           q == [p EXCEPT !.pcb = c, !.bloqueados = b, !.exec = Nadie,
                          !.get_clave = Ninguna, !.get_pid = Nadie]
<1>1. /\ p.exec \in ESIs /\ p.pcb \in [ESIs -> Pcb] /\ p.bloqueados \in Seq(ESIs)
      /\ p.get_clave \in Claves \cup {Ninguna} /\ p.pcb[p.exec] \in Pcb
  BY DEF Memoria
<1>2. b \in Seq(ESIs) /\ ToSet(b) = ToSet(p.bloqueados) \cup {p.exec}
  BY <1>1, AgregarAlFinal
<1>3. f0 \in Pcb
  BY <1>1, Ficha
<1> HIDE DEF b, f0
<1>4. f \in Pcb
  <2> DEFINE g == [f0 EXCEPT !.repetir = TRUE]
  <2>1. g \in Pcb BY <1>3 DEF Pcb
  <2> HIDE DEF g
  <2>2. [g EXCEPT !.clave = p.get_clave] \in Pcb BY <1>1, <2>1, CampoClave
  <2> QED BY <2>2 DEF g
<1> HIDE DEF f
<1>5. c \in [ESIs -> Pcb] /\ \A x \in ESIs : c[x].repetir => p.pcb[x].repetir \/ x = p.exec
  BY <1>1, <1>4
<1>6. resultado_clave_bloqueada(p, e) \in {Romper(p), p, q}
  BY DEF resultado_clave_bloqueada, Memoria, f0, f, b
<1> HIDE DEF c
<1>7. q \in Memoria
  BY <1>2, <1>5 DEF Memoria
<1>8. Deriva(p, q, {p.exec}) /\ Calla(p, q)
  BY <1>1, <1>2, <1>5, <1>7 DEF Memoria, Deriva, Calla, Presentes
<1>9. Deriva(p, Romper(p), {p.exec}) /\ Deriva(p, p, {p.exec})
  BY DerivaRomper, DerivaReflexiva DEF Deriva
<1> HIDE DEF q
<1> QED BY <1>6, <1>8, <1>9, DerivaRomper, DerivaReflexiva

-------------------------------------------------------------------------------
(***************************************************************************)
(* The handlers.                                                           *)
(***************************************************************************)
\* The ESIs whose ejec_anterior a result may raise.
Repiten(p, resultado) == IF resultado \in {"CORRECTO", "CLAVE_BLOQUEADA"} THEN {p.exec} ELSE {}

LEMMA ProcesarResultado ==
  ASSUME NEW p \in Memoria, NEW e \in ESIs, NEW resultado,
         NEW q \in procesar_resultado(p, e, resultado)
  PROVE  Deriva(p, q, Repiten(p, resultado)) /\ Ordena(p, q)
<1>a. ASSUME NEW r, Deriva(p, r, {}), Calla(p, r)
      PROVE  Deriva(p, r, Repiten(p, resultado)) /\ Ordena(p, r)
  BY <1>a DEF Deriva, Calla, Ordena
<1>1. CASE p.exec = Nadie
  BY <1>1, <1>a, DerivaRomper DEF procesar_resultado
<1>2. CASE p.exec # Nadie /\ resultado = "CORRECTO" /\ q \in resultado_correcto(p)
  BY <1>2, ResultadoCorrecto DEF Repiten
<1>3. CASE p.exec # Nadie /\ \E l \in BOOLEAN : q \in finalizar_esi(p, p.exec, l)
  <2>1. p.exec \in ESIs
    BY <1>3 DEF Memoria
  <2> QED BY <1>3, <1>a, <2>1, FinalizarEsi
<1>4. CASE p.exec # Nadie /\ resultado = "CLAVE_BLOQUEADA" /\ q = resultado_clave_bloqueada(p, e)
  BY <1>4, ResultadoBloqueada DEF Calla, Ordena, Repiten
<1> QED BY <1>1, <1>2, <1>3, <1>4 DEF procesar_resultado

LEMMA MensajeDeEsi ==
  ASSUME NEW p \in Memoria, NEW e \in ESIs, NEW resultado,
         NEW q \in recibir_mensaje_esi(p, e, resultado)
  PROVE  Deriva(p, q, Repiten(p, resultado)) /\ Ordena(p, q)
<1>1. PICK r \in procesar_resultado(p, e, resultado) :
        q \in planificar(aumentar_tiempo_espera_ready(r))
  BY DEF recibir_mensaje_esi
<1> DEFINE s == aumentar_tiempo_espera_ready(r)
<1>2. Deriva(p, r, Repiten(p, resultado)) /\ Ordena(p, r) /\ r \in Memoria
  BY ProcesarResultado DEF Deriva
<1>3. Deriva(r, s, {}) /\ Sigue(r, s) /\ s \in Memoria
  BY <1>2, AumentarEspera DEF Deriva
<1> HIDE DEF s
<1>4. Deriva(s, q, {}) /\ Sigue(s, q) /\ q \in Memoria
  BY <1>1, <1>3, Planificar DEF Deriva, s
<1>5. Deriva(p, q, Repiten(p, resultado))
  BY <1>2, <1>3, <1>4 DEF Deriva
<1>6. Ordena(p, s)
  BY <1>2, <1>3, Encadena DEF Deriva
<1>7. Ordena(p, q)
  BY <1>3, <1>4, <1>6, Encadena DEF Deriva
<1> QED BY <1>5, <1>7

\* Two functions that may not take the processor away, one after the other.
LEMMA SigueTransitiva ==
  ASSUME NEW p \in Memoria, NEW q, NEW r,
         Deriva(p, q, {}), Sigue(p, q), Deriva(q, r, {}), Sigue(q, r)
  PROVE  Deriva(p, r, {}) /\ Sigue(p, r)
  BY Encadena DEF Deriva

LEMMA DesconexionDeEsi ==
  ASSUME NEW p \in Memoria, NEW e \in ESIs, NEW q \in recibir_desconexion_esi(p, e)
  PROVE  Deriva(p, q, {}) /\ Sigue(p, q)
<1>1. PICK r \in planificar(p) :
        \E s \in finalizar_esi(r, e, TRUE) : q \in planificar(s)
  BY DEF recibir_desconexion_esi
<1>2. PICK s \in finalizar_esi(r, e, TRUE) : q \in planificar(s)
  BY <1>1
<1>3. Deriva(p, r, {}) /\ Sigue(p, r) /\ r \in Memoria
  BY Planificar DEF Deriva
<1>4. Deriva(r, s, {}) /\ Sigue(r, s) /\ s \in Memoria
  BY <1>3, FinalizarEsi DEF Deriva
<1>5. Deriva(s, q, {}) /\ Sigue(s, q)
  BY <1>2, <1>4, Planificar
<1> QED BY <1>3, <1>4, <1>5, SigueTransitiva

\* The new ESI is the only one that enters the queues.
LEMMA AtenderNuevoEsi ==
  ASSUME NEW p \in Memoria, NEW e \in ESIs, NEW q \in atender_nuevo_esi(p, e)
  PROVE  /\ q \in Memoria /\ Sigue(p, q)
         /\ p.fallo => q.fallo
         /\ Presentes(q) \subseteq Presentes(p) \cup {e}
         /\ q.orden \subseteq p.orden \cup Presentes(p) \cup {e}
         /\ p.terminados \subseteq q.terminados
         /\ \A x \in ESIs : q.pcb[x].repetir => p.pcb[x].repetir
<1> DEFINE l == Append(p.listos, e)
           c == [p.pcb EXCEPT ![e] = crear_esi]
           r == [p EXCEPT !.pcb = c, !.listos = l]
           s == pedir_desalojo(r, e)
<1>1. l \in Seq(ESIs) /\ ToSet(l) = ToSet(p.listos) \cup {e}
  BY AgregarAlFinal DEF Memoria
<1>2. crear_esi \in Pcb /\ crear_esi.repetir = FALSE
  <2>1. Escala * EstimacionInicial \in Int
    BY EstimacionPositiva
  <2> QED BY <2>1 DEF crear_esi, Pcb
<1>3. c \in [ESIs -> Pcb] /\ \A x \in ESIs : c[x].repetir => p.pcb[x].repetir
  BY <1>2 DEF Memoria
<1> HIDE DEF l, c
<1>4. r \in Memoria
  BY <1>1, <1>3 DEF Memoria
<1> DEFINE v == s.por_desalojar
<1>5. v \in ESIs \cup {Nadie} /\ s = [r EXCEPT !.por_desalojar = v]
  BY <1>4, PedirDesalojo
<1> HIDE DEF v, s
<1>6. s = [p EXCEPT !.pcb = c, !.listos = l, !.por_desalojar = v]
  BY <1>5 DEF Memoria
<1>7. s \in Memoria
  BY <1>1, <1>3, <1>5, <1>6 DEF Memoria
<1>8. q \in planificar(s)
  BY DEF atender_nuevo_esi, s, l, c
<1>9. Deriva(s, q, {}) /\ Sigue(s, q)
  BY <1>7, <1>8, Planificar
<1>10. /\ Presentes(s) \subseteq Presentes(p) \cup {e}
       /\ s.exec = p.exec /\ s.orden = p.orden /\ s.terminados = p.terminados
       /\ s.fallo = p.fallo /\ s.pcb = c
  BY <1>1, <1>6 DEF Memoria, Presentes
<1>11. Sigue(p, q)
  BY <1>9, <1>10 DEF Sigue
<1> QED BY <1>3, <1>9, <1>10, <1>11 DEF Deriva

LEMMA MensajeDelCoordinador ==
  ASSUME NEW p \in Memoria, NEW e \in ESIs, NEW op, NEW k \in Claves
  PROVE  LET q == recibir_mensaje_coordinador(p, e, op, k)
         IN  Deriva(p, q, {}) /\ Calla(p, q) /\ Sigue(p, q)
<1> DEFINE g == p.por_get \/ ~buscar_clave_bloqueada(p, k)
           q1 == [p EXCEPT !.por_get = g, !.get_clave = k, !.get_pid = e]
           q2 == [p EXCEPT !.store_clave = k]
<1>1. g \in BOOLEAN
  BY DEF Memoria, buscar_clave_bloqueada
<1> HIDE DEF g
<1>2. q1 \in Memoria /\ q2 \in Memoria
  BY <1>1 DEF Memoria
<1>3. Deriva(p, q1, {}) /\ Calla(p, q1) /\ Sigue(p, q1)
  BY <1>2 DEF Memoria, Deriva, Calla, Sigue, Presentes
<1>4. Deriva(p, q2, {}) /\ Calla(p, q2) /\ Sigue(p, q2)
  BY <1>2 DEF Memoria, Deriva, Calla, Sigue, Presentes
<1>5. recibir_mensaje_coordinador(p, e, op, k) \in {p, q1, q2}
  BY DEF recibir_mensaje_coordinador, g
<1> HIDE DEF q1, q2
<1> QED BY <1>3, <1>4, <1>5, DerivaReflexiva

LEMMA ComandosDeConsola ==
  ASSUME NEW p \in Memoria, NEW q
  PROVE  /\ q = consola_pausar(p) => Deriva(p, q, {}) /\ Sigue(p, q)
         /\ q \in consola_continuar(p) => Deriva(p, q, {}) /\ Sigue(p, q)
         /\ \A k \in Claves : q \in consola_desbloquear_clave(p, k) => Deriva(p, q, {}) /\ Sigue(p, q)
         /\ \A k \in Claves, e \in ESIs :
              q = consola_bloquear_clave(p, k, e) => Deriva(p, q, {}) /\ Sigue(p, q)
         /\ \A e \in ESIs : q \in consola_matar_proceso(p, e) => Deriva(p, q, {}) /\ Sigue(p, q)
<1>1. ASSUME NEW b \in BOOLEAN
      PROVE  LET r == [p EXCEPT !.pausado = b]
             IN  Deriva(p, r, {}) /\ Sigue(p, r) /\ r \in Memoria
  <2> DEFINE r == [p EXCEPT !.pausado = b]
  <2>1. r \in Memoria BY DEF Memoria
  <2> QED BY <2>1 DEF Memoria, Deriva, Sigue, Presentes
<1>2. q = consola_pausar(p) => Deriva(p, q, {}) /\ Sigue(p, q)
  BY <1>1 DEF consola_pausar
<1>3. ASSUME q \in consola_continuar(p) PROVE Deriva(p, q, {}) /\ Sigue(p, q)
  <2> DEFINE r == [p EXCEPT !.pausado = FALSE]
  <2>1. Deriva(p, r, {}) /\ Sigue(p, r) /\ r \in Memoria
    BY <1>1
  <2>2. q \in planificar(r)
    BY <1>3 DEF consola_continuar
  <2> HIDE DEF r
  <2>3. Deriva(r, q, {}) /\ Sigue(r, q)
    BY <2>1, <2>2, Planificar
  <2> QED BY <2>1, <2>3, SigueTransitiva
<1>4. ASSUME NEW k \in Claves, q \in consola_desbloquear_clave(p, k)
      PROVE  Deriva(p, q, {}) /\ Sigue(p, q)
  <2> DEFINE r == desbloquear_clave(p, k)
  <2>1. Deriva(p, r, {}) /\ Sigue(p, r) /\ r \in Memoria
    BY DesbloquearClave DEF Deriva
  <2>2. q \in planificar(r)
    BY <1>4 DEF consola_desbloquear_clave
  <2> HIDE DEF r
  <2>3. Deriva(r, q, {}) /\ Sigue(r, q)
    BY <2>1, <2>2, Planificar
  <2> QED BY <2>1, <2>3, SigueTransitiva
<1>5. ASSUME NEW k \in Claves, NEW e \in ESIs, q = consola_bloquear_clave(p, k, e)
      PROVE  Deriva(p, q, {}) /\ Sigue(p, q)
  BY <1>5, BloquearClave, BloquearEsi DEF consola_bloquear_clave
<1>6. ASSUME NEW e \in ESIs, q \in consola_matar_proceso(p, e)
      PROVE  Deriva(p, q, {}) /\ Sigue(p, q)
  <2>1. CASE e = p.exec
    <3> DEFINE r == [p EXCEPT !.kill = TRUE]
    <3>1. r \in Memoria BY DEF Memoria
    <3>2. Deriva(p, r, {}) /\ Sigue(p, r)
      BY <3>1 DEF Memoria, Deriva, Sigue, Presentes
    <3> QED BY <1>6, <2>1, <3>2 DEF consola_matar_proceso
  <2>2. CASE e # p.exec
    <3>1. PICK r \in finalizar_esi(p, e, TRUE) : q \in planificar(r)
      BY <1>6, <2>2 DEF consola_matar_proceso
    <3>2. Deriva(p, r, {}) /\ Sigue(p, r) /\ r \in Memoria
      BY FinalizarEsi DEF Deriva
    <3>3. Deriva(r, q, {}) /\ Sigue(r, q)
      BY <3>1, <3>2, Planificar
    <3> QED BY <3>2, <3>3, SigueTransitiva
  <2> QED BY <2>1, <2>2
<1> QED BY <1>2, <1>3, <1>4, <1>5, <1>6

\* The memory main starts with.
LEMMA MemoriaInicialBien ==
  /\ MemoriaInicial \in Memoria
  /\ Presentes(MemoriaInicial) = {} /\ MemoriaInicial.orden = {}
  /\ \A e \in ESIs : ~MemoriaInicial.pcb[e].repetir
<1>1. crear_esi \in Pcb /\ crear_esi.repetir = FALSE
  <2>1. Escala * EstimacionInicial \in Int
    BY EstimacionPositiva
  <2> QED BY <2>1 DEF crear_esi, Pcb
<1>2. <<>> \in Seq(ESIs) /\ ToSet(<<>>) = {}
  BY EmptySeq DEF ToSet
<1> QED BY <1>1, <1>2, ClavesDistintas DEF MemoriaInicial, Memoria, Presentes

--------------------------------------------------------------------------------
(***************************************************************************)
(* The steps of the system.                                                *)
(***************************************************************************)
\* An ESI with an order to read waits for it: no order is sent to one that has a
\* statement under way, so that it never finds two.
OrdenEnEspera ==
  ~plan.fallo => \A e \in ESIs : Conectado(e) /\ e \in plan.orden => fase[e] = "espera"

\* The Planificador knows nothing of an ESI that has not connected.
AfueraNoEsta ==
  ~plan.fallo => \A e \in ESIs : fase[e] = "afuera" => e \notin plan.orden \cup Presentes(plan)

\* An ESI with a statement under way, or told to run one again, has read one.
LineaLeida ==
  \A e \in ESIs :
    \/ fase[e] \in {"sentencia", "consulta", "veredicto"}
    \/ fase[e] = "respuesta" /\ resp[e] \in {"CORRECTO", "CLAVE_BLOQUEADA"}
    \/ plan.pcb[e].repetir
    => linea[e].clave \in Claves

\* UnoEnEjecucion is not inductive alone: a second order for an ESI that is
\* already running would let it read while its statement is under way.  Nor is
\* TypeOK: the key a thread registers is that of a line only because of LineaLeida.
IInv == TypeOK /\ UnoEnEjecucion /\ OrdenEnEspera /\ AfueraNoEsta /\ LineaLeida

LEMMA Inicio == Init => IInv
<1> SUFFICES ASSUME Init PROVE IInv
  OBVIOUS
<1>1. TypeOK
  BY MemoriaInicialBien, EntornoBienFormado
  DEF Init, TypeOK, Fases, Operaciones, Resultados, Finales
<1>2. UnoEnEjecucion /\ OrdenEnEspera /\ AfueraNoEsta /\ LineaLeida
  BY MemoriaInicialBien
  DEF Init, UnoEnEjecucion, OrdenEnEspera, AfueraNoEsta, LineaLeida, Conectado
<1> QED BY <1>1, <1>2 DEF IInv

-------------------------------------------------------------------------------
(***************************************************************************)
(* A step of the Planificador that moves no message.                       *)
(***************************************************************************)
LEMMA PasoSinMensaje ==
  ASSUME IInv, ~plan.fallo, Deriva(plan, plan', {}), Sigue(plan, plan'),
         UNCHANGED <<fase, resp, linea>>
  PROVE  UnoEnEjecucion' /\ OrdenEnEspera' /\ AfueraNoEsta' /\ LineaLeida'
<1> USE DEF IInv, Conectado
<1>1. plan \in Memoria /\ plan' \in Memoria /\ Nadie \notin ESIs
  BY PidsDistintos DEF TypeOK, Deriva
<1>2. plan'.orden \subseteq ESIs /\ plan.orden \subseteq ESIs
  BY <1>1 DEF Memoria
<1>3. ASSUME ~plan'.fallo, NEW e \in ESIs, e \in plan'.orden
      PROVE  \/ e \in plan.orden
             \/ e = plan'.exec /\ e # plan.exec
             \/ e \in plan'.terminados
  BY <1>3 DEF Sigue
<1>4. plan.terminados \subseteq plan'.terminados
  BY DEF Deriva
<1>5. UnoEnEjecucion'
  <2> SUFFICES ASSUME ~plan'.fallo, NEW e \in ESIs, Conectado(e)',
                      e \in plan'.orden \/ fase'[e] # "espera"
               PROVE  plan'.exec = e
    BY DEF UnoEnEjecucion
  <2>1. Conectado(e)
    BY <1>4
  <2>2. e = plan'.exec \/ plan.exec = e
    BY <1>3, <2>1 DEF UnoEnEjecucion
  <2> QED BY <1>1, <2>2 DEF Sigue
<1>6. OrdenEnEspera'
  <2> SUFFICES ASSUME ~plan'.fallo, NEW e \in ESIs, Conectado(e)', e \in plan'.orden
               PROVE  fase'[e] = "espera"
    BY DEF OrdenEnEspera
  <2> QED BY <1>3, <1>4 DEF OrdenEnEspera, UnoEnEjecucion
<1>7. AfueraNoEsta'
  <2> SUFFICES ASSUME ~plan'.fallo, NEW e \in ESIs, fase'[e] = "afuera"
               PROVE  e \notin plan'.orden \cup Presentes(plan')
    BY DEF AfueraNoEsta
  <2> QED BY DEF AfueraNoEsta, Deriva
<1>8. LineaLeida'
  BY DEF LineaLeida, Deriva
<1> QED BY <1>5, <1>6, <1>7, <1>8

-------------------------------------------------------------------------------
(***************************************************************************)
(* The handlers that read a message or a connection.                       *)
(***************************************************************************)
LEMMA PasoConMensaje ==
  ASSUME IInv, NEW e \in ESIs, RecibirMensajeEsi(e)
  PROVE  UnoEnEjecucion' /\ OrdenEnEspera' /\ AfueraNoEsta' /\ LineaLeida'
<1> USE DEF IInv, Conectado
<1>1. /\ ~plan.fallo /\ plan \in Memoria /\ fase \in [ESIs -> Fases]
      /\ resp \in [ESIs -> Resultados \cup {"nada"}]
      /\ fase[e] = "respuesta" /\ Conectado(e) /\ plan.exec = e
      /\ fase' = [fase EXCEPT ![e] = "espera"] /\ resp' = [resp EXCEPT ![e] = "nada"]
      /\ linea' = linea
  BY DEF RecibirMensajeEsi, TypeOK, UnoEnEjecucion, entorno
<1>2. Deriva(plan, plan', Repiten(plan, resp[e])) /\ Ordena(plan, plan')
  BY <1>1, MensajeDeEsi DEF RecibirMensajeEsi
<1>3. ASSUME NEW f \in ESIs, Conectado(f)', ~plan'.fallo
      PROVE  /\ Conectado(f) /\ (f # e => f \notin plan.orden /\ fase[f] = "espera")
             /\ f \notin plan.orden
             /\ f \in plan'.orden => f = plan'.exec
  <2>1. Conectado(f)
    BY <1>1, <1>2, <1>3 DEF Deriva
  <2>2. f \notin plan.orden /\ (f # e => fase[f] = "espera")
    BY <1>1, <2>1 DEF UnoEnEjecucion, OrdenEnEspera
  <2> QED BY <1>2, <1>3, <2>1, <2>2 DEF Ordena
<1>4. UnoEnEjecucion'
  BY <1>1, <1>3 DEF UnoEnEjecucion
<1>5. OrdenEnEspera'
  BY <1>1, <1>3 DEF OrdenEnEspera
<1>6. AfueraNoEsta'
  BY <1>1, <1>2 DEF AfueraNoEsta, Deriva
<1>7. LineaLeida'
  <2> SUFFICES ASSUME NEW f \in ESIs,
                      \/ fase'[f] \in {"sentencia", "consulta", "veredicto"}
                      \/ fase'[f] = "respuesta" /\ resp'[f] \in {"CORRECTO", "CLAVE_BLOQUEADA"}
                      \/ plan'.pcb[f].repetir
               PROVE  linea'[f].clave \in Claves
    BY DEF LineaLeida
  <2>1. CASE f = e
    BY <1>1, <1>2, <2>1 DEF LineaLeida, Deriva, Repiten
  <2>2. CASE f # e
    BY <1>1, <1>2, <2>2 DEF LineaLeida, Deriva, Repiten
  <2> QED BY <2>1, <2>2
<1> QED BY <1>4, <1>5, <1>6, <1>7

LEMMA PasoConConsulta ==
  ASSUME IInv, NEW e \in ESIs, RecibirConsulta(e)
  PROVE  /\ plan' \in Memoria
         /\ UnoEnEjecucion' /\ OrdenEnEspera' /\ AfueraNoEsta' /\ LineaLeida'
<1> USE DEF IInv, Conectado
<1>1. /\ ~plan.fallo /\ plan \in Memoria /\ fase \in [ESIs -> Fases]
      /\ fase[e] = "consulta" /\ fase' = [fase EXCEPT ![e] = "veredicto"]
      /\ linea' = linea /\ linea[e].clave \in Claves
      /\ \A f \in ESIs : f # e => resp'[f] = resp[f]
  BY DEF RecibirConsulta, TypeOK, LineaLeida, entorno
<1>2. Deriva(plan, plan', {}) /\ Calla(plan, plan') /\ Sigue(plan, plan')
  BY <1>1, MensajeDelCoordinador DEF RecibirConsulta
<1>3. ASSUME NEW f \in ESIs, Conectado(f)', ~plan'.fallo
      PROVE  /\ Conectado(f) /\ (plan.exec = f => plan'.exec = f)
             /\ (f \in plan'.orden => f \in plan.orden)
  BY <1>1, <1>2, <1>3, PidsDistintos DEF Deriva, Sigue, Calla
<1>4. UnoEnEjecucion'
  BY <1>1, <1>3 DEF UnoEnEjecucion
<1>5. OrdenEnEspera'
  BY <1>1, <1>3 DEF OrdenEnEspera
<1>6. AfueraNoEsta'
  BY <1>1, <1>2 DEF AfueraNoEsta, Deriva
<1>7. LineaLeida'
  BY <1>1, <1>2 DEF LineaLeida, Deriva
<1> QED BY <1>2, <1>4, <1>5, <1>6, <1>7 DEF Deriva

LEMMA PasoConNuevo ==
  ASSUME IInv, NEW e \in ESIs, LlegarEsi(e)
  PROVE  /\ plan' \in Memoria
         /\ UnoEnEjecucion' /\ OrdenEnEspera' /\ AfueraNoEsta' /\ LineaLeida'
<1> USE DEF IInv, Conectado
<1>1. /\ ~plan.fallo /\ plan \in Memoria /\ fase \in [ESIs -> Fases]
      /\ fase[e] = "afuera" /\ fase' = [fase EXCEPT ![e] = "espera"]
      /\ linea' = linea /\ resp' = resp
      /\ e \notin plan.orden /\ plan.exec # e
  BY PidsDistintos DEF LlegarEsi, TypeOK, AfueraNoEsta, Presentes, entorno
<1>2. /\ plan' \in Memoria /\ Sigue(plan, plan')
      /\ Presentes(plan') \subseteq Presentes(plan) \cup {e}
      /\ plan'.orden \subseteq plan.orden \cup Presentes(plan) \cup {e}
      /\ plan.terminados \subseteq plan'.terminados
      /\ \A x \in ESIs : plan'.pcb[x].repetir => plan.pcb[x].repetir
  BY <1>1, AtenderNuevoEsi DEF LlegarEsi
<1>3. ASSUME NEW f \in ESIs, Conectado(f)', ~plan'.fallo
      PROVE  /\ f # e => Conectado(f)
             /\ plan.exec = f => plan'.exec = f
             /\ f \in plan'.orden => f \in plan.orden \/ (f = plan'.exec /\ f # plan.exec)
  BY <1>1, <1>2, <1>3, PidsDistintos DEF Sigue
<1>4. UnoEnEjecucion'
  BY <1>1, <1>3 DEF UnoEnEjecucion
<1>5. OrdenEnEspera'
  BY <1>1, <1>3 DEF OrdenEnEspera, UnoEnEjecucion
<1>6. AfueraNoEsta'
  BY <1>1, <1>2 DEF AfueraNoEsta
<1>7. LineaLeida'
  BY <1>1, <1>2 DEF LineaLeida
<1> QED BY <1>2, <1>4, <1>5, <1>6, <1>7

-------------------------------------------------------------------------------
(***************************************************************************)
(* The ESI and its Coordinador thread: the memory of the Planificador only  *)
(* loses the order the ESI reads.                                          *)
(***************************************************************************)
LEMMA OrdenLeida ==
  ASSUME IInv, NEW e \in ESIs, TomaOrden(e)
  PROVE  /\ plan' \in Memoria /\ plan' = [plan EXCEPT !.orden = plan.orden \ {e}]
         /\ fase[e] = "espera" /\ Conectado(e) /\ (~plan.fallo => plan.exec = e)
  BY DEF IInv, TypeOK, Memoria, TomaOrden, Vivo, UnoEnEjecucion

\* The phase of e moves on, with its order read.
LEMMA PasoDeEsi ==
  ASSUME IInv, NEW e \in ESIs, TomaOrden(e),
         fase'[e] \in {"sentencia", "respuesta"},
         \A f \in ESIs : f # e => fase'[f] = fase[f] /\ resp'[f] = resp[f] /\ linea'[f] = linea[f],
         fase'[e] = "sentencia" => linea'[e].clave \in Claves,
         fase'[e] = "respuesta" => resp'[e] \in {"LISTO", "ABORTAR"},
         linea[e].clave \in Claves => linea'[e].clave \in Claves
  PROVE  UnoEnEjecucion' /\ OrdenEnEspera' /\ AfueraNoEsta' /\ LineaLeida'
<1> USE DEF IInv, Conectado
<1>1. /\ plan \in Memoria /\ plan' = [plan EXCEPT !.orden = plan.orden \ {e}]
      /\ fase[e] = "espera" /\ Conectado(e) /\ (~plan.fallo => plan.exec = e)
  BY OrdenLeida DEF TypeOK
<1>2. /\ plan'.exec = plan.exec /\ plan'.fallo = plan.fallo
      /\ plan'.terminados = plan.terminados /\ plan'.pcb = plan.pcb
      /\ plan'.orden = plan.orden \ {e} /\ Presentes(plan') = Presentes(plan)
  BY <1>1 DEF Memoria, Presentes
<1>3. UnoEnEjecucion'
  BY <1>1, <1>2 DEF UnoEnEjecucion
<1>4. OrdenEnEspera'
  BY <1>1, <1>2 DEF OrdenEnEspera
<1>5. AfueraNoEsta'
  BY <1>1, <1>2 DEF AfueraNoEsta
<1>6. LineaLeida'
  BY <1>1, <1>2 DEF LineaLeida
<1> QED BY <1>3, <1>4, <1>5, <1>6

LEMMA ConservaEsi ==
  ASSUME IInv, NEW e \in ESIs, Esi(e)
  PROVE  IInv'
<1> USE DEF TypeOK, entorno
<1>0. /\ TypeOK /\ TomaOrden(e) /\ plan' \in Memoria /\ fase[e] = "espera"
      /\ (plan.pcb[e].repetir => linea[e].clave \in Claves)
  BY OrdenLeida
  DEF IInv, LineaLeida, Esi, LeerLinea, RepetirLinea, FinDelScript, LineaInvalida
<1>1. CASE LeerLinea(e)
  <2>1. PICK s \in Sentencias, f \in FinDeArchivo :
          linea' = [linea EXCEPT ![e] = s] /\ eof' = [eof EXCEPT ![e] = f]
    BY <1>1 DEF LeerLinea
  <2>2. /\ fase' = [fase EXCEPT ![e] = "sentencia"] /\ resp' = resp /\ proceso' = proceso
        /\ leidas[e] < MaxLineas /\ leidas' = [leidas EXCEPT ![e] = @ + 1]
        /\ registro' = registro /\ tiene' = tiene /\ fin' = fin /\ pedidos' = pedidos
    BY <1>1 DEF LeerLinea, Enviar
  <2>3. /\ s.clave \in Claves /\ s.op \in Operaciones /\ f \in BOOLEAN
        /\ s \in [op : Operaciones, clave : Claves \cup {Ninguna}]
    BY EntornoBienFormado DEF Sentencias
  <2>4. TypeOK'
    <3>1. leidas' \in [ESIs -> 0..MaxLineas]
      BY <1>0, <2>2, EntornoBienFormado
    <3>2. linea' \in [ESIs -> [op : Operaciones, clave : Claves \cup {Ninguna}]]
      BY <1>0, <2>1, <2>3
    <3>3. eof' \in [ESIs -> BOOLEAN]
      BY <1>0, <2>1, <2>3
    <3> QED BY <1>0, <2>2, <3>1, <3>2, <3>3 DEF Fases
  <2>5. UnoEnEjecucion' /\ OrdenEnEspera' /\ AfueraNoEsta' /\ LineaLeida'
    BY <1>0, <2>1, <2>2, <2>3, PasoDeEsi
  <2> QED BY <2>4, <2>5 DEF IInv
<1>2. CASE RepetirLinea(e)
  <2>1. fase' = [fase EXCEPT ![e] = "sentencia"] /\ resp' = resp /\ linea' = linea
    BY <1>2 DEF RepetirLinea, Enviar
  <2>2. linea'[e].clave \in Claves
    BY <1>0, <1>2, <2>1 DEF RepetirLinea
  <2>3. TypeOK'
    BY <1>0, <1>2 DEF RepetirLinea, Enviar, Fases
  <2>4. UnoEnEjecucion' /\ OrdenEnEspera' /\ AfueraNoEsta' /\ LineaLeida'
    BY <1>0, <2>1, <2>2, PasoDeEsi
  <2> QED BY <2>3, <2>4 DEF IInv
<1>3. CASE FinDelScript(e) \/ LineaInvalida(e)
  <2>1. PICK r \in {"LISTO", "ABORTAR"} :
          /\ fase' = [fase EXCEPT ![e] = "respuesta"] /\ resp' = [resp EXCEPT ![e] = r]
          /\ linea' = linea /\ proceso' = [proceso EXCEPT ![e] = "cerrado"]
          /\ UNCHANGED <<eof, leidas, registro, tiene, fin, pedidos>>
    BY <1>3 DEF FinDelScript, LineaInvalida, Terminar
  <2>2. TypeOK'
    BY <1>0, <2>1 DEF Fases, Resultados
  <2>3. UnoEnEjecucion' /\ OrdenEnEspera' /\ AfueraNoEsta' /\ LineaLeida'
    BY <1>0, <2>1, PasoDeEsi
  <2> QED BY <2>2, <2>3 DEF IInv
<1> QED BY <1>1, <1>2, <1>3 DEF Esi

\* The result that a Coordinador thread sends, wherever it got it.
LEMMA ConservaRespuesta ==
  ASSUME IInv, NEW e \in ESIs, NEW resultado \in Resultados \cup {"nada"},
         fase[e] \in {"sentencia", "veredicto"}, Responder(e, resultado),
         registro' \subseteq Claves
  PROVE  IInv'
<1> USE DEF entorno
<1>1. /\ TypeOK /\ plan' = plan /\ linea' = linea /\ linea[e].clave \in Claves
      /\ eof' = eof /\ leidas' = leidas /\ fin' = fin /\ pedidos' = pedidos
      /\ \E f \in {"espera", "respuesta"} : fase' = [fase EXCEPT ![e] = f]
      /\ \E r \in Resultados \cup {"nada"} : resp' = [resp EXCEPT ![e] = r]
  BY DEF IInv, Responder, LineaLeida
<1>2. proceso' \in [ESIs -> {"vivo", "cerrado", "reset"}]
  BY <1>1 DEF Responder, TypeOK
<1>3. tiene' \in [ESIs -> SUBSET Claves]
  <2>1. \/ tiene' = tiene
        \/ \E t \in SUBSET Claves : tiene' = [tiene EXCEPT ![e] = t]
    <3>1. CASE proceso[e] = "vivo" /\ resultado = "CORRECTO" /\ linea[e].op = "GET"
      BY <1>1, <3>1 DEF Responder, TypeOK
    <3>2. CASE proceso[e] = "vivo" /\ resultado = "CORRECTO" /\ linea[e].op = "STORE"
      BY <1>1, <3>2 DEF Responder, TypeOK
    <3>3. CASE proceso[e] = "vivo" /\ resultado = "CORRECTO" /\ linea[e].op = "SET"
      BY <1>1, <3>3 DEF Responder, TypeOK
    <3>4. CASE ~(proceso[e] = "vivo" /\ resultado = "CORRECTO")
      BY <1>1, <3>4 DEF Responder, TypeOK
    <3>5. linea[e].op \in Operaciones
      BY <1>1 DEF TypeOK
    <3> QED BY <3>1, <3>2, <3>3, <3>4, <3>5 DEF Operaciones
  <2> QED BY <1>1, <2>1 DEF TypeOK
<1>4. fase' \in [ESIs -> Fases] /\ resp' \in [ESIs -> Resultados \cup {"nada"}]
  <2>1. PICK f \in {"espera", "respuesta"} : fase' = [fase EXCEPT ![e] = f]
    BY <1>1
  <2>2. PICK r \in Resultados \cup {"nada"} : resp' = [resp EXCEPT ![e] = r]
    BY <1>1
  <2> QED BY <1>1, <2>1, <2>2 DEF TypeOK, Fases
<1>5. /\ fase'[e] \in {"espera", "respuesta"}
      /\ \A f \in ESIs : f # e => fase'[f] = fase[f] /\ resp'[f] = resp[f]
  BY <1>1 DEF TypeOK
<1>6. TypeOK'
  BY <1>1, <1>2, <1>3, <1>4 DEF TypeOK
<1>7. \A f \in ESIs : Conectado(f)' <=> Conectado(f)
  BY <1>1, <1>5 DEF Conectado
<1>8. UnoEnEjecucion'
  BY <1>1, <1>5, <1>7 DEF IInv, UnoEnEjecucion, Conectado
<1>9. OrdenEnEspera'
  BY <1>1, <1>5, <1>7 DEF IInv, OrdenEnEspera
<1>10. AfueraNoEsta'
  BY <1>1, <1>5 DEF IInv, AfueraNoEsta
<1>11. LineaLeida'
  BY <1>1, <1>5 DEF IInv, LineaLeida
<1> QED BY <1>8, <1>9, <1>10, <1>11, <1>6 DEF IInv

LEMMA ConservaCoordinador ==
  ASSUME IInv, NEW e \in ESIs, Coordinador(e)
  PROVE  IInv'
<1>1. CASE RechazarSentencia(e)
  BY <1>1, ConservaRespuesta DEF RechazarSentencia, IInv, TypeOK, Resultados
<1>2. CASE EliminarClave(e)
  BY <1>2, ConservaRespuesta DEF EliminarClave, IInv, TypeOK, Resultados
<1>3. CASE ProseguirOperacion(e)
  <2>1. PICK r \in Resultados \cup {"nada"} : Responder(e, r)
    BY <1>3 DEF ProseguirOperacion, IInv, TypeOK, Resultados
  <2> QED BY <1>3, <2>1, ConservaRespuesta DEF ProseguirOperacion, IInv, TypeOK
<1>4. CASE ConsultarPlanificador(e)
  <2>1. /\ linea[e].clave \in Claves /\ registro' = registro \cup {linea[e].clave}
        /\ fase' = [fase EXCEPT ![e] = "consulta"] /\ fase[e] = "sentencia"
        /\ UNCHANGED <<plan, resp, linea, eof, leidas, proceso, tiene, fin, pedidos>>
    BY <1>4 DEF ConsultarPlanificador, IInv, LineaLeida, entorno
  <2>2. TypeOK'
    BY <2>1 DEF IInv, TypeOK, Fases
  <2>3. UnoEnEjecucion' /\ OrdenEnEspera' /\ AfueraNoEsta' /\ LineaLeida'
    BY <2>1
    DEF IInv, TypeOK, UnoEnEjecucion, OrdenEnEspera, AfueraNoEsta, LineaLeida, Conectado
  <2> QED BY <2>2, <2>3 DEF IInv
<1> QED BY <1>1, <1>2, <1>3, <1>4 DEF Coordinador

-------------------------------------------------------------------------------
(***************************************************************************)
(* IInv is kept by every step.                                             *)
(***************************************************************************)
LEMMA ConservaAtender ==
  ASSUME IInv, NEW e \in ESIs, LlegarEsi(e) \/ Atender(e)
  PROVE  IInv'
<1> USE DEF entorno
<1>1. CASE LlegarEsi(e)
  <2>1. TypeOK'
    BY <1>1, PasoConNuevo DEF LlegarEsi, IInv, TypeOK, Fases
  <2> QED BY <1>1, <2>1, PasoConNuevo DEF IInv
<1>2. CASE RecibirConsulta(e)
  <2>1. veredicto(plan, e, linea[e].op, linea[e].clave) \in Resultados
    BY DEF veredicto, Resultados
  <2>2. TypeOK'
    BY <1>2, <2>1, PasoConConsulta DEF RecibirConsulta, IInv, TypeOK, Fases
  <2> QED BY <1>2, <2>2, PasoConConsulta DEF IInv
<1>3. CASE RecibirMensajeEsi(e)
  <2>1. plan' \in Memoria
    BY <1>3, MensajeDeEsi DEF RecibirMensajeEsi, IInv, TypeOK, Deriva
  <2>2. fin' \in [ESIs -> Finales]
    BY <1>3 DEF RecibirMensajeEsi, Anotar, Finales, IInv, TypeOK
  <2>3. TypeOK'
    BY <1>3, <2>1, <2>2 DEF RecibirMensajeEsi, IInv, TypeOK, Fases
  <2> QED BY <1>3, <2>3, PasoConMensaje DEF IInv
<1>4. CASE RecibirDesconexion(e) \/ RecibirReset(e)
  <2>1. Deriva(plan, plan', {}) /\ Sigue(plan, plan') /\ ~plan.fallo
    BY <1>4, DesconexionDeEsi, FinalizarEsi
    DEF RecibirDesconexion, RecibirReset, recibir_error_esi, IInv, TypeOK
  <2>2. fin' \in [ESIs -> Finales]
    BY <1>4 DEF RecibirDesconexion, RecibirReset, Anotar, Finales, IInv, TypeOK
  <2>3. UNCHANGED <<fase, resp, linea, eof, leidas, proceso, registro, tiene, pedidos>>
    BY <1>4 DEF RecibirDesconexion, RecibirReset
  <2>4. TypeOK'
    BY <2>1, <2>2, <2>3 DEF IInv, TypeOK, Deriva
  <2> QED BY <2>1, <2>3, <2>4, PasoSinMensaje DEF IInv
<1> QED BY <1>1, <1>2, <1>3, <1>4 DEF Atender

\* What every command of the console does to the memory of the Planificador.
LEMMA ConsolaDeriva ==
  ASSUME IInv, Consola
  PROVE  Deriva(plan, plan', {}) /\ Sigue(plan, plan') /\ ~plan.fallo
<1> USE DEF Comando, IInv, TypeOK
<1>1. CASE ConsolaPausar
  BY <1>1, ComandosDeConsola DEF ConsolaPausar
<1>2. CASE ConsolaContinuar
  BY <1>2, ComandosDeConsola DEF ConsolaContinuar
<1>3. ASSUME NEW k \in Claves, ConsolaDesbloquear(k)
      PROVE  Deriva(plan, plan', {}) /\ Sigue(plan, plan') /\ ~plan.fallo
  BY <1>3, ComandosDeConsola DEF ConsolaDesbloquear
<1>4. ASSUME NEW k \in Claves, NEW e \in ESIs, ConsolaBloquear(k, e)
      PROVE  Deriva(plan, plan', {}) /\ Sigue(plan, plan') /\ ~plan.fallo
  BY <1>4, ComandosDeConsola DEF ConsolaBloquear
<1>5. ASSUME NEW e \in ESIs, ConsolaMatar(e)
      PROVE  Deriva(plan, plan', {}) /\ Sigue(plan, plan') /\ ~plan.fallo
  BY <1>5, ComandosDeConsola DEF ConsolaMatar
<1> QED BY <1>1, <1>2, <1>3, <1>4, <1>5 DEF Consola

LEMMA ConservaConsola ==
  ASSUME IInv, Consola
  PROVE  IInv'
<1> USE DEF entorno, IInv, TypeOK
<1>1. /\ Deriva(plan, plan', {}) /\ Sigue(plan, plan') /\ ~plan.fallo
  BY ConsolaDeriva
<1>2. UNCHANGED <<fase, resp, linea, eof, leidas, proceso, registro, tiene>>
  BY DEF Consola, ConsolaPausar, ConsolaContinuar, ConsolaDesbloquear, ConsolaBloquear,
         ConsolaMatar
<1>3. fin' \in [ESIs -> Finales] /\ pedidos' \subseteq ESIs
  BY DEF Consola, ConsolaPausar, ConsolaContinuar, ConsolaDesbloquear, ConsolaBloquear,
         ConsolaMatar, Anotar, Finales
<1>4. TypeOK'
  BY <1>1, <1>2, <1>3 DEF Deriva
<1> QED BY <1>1, <1>2, <1>4, PasoSinMensaje

LEMMA ConservaCaida ==
  ASSUME IInv, NEW e \in ESIs, Caer(e)
  PROVE  IInv'
<1>1. UNCHANGED <<plan, fase, resp, linea, eof, leidas, registro, tiene, fin, pedidos>>
  BY DEF Caer, entorno
<1>2. TypeOK'
  BY <1>1 DEF Caer, IInv, TypeOK
<1> QED
  BY <1>1, <1>2
  DEF IInv, UnoEnEjecucion, OrdenEnEspera, AfueraNoEsta, LineaLeida, Conectado

LEMMA ConservaInv ==
  ASSUME IInv, [Next]_vars
  PROVE  IInv'
<1>1. ASSUME NEW e \in ESIs, LlegarEsi(e) \/ Esi(e) \/ Coordinador(e) \/ Atender(e) \/ Caer(e)
      PROVE  IInv'
  BY <1>1, ConservaAtender, ConservaEsi, ConservaCoordinador, ConservaCaida
<1>2. CASE Consola
  BY <1>2, ConservaConsola
<1>3. CASE UNCHANGED vars
  BY <1>3
  DEF vars, entorno, IInv, TypeOK, UnoEnEjecucion, OrdenEnEspera, AfueraNoEsta,
      LineaLeida, Conectado
<1> QED BY <1>1, <1>2, <1>3 DEF Next

THEOREM Invariante == Spec => []IInv
<1>1. IInv /\ [Next]_vars => IInv'
  BY ConservaInv
<1> QED BY <1>1, Inicio, PTL DEF Spec

\* The variables keep their types, whatever the ESIs, the Instancias and the
\* operator do.
THEOREM Tipos == Spec => []TypeOK
<1>1. IInv => TypeOK BY DEF IInv
<1> QED BY <1>1, Invariante, PTL

\* Two scripts never advance at once, and a result is always charged to the ESI
\* that sent it, for every algorithm, console command and death of an ESI.
THEOREM UnSoloEsiAvanza == Spec => []UnoEnEjecucion
<1>1. IInv => UnoEnEjecucion BY DEF IInv
<1> QED BY <1>1, Invariante, PTL

-------------------------------------------------------------------------------
(***************************************************************************)
(* The lists as sets: none of them holds an ESI twice.                     *)
(***************************************************************************)
LEMMA AgregarUno ==
  ASSUME NEW s \in Seq(ESIs), IsInjective(s), NEW x \in ESIs, x \notin ToSet(s)
  PROVE  IsInjective(Append(s, x))
<1>1. /\ Len(Append(s, x)) = Len(s) + 1
      /\ \A i \in 1..Len(s) : Append(s, x)[i] = s[i]
      /\ Append(s, x)[Len(s) + 1] = x
      /\ Append(s, x) \in Seq(ESIs)
  BY AppendProperties
<1>2. Len(s) \in Nat /\ DOMAIN s = 1..Len(s) /\ DOMAIN Append(s, x) = 1..(Len(s) + 1)
  BY <1>1, LenProperties
<1>3. \A i \in 1..Len(s) : s[i] # x
  BY <1>2, Elementos
<1> SUFFICES ASSUME NEW i \in 1..(Len(s) + 1), NEW j \in 1..(Len(s) + 1),
                    Append(s, x)[i] = Append(s, x)[j]
             PROVE  i = j
  BY <1>2 DEF IsInjective
<1>4. i \in 1..Len(s) \/ i = Len(s) + 1
  BY <1>2
<1>5. j \in 1..Len(s) \/ j = Len(s) + 1
  BY <1>2
<1> QED BY <1>1, <1>2, <1>3, <1>4, <1>5 DEF IsInjective

LEMMA UnirListas ==
  ASSUME NEW s \in Seq(ESIs), NEW t \in Seq(ESIs), IsInjective(s), IsInjective(t),
         ToSet(s) \cap ToSet(t) = {}
  PROVE  IsInjective(s \o t) /\ ToSet(s \o t) = ToSet(s) \cup ToSet(t)
<1> DEFINE u == s \o t
<1>1. /\ u \in Seq(ESIs) /\ Len(u) = Len(s) + Len(t)
      /\ \A i \in 1..(Len(s) + Len(t)) : u[i] = IF i <= Len(s) THEN s[i] ELSE t[i - Len(s)]
  BY ConcatProperties
<1>2. /\ Len(s) \in Nat /\ DOMAIN s = 1..Len(s)
      /\ Len(t) \in Nat /\ DOMAIN t = 1..Len(t)
      /\ DOMAIN u = 1..(Len(s) + Len(t))
  BY <1>1, LenProperties
<1> HIDE DEF u
<1>3. IsInjective(u)
  <2> SUFFICES ASSUME NEW i \in DOMAIN u, NEW j \in DOMAIN u, u[i] = u[j]
               PROVE  i = j
    BY DEF IsInjective
  <2>1. \A n \in DOMAIN u :
          \/ n \in DOMAIN s /\ u[n] = s[n]
          \/ n > Len(s) /\ n - Len(s) \in DOMAIN t /\ u[n] = t[n - Len(s)]
    BY <1>1, <1>2
  <2>2. \A n \in DOMAIN s, m \in DOMAIN t : s[n] # t[m]
    BY Elementos
  <2>3. CASE i \in DOMAIN s /\ u[i] = s[i] /\ j \in DOMAIN s /\ u[j] = s[j]
    BY <2>3 DEF IsInjective
  <2>4. CASE /\ i > Len(s) /\ i - Len(s) \in DOMAIN t /\ u[i] = t[i - Len(s)]
             /\ j > Len(s) /\ j - Len(s) \in DOMAIN t /\ u[j] = t[j - Len(s)]
    <3>1. i - Len(s) = j - Len(s)
      BY <2>4 DEF IsInjective
    <3> QED BY <1>2, <3>1
  <2> QED BY <2>1, <2>2, <2>3, <2>4
<1>4. ToSet(u) = ToSet(s) \cup ToSet(t)
  <2>1. ToSet(u) \subseteq ToSet(s) \cup ToSet(t)
    BY Concatenar DEF u
  <2>2. ASSUME NEW n \in DOMAIN s PROVE s[n] \in ToSet(u)
    <3>1. n \in DOMAIN u /\ u[n] = s[n]
      BY <1>1, <1>2
    <3> QED BY <3>1, <1>1, Elementos
  <2>3. ASSUME NEW n \in DOMAIN t PROVE t[n] \in ToSet(u)
    <3>1. n + Len(s) \in DOMAIN u /\ u[n + Len(s)] = t[n]
      BY <1>1, <1>2
    <3> QED BY <3>1, <1>1, Elementos
  <2>4. ToSet(s) \subseteq ToSet(u) /\ ToSet(t) \subseteq ToSet(u)
    BY <2>2, <2>3, Elementos
  <2> QED BY <2>1, <2>4
<1> QED BY <1>3, <1>4 DEF u

LEMMA QuitarUno ==
  ASSUME NEW s \in Seq(ESIs), IsInjective(s), NEW i \in DOMAIN s
  PROVE  IsInjective(RemoveAt(s, i)) /\ ToSet(RemoveAt(s, i)) = ToSet(s) \ {s[i]}
<1> DEFINE a == SubSeq(s, 1, i - 1)
           b == SubSeq(s, i + 1, Len(s))
<1>1. i \in 1..Len(s) /\ Len(s) \in Nat /\ DOMAIN s = 1..Len(s)
  BY LenProperties
<1>2. /\ a \in Seq(ESIs) /\ Len(a) = i - 1 /\ \A j \in 1..(i - 1) : a[j] = s[j]
      /\ b \in Seq(ESIs) /\ Len(b) = Len(s) - i /\ \A j \in 1..(Len(s) - i) : b[j] = s[j + i]
  <2>1. \A j \in 1..(i - 1) : s[j] \in ESIs
    BY <1>1, ElementOfSeq
  <2>2. \A j \in (i + 1)..Len(s) : s[j] \in ESIs
    BY <1>1, ElementOfSeq
  <2>3. i - 1 \in Int /\ i + 1 \in Int /\ Len(s) \in Int /\ i >= 1 /\ i <= Len(s)
    BY <1>1
  <2>4. a \in Seq(ESIs) /\ Len(a) = i - 1 /\ \A j \in 1..(i - 1) : a[j] = s[j]
    BY <2>1, <2>3, SubSeqProperties
  <2>5. b \in Seq(ESIs) /\ Len(b) = Len(s) - i /\ \A j \in 1..(Len(s) - i) : b[j] = s[j + i]
    BY <2>2, <2>3, SubSeqProperties
  <2> QED BY <2>4, <2>5
<1>3. DOMAIN a = 1..(i - 1) /\ DOMAIN b = 1..(Len(s) - i)
  BY <1>2, LenProperties
<1> HIDE DEF a, b
<1>4. IsInjective(a) /\ IsInjective(b)
  <2>1. \A j \in DOMAIN a : j \in DOMAIN s /\ a[j] = s[j]
    BY <1>1, <1>2, <1>3
  <2>2. \A j \in DOMAIN b : j + i \in DOMAIN s /\ b[j] = s[j + i]
    <3>1. \A j \in 1..(Len(s) - i) : j + i \in 1..Len(s)
      BY <1>1
    <3> QED BY <1>1, <1>2, <1>3, <3>1
  <2>3. IsInjective(a)
    BY <2>1 DEF IsInjective
  <2>4. ASSUME NEW j \in DOMAIN b, NEW k \in DOMAIN b, b[j] = b[k] PROVE j = k
    <3>1. j + i = k + i
      BY <2>2, <2>4 DEF IsInjective
    <3> QED BY <1>1, <1>3, <3>1
  <2> QED BY <2>3, <2>4 DEF IsInjective
<1>5. ToSet(a) = {s[j] : j \in 1..(i - 1)} /\ ToSet(b) = {s[j] : j \in (i + 1)..Len(s)}
  <2>1. ToSet(a) = {s[j] : j \in 1..(i - 1)}
    BY <1>2, <1>3 DEF ToSet
  <2>2. ToSet(b) = {b[j] : j \in 1..(Len(s) - i)}
    BY <1>3 DEF ToSet
  <2>3. ASSUME NEW j \in (i + 1)..Len(s) PROVE s[j] \in ToSet(b)
    <3>1. j - i \in 1..(Len(s) - i) /\ (j - i) + i = j
      BY <1>1
    <3>2. b[j - i] = s[(j - i) + i]
      BY <1>2, <3>1
    <3> QED BY <2>2, <3>1, <3>2
  <2>4. ASSUME NEW j \in 1..(Len(s) - i) PROVE b[j] \in {s[n] : n \in (i + 1)..Len(s)}
    <3>1. j + i \in (i + 1)..Len(s) /\ b[j] = s[j + i]
      BY <1>1, <1>2
    <3> QED BY <3>1
  <2> QED BY <2>1, <2>2, <2>3, <2>4
<1>6. ToSet(s) = {s[j] : j \in 1..Len(s)}
  BY <1>1 DEF ToSet
<1>7. ToSet(a) \cap ToSet(b) = {}
  <2>1. \A j \in 1..(i - 1), k \in (i + 1)..Len(s) : j \in DOMAIN s /\ k \in DOMAIN s /\ j # k
    BY <1>1
  <2> QED BY <1>5, <2>1 DEF IsInjective
<1>8. ToSet(a) \cup ToSet(b) = ToSet(s) \ {s[i]}
  <2>1. \A j \in 1..Len(s) : j \in 1..(i - 1) \/ j = i \/ j \in (i + 1)..Len(s)
    BY <1>1
  <2>2. \A j \in 1..(i - 1) \cup (i + 1)..Len(s) : j \in 1..Len(s) /\ s[j] # s[i]
    <3>1. \A j \in 1..(i - 1) \cup (i + 1)..Len(s) : j \in 1..Len(s) /\ j # i
      BY <1>1
    <3> QED BY <1>1, <3>1 DEF IsInjective
  <2> QED BY <1>5, <1>6, <2>1, <2>2
<1> QED BY <1>2, <1>4, <1>7, <1>8, UnirListas DEF RemoveAt, a, b

LEMMA SacarUno ==
  ASSUME NEW s \in Seq(ESIs), IsInjective(s), NEW e
  PROVE  LET t == sacar_esi_de_lista_pid(s, e)
         IN  IsInjective(t) /\ ToSet(t) = ToSet(s) \ {e}
<1>1. CASE e \in ToSet(s)
  <2> DEFINE i == CHOOSE n \in DOMAIN s : s[n] = e
  <2>1. i \in DOMAIN s /\ s[i] = e
    BY <1>1, Elementos
  <2> HIDE DEF i
  <2>2. IsInjective(RemoveAt(s, i)) /\ ToSet(RemoveAt(s, i)) = ToSet(s) \ {e}
    BY <2>1, QuitarUno
  <2> QED BY <1>1, <2>2 DEF sacar_esi_de_lista_pid, i
<1>2. CASE e \notin ToSet(s)
  BY <1>2 DEF sacar_esi_de_lista_pid
<1> QED BY <1>1, <1>2

LEMMA FilaDe ==
  ASSUME NEW s \in Seq(ESIs), NEW D \in SUBSET ToSet(s), NEW t \in SetToSeqs(D)
  PROVE  IsInjective(t) /\ ToSet(t) = D
<1> DEFINE n == Cardinality(D)
<1>1. IsFiniteSet(D)
  BY Elementos, FS_Subset
<1>2. n \in Nat
  BY <1>1, FS_CardinalityType
<1>3. t \in [1..n -> D] /\ \A i, j \in 1..n : i # j => t[i] # t[j]
  BY DEF SetToSeqs
<1> HIDE DEF n
<1>4. t \in Injection(1..n, D)
  BY <1>3 DEF Injection, IsInjective
<1>5. IsFiniteSet(1..n) /\ Cardinality(1..n) = n
  BY <1>2, FS_Interval
<1>6. t \in Surjection(1..n, D)
  BY <1>1, <1>4, <1>5, FS_Injection DEF n
<1> QED BY <1>3, <1>4, <1>6 DEF Surjection, Injection, IsInjective, ToSet

-------------------------------------------------------------------------------
(***************************************************************************)
(* Where each ESI is, function by function.                                *)
(***************************************************************************)
\* No ESI is in two places of memory p, and those of S that have not ended are
\* the ones that are somewhere.
Ubicados(p, S) ==
  /\ IsInjective(p.listos) /\ IsInjective(p.bloqueados)
  /\ ToSet(p.listos) \cap ToSet(p.bloqueados) = {}
  /\ p.exec \notin ToSet(p.listos) \cup ToSet(p.bloqueados)
  /\ ~p.fallo => p.terminados \subseteq S /\ Presentes(p) = S \ p.terminados

\* A function that moves nobody.
NadieSeMueve(p, q) ==
  /\ q.exec = p.exec /\ q.listos = p.listos /\ q.bloqueados = p.bloqueados
  /\ q.terminados = p.terminados
  /\ p.fallo => q.fallo

LEMMA UbicadosQuietos ==
  ASSUME NEW p, NEW q, NEW S, Ubicados(p, S), NadieSeMueve(p, q)
  PROVE  Ubicados(q, S)
  BY DEF Ubicados, NadieSeMueve, Presentes

LEMMA FuncionesQuietas ==
  ASSUME NEW p \in Memoria, NEW e \in ESIs, NEW k
  PROVE  /\ NadieSeMueve(p, Romper(p))
         /\ NadieSeMueve(p, aumentar_tiempo_espera_ready(p))
         /\ NadieSeMueve(p, pedir_desalojo(p, e))
         /\ NadieSeMueve(p, bloquear_clave(p, k, e))
         /\ \A op : NadieSeMueve(p, recibir_mensaje_coordinador(p, e, op, k))
<1>1. NadieSeMueve(p, Romper(p))
  BY DEF Romper, NadieSeMueve, Memoria
<1>2. NadieSeMueve(p, aumentar_tiempo_espera_ready(p))
  BY DEF aumentar_tiempo_espera_ready, NadieSeMueve, Memoria
<1>3. NadieSeMueve(p, pedir_desalojo(p, e))
  BY DEF pedir_desalojo, NadieSeMueve, Memoria
<1>4. NadieSeMueve(p, bloquear_clave(p, k, e))
  BY DEF bloquear_clave, NadieSeMueve, Memoria
<1>5. ASSUME NEW op PROVE NadieSeMueve(p, recibir_mensaje_coordinador(p, e, op, k))
  BY DEF recibir_mensaje_coordinador, NadieSeMueve, Memoria
<1> QED BY <1>1, <1>2, <1>3, <1>4, <1>5

LEMMA PlanificarUbica ==
  ASSUME NEW p \in Memoria, NEW S, Ubicados(p, S), NEW q \in planificar(p)
  PROVE  Ubicados(q, S)
<1>1. CASE q = p
  BY <1>1
<1>2. CASE ~p.fallo /\ p.exec = Nadie /\ q \in obtener_proximo_ejecucion(p)
  <2>1. PICK i \in Proximos(p) :
          q = enviar_esi_confirmacion_sentencia(
                [p EXCEPT !.exec = p.listos[i], !.listos = RemoveAt(p.listos, i)])
    BY <1>2 DEF obtener_proximo_ejecucion
  <2> DEFINE e == p.listos[i]
             l == RemoveAt(p.listos, i)
  <2>2. p.listos \in Seq(ESIs) /\ i \in DOMAIN p.listos
    BY <2>1 DEF Memoria, Proximos
  <2>3. e \in ESIs /\ e \in ToSet(p.listos) /\ e # Nadie
    BY <2>2, Elementos, PidsDistintos
  <2>4. IsInjective(l) /\ ToSet(l) = ToSet(p.listos) \ {e}
    BY <2>2, QuitarUno DEF Ubicados
  <2> HIDE DEF e, l
  <2>5. /\ q.exec = e /\ q.listos = l /\ q.bloqueados = p.bloqueados
        /\ q.terminados = p.terminados /\ q.fallo = p.fallo
    BY <2>1 DEF enviar_esi_confirmacion_sentencia, Memoria, e, l
  <2> QED BY <1>2, <2>3, <2>4, <2>5 DEF Ubicados, Presentes
<1> QED BY <1>1, <1>2 DEF planificar

LEMMA NuevoUbica ==
  ASSUME NEW p \in Memoria, NEW S, Ubicados(p, S), NEW e \in ESIs,
         ~p.fallo, e \notin S,
         NEW q \in atender_nuevo_esi(p, e)
  PROVE  Ubicados(q, S \cup {e})
<1> DEFINE l == Append(p.listos, e)
           c == [p.pcb EXCEPT ![e] = crear_esi]
           r == [p EXCEPT !.pcb = c, !.listos = l]
<1>1. l \in Seq(ESIs) /\ ToSet(l) = ToSet(p.listos) \cup {e} /\ IsInjective(l)
  BY AgregarAlFinal, AgregarUno DEF Memoria, Ubicados, Presentes
<1>2. c \in [ESIs -> Pcb]
  BY EstimacionPositiva DEF Memoria, crear_esi, Pcb
<1>3. q \in planificar(pedir_desalojo(r, e))
  BY DEF atender_nuevo_esi, Memoria
<1> HIDE DEF l, c
<1>4. /\ r \in Memoria /\ r.exec = p.exec /\ r.listos = l /\ r.bloqueados = p.bloqueados
      /\ r.terminados = p.terminados /\ r.fallo = p.fallo
  BY <1>1, <1>2 DEF Memoria
<1> HIDE DEF r
<1>5. e \in ESIs /\ e # Nadie
  BY PidsDistintos
<1>6. Ubicados(r, S \cup {e})
  BY <1>1, <1>4, <1>5 DEF Ubicados, Presentes
<1>7. pedir_desalojo(r, e) \in Memoria
  <2> DEFINE v == pedir_desalojo(r, e).por_desalojar
  <2>1. v \in ESIs \cup {Nadie} /\ pedir_desalojo(r, e) = [r EXCEPT !.por_desalojar = v]
    BY <1>4, PedirDesalojo
  <2> HIDE DEF v
  <2> QED BY <1>4, <2>1 DEF Memoria
<1> QED BY <1>3, <1>4, <1>6, <1>7, FuncionesQuietas, UbicadosQuietos, PlanificarUbica

LEMMA BloquearEsiUbica ==
  ASSUME NEW p \in Memoria, NEW S, Ubicados(p, S), NEW k, NEW e \in ESIs
  PROVE  Ubicados(bloquear_esi_pid(p, k, e), S)
<1> DEFINE q == bloquear_esi_pid(p, k, e)
           l == sacar_esi_de_lista_pid(p.listos, e)
           b == Append(p.bloqueados, e)
<1>1. CASE e = p.exec \/ e \notin ToSet(p.listos)
  <2>1. NadieSeMueve(p, q)
    BY <1>1 DEF bloquear_esi_pid, NadieSeMueve, Memoria
  <2> QED BY <2>1, UbicadosQuietos
<1>2. CASE e # p.exec /\ e \in ToSet(p.listos)
  <2>1. /\ ToSet(b) = ToSet(p.bloqueados) \cup {e} /\ IsInjective(b)
        /\ ToSet(l) = ToSet(p.listos) \ {e} /\ IsInjective(l)
    BY <1>2, AgregarAlFinal, AgregarUno, SacarUno DEF Memoria, Ubicados
  <2> HIDE DEF l, b
  <2>2. /\ q.exec = p.exec /\ q.listos = l /\ q.bloqueados = b
        /\ q.terminados = p.terminados /\ q.fallo = p.fallo
    BY <1>2 DEF bloquear_esi_pid, Memoria, l, b
  <2> HIDE DEF q
  <2>3. e # Nadie
    BY PidsDistintos
  <2>4. Ubicados(q, S)
    BY <1>2, <2>1, <2>2, <2>3 DEF Ubicados, Presentes
  <2> QED BY <2>4 DEF q
<1> QED BY <1>1, <1>2

LEMMA DesbloquearUbica ==
  ASSUME NEW p \in Memoria, NEW S, Ubicados(p, S), NEW k \in Claves
  PROVE  Ubicados(desbloquear_clave(p, k), S)
<1> DEFINE espera == EsperanClave(p, k)
           i == Min(espera)
           e == p.bloqueados[i]
           b == RemoveAt(p.bloqueados, i)
           l == Append(p.listos, e)
           q0 == [p EXCEPT !.bloqueados = b, !.pcb[e] = Despertado(p.pcb[e])]
           r == [pedir_desalojo(q0, e) EXCEPT !.listos = l]
           r1 == [pedir_desalojo(q0, e) EXCEPT !.listos = l, !.dueno[k] = Libre]
           s == [p EXCEPT !.dueno[k] = Libre]
<1>1. NadieSeMueve(p, s)
  BY DEF NadieSeMueve, Memoria
<1>2. ASSUME espera # {}
      PROVE  Ubicados(r, S) /\ Ubicados(r1, S)
  <2>1. p.bloqueados \in Seq(ESIs) /\ p.listos \in Seq(ESIs)
    BY DEF Memoria
  <2>2. DOMAIN p.bloqueados \in SUBSET Nat
    BY <2>1, Elementos
  <2>3. i \in DOMAIN p.bloqueados
    <3>1. espera \in SUBSET Nat /\ espera \subseteq DOMAIN p.bloqueados
      BY <2>2 DEF EsperanClave
    <3> HIDE DEF espera
    <3> QED BY <1>2, <3>1, Minimo
  <2> HIDE DEF i
  <2>4. e \in ESIs /\ e \in ToSet(p.bloqueados) /\ e \notin ToSet(p.listos)
    BY <2>1, <2>3, Elementos DEF Ubicados
  <2>5. IsInjective(b) /\ ToSet(b) = ToSet(p.bloqueados) \ {e}
    BY <2>1, <2>3, QuitarUno DEF Ubicados
  <2> HIDE DEF e
  <2>6. ToSet(l) = ToSet(p.listos) \cup {e} /\ IsInjective(l)
    BY <2>1, <2>4, AgregarAlFinal, AgregarUno DEF Ubicados
  <2> HIDE DEF b, l
  <2>7. /\ r.exec = p.exec /\ r.listos = l /\ r.bloqueados = b
        /\ r.terminados = p.terminados /\ r.fallo = p.fallo
        /\ r1.exec = p.exec /\ r1.listos = l /\ r1.bloqueados = b
        /\ r1.terminados = p.terminados /\ r1.fallo = p.fallo
    BY DEF pedir_desalojo, Memoria
  <2> HIDE DEF r, r1
  <2> QED BY <2>4, <2>5, <2>6, <2>7 DEF Ubicados, Presentes
<1>3. \/ desbloquear_clave(p, k) \in {p, Romper(p), s}
      \/ espera # {} /\ desbloquear_clave(p, k) \in {r, r1}
  BY DEF desbloquear_clave
<1> HIDE DEF r, r1, s, espera
<1>4. NadieSeMueve(p, Romper(p))
  BY DEF Romper, NadieSeMueve, Memoria
<1> QED BY <1>1, <1>2, <1>3, <1>4, UbicadosQuietos

LEMMA LiberarUbica ==
  ASSUME NEW p \in Memoria, NEW S, Ubicados(p, S), NEW e \in ESIs,
         NEW q \in desbloquear_claves_bloqueadas_pid(p, e)
  PROVE  Ubicados(q, S)
<1> DEFINE D == Despertados(p, e)
<1>1. CASE q \in {p, Romper(p)}
  <2>1. NadieSeMueve(p, Romper(p))
    BY DEF Romper, NadieSeMueve, Memoria
  <2> QED BY <1>1, <2>1, UbicadosQuietos
<1>2. ASSUME NEW fila \in SetToSeqs(D), NEW resto \in SinElementos(p.bloqueados, D),
             q = Liberadas(p, e, fila, resto)
      PROVE  Ubicados(q, S)
  <2>1. p.bloqueados \in Seq(ESIs) /\ p.listos \in Seq(ESIs)
    BY DEF Memoria
  <2>2. D \in SUBSET ToSet(p.bloqueados)
    BY DEF Despertados
  <2> HIDE DEF D
  <2>3. fila \in Seq(ESIs) /\ IsInjective(fila) /\ ToSet(fila) = D
    BY <2>1, <2>2, Filas, FilaDe
  <2>4. IsInjective(resto) /\ ToSet(resto) = ToSet(p.bloqueados) \ D
    <3>1. resto \in SetToSeqs(ToSet(p.bloqueados) \ D)
      BY DEF SinElementos
    <3>2. ToSet(p.bloqueados) \ D \in SUBSET ToSet(p.bloqueados)
      OBVIOUS
    <3> QED BY <2>1, <3>1, <3>2, FilaDe
  <2> DEFINE l == p.listos \o fila
  <2>5. IsInjective(l) /\ ToSet(l) = ToSet(p.listos) \cup D
    BY <2>1, <2>2, <2>3, UnirListas DEF Ubicados
  <2> HIDE DEF l
  <2>6. /\ q.exec = p.exec /\ q.listos = l /\ q.bloqueados = resto
        /\ q.terminados = p.terminados /\ q.fallo = p.fallo
    BY <1>2 DEF Liberadas, ConDesalojo, SinClavesDe, Memoria, l
  <2> QED BY <2>2, <2>4, <2>5, <2>6 DEF Ubicados, Presentes
<1>3. \/ q \in {p, Romper(p)}
      \/ \E fila \in SetToSeqs(D), resto \in SinElementos(p.bloqueados, D) :
           q = Liberadas(p, e, fila, resto)
  BY DEF desbloquear_claves_bloqueadas_pid
<1> QED BY <1>1, <1>2, <1>3

\* The ESI that ends is taken out of the place it is in.
LEMMA SacarUbica ==
  ASSUME NEW p \in Memoria, NEW S, Ubicados(p, S), NEW e \in ESIs, EnSistema(p, e)
  PROVE  Ubicados(sacar_de_colas(p, e), S \ {e})
<1> DEFINE q == sacar_de_colas(p, e)
           l == sacar_esi_de_lista_pid(p.listos, e)
           b == sacar_esi_de_lista_pid(p.bloqueados, e)
<1>1. p.bloqueados \in Seq(ESIs) /\ p.listos \in Seq(ESIs) /\ e # Nadie
  BY PidsDistintos DEF Memoria
<1>2. /\ IsInjective(l) /\ ToSet(l) = ToSet(p.listos) \ {e}
      /\ IsInjective(b) /\ ToSet(b) = ToSet(p.bloqueados) \ {e}
  BY <1>1, SacarUno DEF Ubicados
<1> HIDE DEF l, b
<1>3. /\ q.terminados = p.terminados /\ q.fallo = p.fallo
      /\ \/ /\ e = p.exec
            /\ q.exec = Nadie /\ q.listos = p.listos /\ q.bloqueados = p.bloqueados
         \/ /\ e # p.exec /\ e \in ToSet(p.listos)
            /\ q.exec = p.exec /\ q.listos = l /\ q.bloqueados = p.bloqueados
         \/ /\ e # p.exec /\ e \notin ToSet(p.listos)
            /\ q.exec = p.exec /\ q.listos = p.listos /\ q.bloqueados = b
  BY DEF sacar_de_colas, Memoria, l, b
<1> HIDE DEF q
<1>4. ToSet(p.listos) \subseteq ESIs /\ ToSet(p.bloqueados) \subseteq ESIs /\ Nadie \notin ESIs
  BY <1>1, Elementos, PidsDistintos
<1>5. Ubicados(q, S \ {e})
  <2>1. ~p.fallo => e \in S /\ e \notin p.terminados
    BY <1>1 DEF Ubicados, Presentes, EnSistema
  <2>2. /\ IsInjective(q.listos) /\ IsInjective(q.bloqueados)
        /\ ToSet(q.listos) \cap ToSet(q.bloqueados) = {}
        /\ q.exec \notin ToSet(q.listos) \cup ToSet(q.bloqueados)
    BY <1>2, <1>3, <1>4 DEF Ubicados
  <2>3. Presentes(q) = Presentes(p) \ {e}
    BY <1>1, <1>2, <1>3, <1>4 DEF Ubicados, Presentes, EnSistema
  <2> HIDE DEF Presentes
  <2> QED BY <1>3, <2>1, <2>2, <2>3 DEF Ubicados
<1> QED BY <1>5 DEF q

LEMMA FinalizarUbica ==
  ASSUME NEW p \in Memoria, NEW S, Ubicados(p, S), NEW e \in ESIs, NEW l \in BOOLEAN,
         NEW q \in finalizar_esi(p, e, l)
  PROVE  Ubicados(q, S)
<1> DEFINE c == sacar_de_colas(p, e)
<1>1. CASE ~EnSistema(p, e)
  BY <1>1 DEF finalizar_esi
<1>2. ASSUME EnSistema(p, e), NEW r \in {c} \cup desbloquear_claves_bloqueadas_pid(c, e),
             q = pasar_a_terminados(r, e)
      PROVE  Ubicados(q, S)
  <2>1. c \in Memoria /\ Ubicados(c, S \ {e}) /\ (p.fallo => c.fallo)
    BY <1>2, SacarDeColas, SacarUbica DEF Deriva
  <2>2. ~p.fallo => e \in S
    BY <1>2, PidsDistintos DEF Ubicados, Presentes, EnSistema
  <2> HIDE DEF c
  <2>3. r \in Memoria /\ Ubicados(r, S \ {e}) /\ (p.fallo => r.fallo)
    BY <2>1, Liberar, LiberarUbica DEF Deriva
  <2>4. CASE r.fallo
    BY <1>2, <2>3, <2>4 DEF pasar_a_terminados, Ubicados
  <2>5. CASE ~r.fallo
    <3>1. /\ q.exec = r.exec /\ q.listos = r.listos /\ q.bloqueados = r.bloqueados
          /\ q.terminados = r.terminados \cup {e} /\ q.fallo = r.fallo
      BY <1>2, <2>3, <2>5 DEF pasar_a_terminados, Memoria
    <3> QED BY <2>2, <2>3, <2>5, <3>1 DEF Ubicados, Presentes
  <2> QED BY <2>4, <2>5
<1> QED BY <1>1, <1>2 DEF finalizar_esi

-------------------------------------------------------------------------------
(***************************************************************************)
(* Where each ESI is, handler by handler.                                  *)
(***************************************************************************)
LEMMA ConfirmarUbica ==
  ASSUME NEW p \in Memoria, NEW S, Ubicados(p, S)
  PROVE  /\ p.exec # Nadie => Ubicados(confirmar_bloqueo_ejecucion(p), S)
         /\ Ubicados(confirmar_bloqueo_por_get(p), S)
         /\ p.store_clave # Ninguna => Ubicados(confirmar_desbloqueo_por_store(p), S)
         /\ Ubicados(confirmar_pausa_por_consola(p), S)
         /\ Ubicados(confirmar_desalojo_ejecucion(p), S)
<1>0. p.listos \in Seq(ESIs) /\ p.bloqueados \in Seq(ESIs) /\ Nadie \notin ESIs
  BY PidsDistintos DEF Memoria
<1>a. Ubicados(Romper(p), S)
  <2>1. NadieSeMueve(p, Romper(p))
    BY DEF Romper, NadieSeMueve, Memoria
  <2> QED BY <2>1, UbicadosQuietos
<1>b. ToSet(p.listos) \subseteq ESIs /\ ToSet(p.bloqueados) \subseteq ESIs
  BY <1>0, Elementos
<1>1. ASSUME p.exec # Nadie PROVE Ubicados(confirmar_bloqueo_ejecucion(p), S)
  <2> DEFINE q == confirmar_bloqueo_ejecucion(p)
             b == Append(p.bloqueados, p.exec)
  <2>1. p.exec \in ESIs
    BY <1>1 DEF Memoria
  <2>2. ToSet(b) = ToSet(p.bloqueados) \cup {p.exec} /\ IsInjective(b)
    BY <1>0, <2>1, AgregarAlFinal, AgregarUno DEF Ubicados
  <2> HIDE DEF b
  <2>3. /\ q.exec = Nadie /\ q.listos = p.listos /\ q.bloqueados = b
        /\ q.terminados = p.terminados /\ q.fallo = p.fallo
    BY DEF confirmar_bloqueo_ejecucion, Memoria, b
  <2> HIDE DEF q
  <2>4. Ubicados(q, S)
    BY <1>0, <1>b, <2>1, <2>2, <2>3 DEF Ubicados, Presentes
  <2> QED BY <2>4 DEF q
<1>2. Ubicados(confirmar_bloqueo_por_get(p), S)
  <2> DEFINE m == bloquear_clave(p, p.get_clave, p.get_pid)
             q == [m EXCEPT !.por_get = FALSE, !.get_clave = Ninguna, !.get_pid = Nadie]
  <2>1. NadieSeMueve(p, q)
    BY DEF bloquear_clave, NadieSeMueve, Memoria
  <2>2. confirmar_bloqueo_por_get(p) \in {Romper(p), q}
    BY DEF confirmar_bloqueo_por_get
  <2> HIDE DEF q
  <2> QED BY <1>a, <2>1, <2>2, UbicadosQuietos
<1>3. ASSUME p.store_clave # Ninguna PROVE Ubicados(confirmar_desbloqueo_por_store(p), S)
  <2> DEFINE m == desbloquear_clave(p, p.store_clave)
             q == [m EXCEPT !.store_clave = Ninguna]
  <2>1. p.store_clave \in Claves
    BY <1>3 DEF Memoria
  <2>2. m \in Memoria /\ Ubicados(m, S)
    BY <2>1, DesbloquearClave, DesbloquearUbica DEF Deriva
  <2>3. confirmar_desbloqueo_por_store(p) = q
    BY DEF confirmar_desbloqueo_por_store
  <2> HIDE DEF m
  <2>4. NadieSeMueve(m, q)
    BY <2>2 DEF NadieSeMueve, Memoria
  <2> QED BY <2>2, <2>3, <2>4, UbicadosQuietos
<1>4. Ubicados(confirmar_pausa_por_consola(p), S)
  <2> DEFINE q == confirmar_pausa_por_consola(p)
             l == Append(p.listos, p.exec)
  <2>1. ASSUME p.exec # Nadie PROVE Ubicados(q, S)
    <3>1. p.exec \in ESIs
      BY <2>1 DEF Memoria
    <3>2. ToSet(l) = ToSet(p.listos) \cup {p.exec} /\ IsInjective(l)
      BY <1>0, <3>1, AgregarAlFinal, AgregarUno DEF Ubicados
    <3> HIDE DEF l
    <3>3. /\ q.exec = Nadie /\ q.listos = l /\ q.bloqueados = p.bloqueados
          /\ q.terminados = p.terminados /\ q.fallo = p.fallo
      BY <2>1 DEF confirmar_pausa_por_consola, Memoria, l
    <3> HIDE DEF q
    <3> QED BY <1>0, <1>b, <3>1, <3>2, <3>3 DEF Ubicados, Presentes
  <2>2. CASE p.exec = Nadie
    BY <1>a, <2>2 DEF confirmar_pausa_por_consola
  <2> HIDE DEF q
  <2> QED BY <2>1, <2>2 DEF q
<1>5. Ubicados(confirmar_desalojo_ejecucion(p), S)
  <2> DEFINE q == confirmar_desalojo_ejecucion(p)
             cola == Append(p.listos, p.exec)
             d == p.por_desalojar
             l == sacar_esi_de_lista_pid(cola, d)
  <2>1. ASSUME p.exec # Nadie PROVE Ubicados(q, S)
    <3>1. p.exec \in ESIs
      BY <2>1 DEF Memoria
    <3>2. cola \in Seq(ESIs) /\ ToSet(cola) = ToSet(p.listos) \cup {p.exec} /\ IsInjective(cola)
      BY <1>0, <3>1, AgregarAlFinal, AgregarUno DEF Ubicados
    <3> HIDE DEF cola
    <3>3. IsInjective(l) /\ ToSet(l) = ToSet(cola) \ {d}
      BY <3>2, SacarUno
    <3> HIDE DEF l
    <3>4. /\ q.exec = IF d \in ToSet(cola) THEN d ELSE Nadie
          /\ q.listos = l /\ q.bloqueados = p.bloqueados
          /\ q.terminados = p.terminados /\ q.fallo = p.fallo
      BY <2>1 DEF confirmar_desalojo_ejecucion, Memoria, cola, l
    <3> HIDE DEF q, d
    <3> QED BY <1>0, <1>b, <2>1, <3>1, <3>2, <3>3, <3>4 DEF Ubicados, Presentes
  <2>2. CASE p.exec = Nadie
    BY <1>a, <2>2 DEF confirmar_desalojo_ejecucion
  <2> HIDE DEF q
  <2> QED BY <2>1, <2>2 DEF q
<1> QED BY <1>1, <1>2, <1>3, <1>4, <1>5

LEMMA CorrectoUbica ==
  ASSUME NEW p \in Memoria, NEW S, Ubicados(p, S), p.exec # Nadie,
         NEW q \in resultado_correcto(p)
  PROVE  Ubicados(q, S)
<1> DEFINE c1 == [p EXCEPT !.pcb[p.exec] = [sentencia_contada(@) EXCEPT !.repetir = FALSE]]
           c2 == IF c1.bloqueo THEN confirmar_bloqueo_ejecucion(c1) ELSE c1
           c3 == IF c2.por_get THEN confirmar_bloqueo_por_get(c2) ELSE c2
           c4 == IF ~c3.fallo /\ c3.store_clave # Ninguna
                 THEN confirmar_desbloqueo_por_store(c3) ELSE c3
           c5 == IF ~c4.fallo /\ c4.pausado THEN confirmar_pausa_por_consola(c4) ELSE c4
           C6 == IF ~c5.fallo /\ c5.kill THEN confirmar_kill_ejecucion(c5) ELSE {c5}
           c7(c) == IF ~c.fallo /\ c.por_desalojar # Nadie
                    THEN confirmar_desalojo_ejecucion(c) ELSE c
           c8(c) == IF ~c.fallo /\ c.exec # Nadie
                    THEN enviar_esi_confirmacion_sentencia(c) ELSE c
           D(c) == c \in Memoria /\ Ubicados(c, S)
<1>1. PICK c6 \in C6 : q = c8(c7(c6))
  BY DEF resultado_correcto
<1>2. D(c1) /\ c1.exec = p.exec
  <2> DEFINE f == [sentencia_contada(p.pcb[p.exec]) EXCEPT !.repetir = FALSE]
  <2>1. p.exec \in ESIs /\ p.pcb \in [ESIs -> Pcb] /\ p.pcb[p.exec] \in Pcb
    BY DEF Memoria
  <2>2. sentencia_contada(p.pcb[p.exec]) \in Pcb
    BY <2>1, Ficha
  <2>3. f \in Pcb
    BY <2>2 DEF Pcb
  <2>4. c1 = [p EXCEPT !.pcb = [p.pcb EXCEPT ![p.exec] = f]]
    BY DEF Memoria
  <2> HIDE DEF f, c1
  <2>5. c1 \in Memoria /\ NadieSeMueve(p, c1)
    BY <2>1, <2>3, <2>4 DEF Memoria, NadieSeMueve
  <2> QED BY <2>5, UbicadosQuietos DEF NadieSeMueve
<1> HIDE DEF c1
<1>3. D(c2)
  BY <1>2, ConfirmarBloqueo, ConfirmarUbica DEF Deriva
<1> HIDE DEF c2
<1>4. D(c3)
  BY <1>3, ConfirmarGet, ConfirmarUbica DEF Deriva
<1> HIDE DEF c3
<1>5. D(c4)
  BY <1>4, ConfirmarStore, ConfirmarUbica DEF Deriva
<1> HIDE DEF c4
<1>6. D(c5)
  BY <1>5, ConfirmarPausa, ConfirmarUbica DEF Deriva
<1> HIDE DEF c5
<1>7. D(c6)
  <2>1. CASE c6 = c5
    BY <1>6, <2>1
  <2>2. CASE c6 = Romper(c5)
    <3>1. NadieSeMueve(c5, Romper(c5))
      BY <1>6 DEF Romper, NadieSeMueve, Memoria
    <3> QED BY <1>6, <2>2, <3>1, DerivaRomper, UbicadosQuietos DEF Deriva
  <2>3. CASE c5.exec # Nadie /\ c6 \in finalizar_esi(c5, c5.exec, TRUE)
    <3>1. c5.exec \in ESIs
      BY <1>6, <2>3 DEF Memoria
    <3> QED BY <1>6, <2>3, <3>1, FinalizarEsi, FinalizarUbica DEF Deriva
  <2> QED BY <1>1, <2>1, <2>2, <2>3 DEF confirmar_kill_ejecucion
<1> HIDE DEF C6
<1>8. D(c7(c6))
  BY <1>7, ConfirmarDesalojo, ConfirmarUbica DEF Deriva
<1> HIDE DEF c7
<1> DEFINE c == c7(c6)
<1>9. NadieSeMueve(c, c8(c))
  BY <1>8 DEF enviar_esi_confirmacion_sentencia, NadieSeMueve, Memoria
<1> QED BY <1>1, <1>8, <1>9, UbicadosQuietos

LEMMA BloqueadaUbica ==
  ASSUME NEW p \in Memoria, NEW S, Ubicados(p, S), p.exec # Nadie, NEW e \in ESIs
  PROVE  Ubicados(resultado_clave_bloqueada(p, e), S)
<1> DEFINE q == resultado_clave_bloqueada(p, e)
           b == Append(p.bloqueados, p.exec)
<1>1. p.exec \in ESIs /\ p.bloqueados \in Seq(ESIs) /\ Nadie \notin ESIs
  BY PidsDistintos DEF Memoria
<1>2. ToSet(b) = ToSet(p.bloqueados) \cup {p.exec} /\ IsInjective(b)
  BY <1>1, AgregarAlFinal, AgregarUno DEF Ubicados
<1> HIDE DEF b
<1>3. CASE p.get_pid = Nadie \/ p.get_pid # e
  <2>1. NadieSeMueve(p, q)
    BY <1>3 DEF resultado_clave_bloqueada, Romper, NadieSeMueve, Memoria
  <2> QED BY <2>1, UbicadosQuietos
<1>4. CASE p.get_pid # Nadie /\ p.get_pid = e
  <2>1. /\ q.exec = Nadie /\ q.listos = p.listos /\ q.bloqueados = b
        /\ q.terminados = p.terminados /\ q.fallo = p.fallo
    BY <1>4 DEF resultado_clave_bloqueada, Memoria, b
  <2> HIDE DEF q
  <2>2. ToSet(p.listos) \subseteq ESIs /\ ToSet(p.bloqueados) \subseteq ESIs
    BY Elementos DEF Memoria
  <2>3. Ubicados(q, S)
    BY <1>1, <1>2, <2>1, <2>2 DEF Ubicados, Presentes
  <2> QED BY <2>3 DEF q
<1> QED BY <1>3, <1>4

LEMMA MensajeUbica ==
  ASSUME NEW p \in Memoria, NEW S, Ubicados(p, S), NEW e \in ESIs, NEW resultado,
         NEW q \in recibir_mensaje_esi(p, e, resultado)
  PROVE  Ubicados(q, S)
<1>1. PICK r \in procesar_resultado(p, e, resultado) :
        q \in planificar(aumentar_tiempo_espera_ready(r))
  BY DEF recibir_mensaje_esi
<1> DEFINE s == aumentar_tiempo_espera_ready(r)
<1>2. r \in Memoria
  BY ProcesarResultado DEF Deriva
<1>3. Ubicados(r, S)
  <2>1. CASE p.exec = Nadie
    <3>1. NadieSeMueve(p, Romper(p))
      BY DEF Romper, NadieSeMueve, Memoria
    <3> QED BY <2>1, <3>1, UbicadosQuietos DEF procesar_resultado
  <2>2. CASE p.exec # Nadie /\ r \in resultado_correcto(p)
    BY <2>2, CorrectoUbica
  <2>3. CASE p.exec # Nadie /\ \E l \in BOOLEAN : r \in finalizar_esi(p, p.exec, l)
    <3>1. p.exec \in ESIs
      BY <2>3 DEF Memoria
    <3> QED BY <2>3, <3>1, FinalizarUbica
  <2>4. CASE p.exec # Nadie /\ r = resultado_clave_bloqueada(p, e)
    BY <2>4, BloqueadaUbica
  <2> QED BY <2>1, <2>2, <2>3, <2>4 DEF procesar_resultado
<1>4. s \in Memoria /\ NadieSeMueve(r, s)
  BY <1>2, AumentarEspera, FuncionesQuietas DEF Deriva
<1> QED BY <1>1, <1>3, <1>4, UbicadosQuietos, PlanificarUbica

LEMMA DesconexionUbica ==
  ASSUME NEW p \in Memoria, NEW S, Ubicados(p, S), NEW e \in ESIs,
         NEW q \in recibir_desconexion_esi(p, e)
  PROVE  Ubicados(q, S)
<1>1. PICK r \in planificar(p) :
        \E s \in finalizar_esi(r, e, TRUE) : q \in planificar(s)
  BY DEF recibir_desconexion_esi
<1>2. PICK s \in finalizar_esi(r, e, TRUE) : q \in planificar(s)
  BY <1>1
<1>3. r \in Memoria /\ Ubicados(r, S)
  BY Planificar, PlanificarUbica DEF Deriva
<1>4. s \in Memoria /\ Ubicados(s, S)
  BY <1>3, FinalizarEsi, FinalizarUbica DEF Deriva
<1> QED BY <1>2, <1>4, PlanificarUbica

LEMMA ConsolaUbica ==
  ASSUME NEW p \in Memoria, NEW S, Ubicados(p, S), NEW q
  PROVE  /\ q = consola_pausar(p) => Ubicados(q, S)
         /\ q \in consola_continuar(p) => Ubicados(q, S)
         /\ \A k \in Claves : q \in consola_desbloquear_clave(p, k) => Ubicados(q, S)
         /\ \A k \in Claves, e \in ESIs : q = consola_bloquear_clave(p, k, e) => Ubicados(q, S)
         /\ \A e \in ESIs : q \in consola_matar_proceso(p, e) => Ubicados(q, S)
<1>1. ASSUME NEW b \in BOOLEAN
      PROVE  LET r == [p EXCEPT !.pausado = b] IN r \in Memoria /\ Ubicados(r, S)
  <2> DEFINE r == [p EXCEPT !.pausado = b]
  <2>1. r \in Memoria /\ NadieSeMueve(p, r)
    BY DEF Memoria, NadieSeMueve
  <2> QED BY <2>1, UbicadosQuietos
<1>2. q = consola_pausar(p) => Ubicados(q, S)
  BY <1>1 DEF consola_pausar
<1>3. ASSUME q \in consola_continuar(p) PROVE Ubicados(q, S)
  BY <1>1, <1>3, PlanificarUbica DEF consola_continuar
<1>4. ASSUME NEW k \in Claves, q \in consola_desbloquear_clave(p, k) PROVE Ubicados(q, S)
  <2>1. desbloquear_clave(p, k) \in Memoria /\ Ubicados(desbloquear_clave(p, k), S)
    BY DesbloquearClave, DesbloquearUbica DEF Deriva
  <2> QED BY <1>4, <2>1, PlanificarUbica DEF consola_desbloquear_clave
<1>5. ASSUME NEW k \in Claves, NEW e \in ESIs, q = consola_bloquear_clave(p, k, e)
      PROVE  Ubicados(q, S)
  BY <1>5, FuncionesQuietas, UbicadosQuietos, BloquearEsiUbica DEF consola_bloquear_clave
<1>6. ASSUME NEW e \in ESIs, q \in consola_matar_proceso(p, e) PROVE Ubicados(q, S)
  <2>1. CASE e = p.exec
    <3> DEFINE r == [p EXCEPT !.kill = TRUE]
    <3>1. NadieSeMueve(p, r)
      BY DEF Memoria, NadieSeMueve
    <3> QED BY <1>6, <2>1, <3>1, UbicadosQuietos DEF consola_matar_proceso
  <2>2. CASE e # p.exec
    <3>1. PICK r \in finalizar_esi(p, e, TRUE) : q \in planificar(r)
      BY <1>6, <2>2 DEF consola_matar_proceso
    <3>2. r \in Memoria /\ Ubicados(r, S)
      BY FinalizarEsi, FinalizarUbica DEF Deriva
    <3> QED BY <3>1, <3>2, PlanificarUbica
  <2> QED BY <2>1, <2>2
<1> QED BY <1>2, <1>3, <1>4, <1>5, <1>6

-------------------------------------------------------------------------------
(***************************************************************************)
(* Where each ESI is, in the system.                                       *)
(***************************************************************************)
\* The ESIs that have connected.
Llegados == {e \in ESIs : fase[e] # "afuera"}

\* Stronger than Colas: it says who is in terminados as well, and holds each list
\* apart also after a failure.
IColas == IInv /\ Ubicados(plan, Llegados)

\* A step in which nobody connects.
LEMMA MismosLlegados ==
  ASSUME \A e \in ESIs : fase[e] = "afuera" <=> fase'[e] = "afuera"
  PROVE  Llegados' = Llegados
  BY DEF Llegados

LEMMA UbicaEsi ==
  ASSUME IColas, NEW e \in ESIs, Esi(e) \/ Coordinador(e) \/ Caer(e)
  PROVE  Ubicados(plan, Llegados)'
<1>1. plan \in Memoria /\ fase \in [ESIs -> Fases]
  BY DEF IColas, IInv, TypeOK
<1>2. NadieSeMueve(plan, plan')
  <2>1. plan' = plan \/ plan' = [plan EXCEPT !.orden = plan.orden \ {e}]
    BY <1>1
    DEF Memoria, Esi, Coordinador, Caer, LeerLinea, RepetirLinea, FinDelScript, LineaInvalida,
        TomaOrden, RechazarSentencia, EliminarClave, ConsultarPlanificador, ProseguirOperacion,
        Responder
  <2> QED BY <1>1, <2>1 DEF Memoria, NadieSeMueve
<1>3. \/ fase' = fase
      \/ fase[e] # "afuera" /\ \E f \in Fases \ {"afuera"} : fase' = [fase EXCEPT ![e] = f]
  <2>1. CASE Esi(e)
    BY <2>1
    DEF Esi, LeerLinea, RepetirLinea, FinDelScript, LineaInvalida, TomaOrden, Terminar,
        Enviar, Fases
  <2>2. CASE Coordinador(e)
    <3>1. fase[e] \in {"sentencia", "veredicto"}
      BY <2>2
      DEF Coordinador, RechazarSentencia, EliminarClave, ConsultarPlanificador,
          ProseguirOperacion
    <3>2. \/ fase' = [fase EXCEPT ![e] = "consulta"]
          \/ fase' = [fase EXCEPT ![e] = "respuesta"]
          \/ fase' = [fase EXCEPT ![e] = "espera"]
      BY <2>2
      DEF Coordinador, RechazarSentencia, EliminarClave, ConsultarPlanificador,
          ProseguirOperacion, Responder
    <3> QED BY <3>1, <3>2 DEF Fases
  <2>3. CASE Caer(e)
    BY <2>3 DEF Caer
  <2> QED BY <2>1, <2>2, <2>3
<1>4. Llegados' = Llegados
  BY <1>1, <1>3, MismosLlegados
<1> QED BY <1>2, <1>4, UbicadosQuietos DEF IColas

LEMMA UbicaAtender ==
  ASSUME IColas, NEW e \in ESIs, LlegarEsi(e) \/ Atender(e)
  PROVE  Ubicados(plan, Llegados)'
<1>1. plan \in Memoria /\ fase \in [ESIs -> Fases] /\ Ubicados(plan, Llegados)
  BY DEF IColas, IInv, TypeOK
<1>2. CASE LlegarEsi(e)
  <2>1. ~plan.fallo /\ e \notin Llegados /\ plan' \in atender_nuevo_esi(plan, e)
    BY <1>2 DEF LlegarEsi, Llegados
  <2>2. Llegados' = Llegados \cup {e}
    BY <1>1, <1>2 DEF LlegarEsi, Llegados
  <2> QED BY <1>1, <2>1, <2>2, NuevoUbica
<1>3. CASE RecibirConsulta(e)
  <2>1. Llegados' = Llegados
    BY <1>1, <1>3, MismosLlegados DEF RecibirConsulta
  <2>2. NadieSeMueve(plan, plan')
    BY <1>1, <1>3, FuncionesQuietas DEF RecibirConsulta
  <2> QED BY <1>1, <2>1, <2>2, UbicadosQuietos
<1>4. CASE RecibirMensajeEsi(e)
  <2>1. Llegados' = Llegados
    BY <1>1, <1>4, MismosLlegados DEF RecibirMensajeEsi
  <2> QED BY <1>1, <1>4, <2>1, MensajeUbica DEF RecibirMensajeEsi
<1>5. CASE RecibirDesconexion(e) \/ RecibirReset(e)
  <2>1. Llegados' = Llegados
    BY <1>5, MismosLlegados DEF RecibirDesconexion, RecibirReset
  <2> QED
    BY <1>1, <1>5, <2>1, DesconexionUbica, FinalizarUbica
    DEF RecibirDesconexion, RecibirReset, recibir_error_esi
<1> QED BY <1>2, <1>3, <1>4, <1>5 DEF Atender

LEMMA UbicaConsola ==
  ASSUME IColas, Consola
  PROVE  Ubicados(plan, Llegados)'
<1>1. plan \in Memoria /\ Ubicados(plan, Llegados)
  BY DEF IColas, IInv, TypeOK
<1>2. Llegados' = Llegados
  BY MismosLlegados
  DEF Consola, ConsolaPausar, ConsolaContinuar, ConsolaDesbloquear, ConsolaBloquear,
      ConsolaMatar
<1>3. \/ plan' = consola_pausar(plan) \/ plan' \in consola_continuar(plan)
      \/ \E k \in Claves : plan' \in consola_desbloquear_clave(plan, k)
      \/ \E k \in Claves, e \in ESIs : plan' = consola_bloquear_clave(plan, k, e)
      \/ \E e \in ESIs : plan' \in consola_matar_proceso(plan, e)
  BY DEF Consola, ConsolaPausar, ConsolaContinuar, ConsolaDesbloquear, ConsolaBloquear,
         ConsolaMatar
<1> QED BY <1>1, <1>2, <1>3, ConsolaUbica

LEMMA InicioColas == Init => IColas
<1> SUFFICES ASSUME Init PROVE IColas
  OBVIOUS
<1>1. ToSet(<<>>) = {} /\ IsInjective(<<>>)
  BY EmptySeq DEF ToSet, IsInjective
<1>2. Llegados = {}
  BY DEF Init, Llegados
<1> QED BY <1>1, <1>2, Inicio DEF Init, MemoriaInicial, IColas, Ubicados, Presentes

LEMMA ConservaColas ==
  ASSUME IColas, [Next]_vars
  PROVE  IColas'
<1>1. IInv'
  BY ConservaInv DEF IColas
<1>2. ASSUME NEW e \in ESIs, LlegarEsi(e) \/ Esi(e) \/ Coordinador(e) \/ Atender(e) \/ Caer(e)
      PROVE  IColas'
  BY <1>1, <1>2, UbicaEsi, UbicaAtender DEF IColas
<1>3. CASE Consola
  BY <1>1, <1>3, UbicaConsola DEF IColas
<1>4. CASE UNCHANGED vars
  <2>1. plan' = plan /\ Llegados' = Llegados
    BY <1>4, MismosLlegados DEF vars
  <2> QED BY <1>1, <2>1 DEF IColas
<1> QED BY <1>2, <1>3, <1>4 DEF Next

\* No ESI is lost between the queues or is in two of them: each one that has
\* connected and has not ended is running, ready once, or blocked once, whatever
\* the operator types and whatever dies.
THEOREM CadaUnoEnSuLugar == Spec => []Colas
<1>1. IColas /\ [Next]_vars => IColas'
  BY ConservaColas
<1>2. IColas => Colas
  <2> SUFFICES ASSUME IColas PROVE Colas
    OBVIOUS
  <2>1. ASSUME ~plan.fallo, NEW e \in ESIs PROVE Conectado(e) <=> EnSistema(plan, e)
    BY <2>1, PidsDistintos DEF IColas, Ubicados, Presentes, EnSistema, Conectado, Llegados
  <2> QED BY <2>1 DEF IColas, Ubicados, Colas
<1> QED BY <1>1, <1>2, InicioColas, PTL DEF Spec

-------------------------------------------------------------------------------
(***************************************************************************)
(* Who is given the processor, and when.                                   *)
(*                                                                         *)
(* What a function may do, from memory p to memory q, besides Deriva.      *)
(***************************************************************************)
\* It does not pause or continue, names no key for a GET, and gives an ESI no
\* key but the one that a GET has named.
Respeta(p, q) ==
  /\ q.pausado = p.pausado
  /\ q.get_clave \in {p.get_clave, Ninguna}
  /\ \A k \in Claves : q.dueno[k] \in ESIs => p.dueno[k] \in ESIs \/ k = p.get_clave

\* It touches neither the running ESI, nor the orders, nor the ended ESIs.
Quieta(p, q) ==
  /\ Respeta(p, q)
  /\ q.exec = p.exec /\ q.orden = p.orden
  /\ q.terminados = p.terminados /\ q.get_pid = p.get_pid

\* The ESI it leaves running has an order, unless it already ran without one.
Encarga(p, q) ==
  \/ q.fallo \/ q.exec = Nadie \/ q.exec \in q.orden
  \/ q.exec = p.exec /\ q.exec \notin p.orden

LEMMA RespetaTransitiva ==
  ASSUME NEW p, NEW q, NEW r, Respeta(p, q), Respeta(q, r)
  PROVE  Respeta(p, r)
  BY ClavesDistintas DEF Respeta

LEMMA QuietaReflexiva ==
  ASSUME NEW p PROVE Quieta(p, p) /\ Respeta(p, p)
  BY DEF Quieta, Respeta

LEMMA EncargaTransitiva ==
  ASSUME NEW p, NEW q, NEW r, q.fallo => r.fallo, Encarga(p, q), Encarga(q, r)
  PROVE  Encarga(p, r)
  BY DEF Encarga

LEMMA QuietaRomper ==
  ASSUME NEW p \in Memoria
  PROVE  Quieta(p, Romper(p)) /\ Romper(p).fallo
  BY DEF Quieta, Respeta, Romper, Memoria

-------------------------------------------------------------------------------
(***************************************************************************)
(* The functions.                                                          *)
(***************************************************************************)
\* planificar gives the processor only with an order, to nobody in a pause, and
\* leaves it idle only if nobody is ready.
LEMMA PlanificarEncarga ==
  ASSUME NEW p \in Memoria, NEW q \in planificar(p)
  PROVE  /\ Respeta(p, q) /\ Encarga(p, q)
         /\ q.terminados = p.terminados /\ q.get_pid = p.get_pid
         /\ p.pausado => q = p
         /\ ~q.fallo /\ ~q.pausado /\ q.exec = Nadie => q.listos = <<>>
<1>1. CASE q = p /\ (p.fallo \/ p.exec # Nadie \/ p.pausado \/ p.listos = <<>>)
  BY <1>1, QuietaReflexiva DEF Encarga
<1>2. CASE /\ ~(p.fallo \/ p.exec # Nadie \/ p.pausado \/ p.listos = <<>>)
           /\ q \in obtener_proximo_ejecucion(p)
  <2>1. PICK i \in Proximos(p) :
          q = enviar_esi_confirmacion_sentencia(
                [p EXCEPT !.exec = p.listos[i], !.listos = RemoveAt(p.listos, i)])
    BY <1>2 DEF obtener_proximo_ejecucion
  <2> DEFINE e == p.listos[i]
             l == RemoveAt(p.listos, i)
  <2>2. p.listos \in Seq(ESIs) /\ i \in DOMAIN p.listos
    BY <2>1 DEF Memoria, Proximos
  <2>3. e \in ESIs /\ e # Nadie
    BY <2>2, Elementos, PidsDistintos
  <2> HIDE DEF e, l
  <2>4. q = [p EXCEPT !.exec = e, !.listos = l, !.orden = p.orden \cup {e}]
    BY <2>1 DEF enviar_esi_confirmacion_sentencia, Memoria, e, l
  <2> QED BY <1>2, <2>3, <2>4 DEF Memoria, Respeta, Encarga
<1> QED BY <1>1, <1>2 DEF planificar

LEMMA AumentarQuieta ==
  ASSUME NEW p \in Memoria
  PROVE  Quieta(p, aumentar_tiempo_espera_ready(p))
  BY DEF aumentar_tiempo_espera_ready, Quieta, Respeta, Memoria

LEMMA PedirDesalojoQuieta ==
  ASSUME NEW p \in Memoria, NEW e \in ESIs
  PROVE  Quieta(p, pedir_desalojo(p, e))
<1> DEFINE v == pedir_desalojo(p, e).por_desalojar
<1>1. v \in ESIs \cup {Nadie} /\ pedir_desalojo(p, e) = [p EXCEPT !.por_desalojar = v]
  BY PedirDesalojo
<1> HIDE DEF v
<1> QED BY <1>1 DEF Quieta, Respeta, Memoria

LEMMA DesbloquearQuieta ==
  ASSUME NEW p \in Memoria, NEW k \in Claves
  PROVE  Quieta(p, desbloquear_clave(p, k))
<1> DEFINE i == Min(EsperanClave(p, k))
           e == p.bloqueados[i]
           q0 == [p EXCEPT !.bloqueados = RemoveAt(p.bloqueados, i),
                           !.pcb[e] = Despertado(p.pcb[e])]
           m == pedir_desalojo(q0, e)
           l == Append(p.listos, e)
<1>1. /\ q0.pausado = p.pausado /\ q0.get_clave = p.get_clave /\ q0.dueno = p.dueno
      /\ q0.exec = p.exec /\ q0.orden = p.orden /\ q0.terminados = p.terminados
      /\ q0.get_pid = p.get_pid /\ q0.fallo = p.fallo
  BY DEF Memoria
<1>2. /\ m.pausado = p.pausado /\ m.get_clave = p.get_clave /\ m.dueno = p.dueno
      /\ m.exec = p.exec /\ m.orden = p.orden /\ m.terminados = p.terminados
      /\ m.get_pid = p.get_pid /\ m.fallo = p.fallo
      /\ DOMAIN m = DOMAIN p
  BY DEF Memoria, pedir_desalojo
<1>3. desbloquear_clave(p, k) \in
        {p, Romper(p), [p EXCEPT !.dueno[k] = Libre],
         [m EXCEPT !.listos = l, !.dueno[k] = Libre], [m EXCEPT !.listos = l]}
  BY DEF desbloquear_clave
<1> HIDE DEF m, l
<1>4. Quieta(p, [p EXCEPT !.dueno[k] = Libre])
  BY PidsDistintos DEF Quieta, Respeta, Memoria
<1>5. p.dueno \in [Claves -> ESIs \cup {Sistema, Libre}]
      /\ DOMAIN m = {"exec", "listos", "bloqueados", "terminados", "dueno", "pcb", "pausado",
                     "bloqueo", "kill", "por_desalojar", "por_get", "get_clave", "get_pid",
                     "store_clave", "orden", "fallo"}
  BY <1>2 DEF Memoria
<1>6. Quieta(p, [m EXCEPT !.listos = l, !.dueno[k] = Libre])
  BY <1>2, <1>5, PidsDistintos DEF Quieta, Respeta
<1>7. Quieta(p, [m EXCEPT !.listos = l])
  BY <1>2, <1>5 DEF Quieta, Respeta
<1> QED BY <1>3, <1>4, <1>6, <1>7, QuietaRomper, QuietaReflexiva

LEMMA BloquearRespeta ==
  ASSUME NEW p \in Memoria, NEW k, NEW e \in ESIs
  PROVE  LET q == bloquear_clave(p, k, e)
         IN  /\ q.pausado = p.pausado /\ q.get_clave = p.get_clave /\ q.get_pid = p.get_pid
             /\ q.exec = p.exec /\ q.orden = p.orden /\ q.terminados = p.terminados
             /\ q.listos = p.listos
             /\ \A j \in Claves : q.dueno[j] \in ESIs => p.dueno[j] \in ESIs \/ j = k
<1> DEFINE d == IF e = p.exec \/ e \in ToSet(p.listos) THEN e ELSE Sistema
           q == [p EXCEPT !.dueno[k] = d]
<1>1. /\ q.pausado = p.pausado /\ q.get_clave = p.get_clave /\ q.get_pid = p.get_pid
      /\ q.exec = p.exec /\ q.orden = p.orden /\ q.terminados = p.terminados
      /\ q.listos = p.listos
      /\ \A j \in Claves : q.dueno[j] \in ESIs => p.dueno[j] \in ESIs \/ j = k
  BY DEF Memoria
<1>2. bloquear_clave(p, k, e) \in {p, q}
  BY DEF bloquear_clave
<1> HIDE DEF q
<1> QED BY <1>1, <1>2

LEMMA BloquearEsiQuieta ==
  ASSUME NEW p \in Memoria, NEW k \in Claves, NEW e \in ESIs
  PROVE  LET q == bloquear_esi_pid(p, k, e)
         IN  /\ Quieta(p, q)
             /\ p.listos = <<>> => q.listos = <<>>
<1> DEFINE q1 == [p EXCEPT !.pcb[e].clave = k, !.bloqueo = TRUE]
           l == sacar_esi_de_lista_pid(p.listos, e)
           b == Append(p.bloqueados, e)
           q2 == [p EXCEPT !.pcb[e].clave = k, !.listos = l, !.bloqueados = b]
<1>1. p.listos = <<>> => e \notin ToSet(p.listos)
  BY EmptySeq DEF ToSet
<1>2. Quieta(p, q1) /\ q1.listos = p.listos
  BY DEF Quieta, Respeta, Memoria
<1> HIDE DEF l, b
<1>3. Quieta(p, q2)
  BY DEF Quieta, Respeta, Memoria
<1>4. \/ bloquear_esi_pid(p, k, e) \in {p, q1}
      \/ e \in ToSet(p.listos) /\ bloquear_esi_pid(p, k, e) = q2
  BY DEF bloquear_esi_pid, l, b
<1> HIDE DEF q1, q2
<1> QED BY <1>1, <1>2, <1>3, <1>4, QuietaReflexiva

LEMMA LiberarQuieta ==
  ASSUME NEW p \in Memoria, NEW e \in ESIs, NEW q \in desbloquear_claves_bloqueadas_pid(p, e)
  PROVE  Quieta(p, q)
<1> DEFINE D == Despertados(p, e)
           d0 == [k \in Claves |-> IF p.dueno[k] = e THEN Libre ELSE p.dueno[k]]
           c0 == [f \in ESIs |-> IF f \in D THEN Despertado(p.pcb[f]) ELSE p.pcb[f]]
<1>1. CASE q \in {p, Romper(p)}
  BY <1>1, QuietaRomper, QuietaReflexiva
<1>2. ASSUME NEW fila, NEW resto, q = Liberadas(p, e, fila, resto)
      PROVE  Quieta(p, q)
  <2>1. SinClavesDe(p, e) = [p EXCEPT !.dueno = d0, !.pcb = c0]
    BY DEF SinClavesDe
  <2> DEFINE v == ConDesalojo(SinClavesDe(p, e), fila).por_desalojar
             l == p.listos \o fila
  <2>2. \A k \in Claves : d0[k] \in ESIs => p.dueno[k] \in ESIs
    BY PidsDistintos
  <2> HIDE DEF d0, c0
  <2>3. ConDesalojo(SinClavesDe(p, e), fila)
          = [p EXCEPT !.dueno = d0, !.pcb = c0, !.por_desalojar = v]
    BY <2>1 DEF ConDesalojo, Memoria
  <2> HIDE DEF v, l
  <2>4. q = [p EXCEPT !.dueno = d0, !.pcb = c0, !.por_desalojar = v,
                      !.bloqueados = resto, !.listos = l]
    BY <1>2, <2>3 DEF Memoria, Liberadas, l
  <2> QED BY <2>2, <2>4 DEF Quieta, Respeta, Memoria
<1>3. \/ q \in {p, Romper(p)}
      \/ \E fila \in SetToSeqs(D), resto \in SinElementos(p.bloqueados, D) :
           q = Liberadas(p, e, fila, resto)
  BY DEF desbloquear_claves_bloqueadas_pid
<1> QED BY <1>1, <1>2, <1>3

\* finalizar_esi ends nobody but e, and takes the processor from nobody but e.
LEMMA FinalizarRespeta ==
  ASSUME NEW p \in Memoria, NEW e \in ESIs, NEW l \in BOOLEAN,
         NEW q \in finalizar_esi(p, e, l)
  PROVE  /\ Respeta(p, q) /\ Encarga(p, q) /\ q.get_pid = p.get_pid
         /\ p.exec = Nadie \/ e = p.exec => q.exec = Nadie
         /\ q.terminados \subseteq p.terminados \cup {e}
         /\ ~EnSistema(p, e) => q.terminados = p.terminados
         /\ EnSistema(p, e) /\ ~q.fallo => e \in q.terminados
<1> DEFINE c == sacar_de_colas(p, e)
<1>0. e # Nadie
  BY PidsDistintos
<1>1. CASE ~EnSistema(p, e)
  BY <1>0, <1>1, QuietaReflexiva DEF finalizar_esi, Encarga, EnSistema
<1>2. ASSUME EnSistema(p, e), NEW r \in {c} \cup desbloquear_claves_bloqueadas_pid(c, e),
             q = pasar_a_terminados(r, e)
      PROVE  /\ Respeta(p, q) /\ Encarga(p, q) /\ q.get_pid = p.get_pid
             /\ p.exec = Nadie \/ e = p.exec => q.exec = Nadie
             /\ q.terminados \subseteq p.terminados \cup {e}
             /\ ~q.fallo => e \in q.terminados
  <2>1. /\ c.pausado = p.pausado /\ c.get_clave = p.get_clave /\ c.dueno = p.dueno
        /\ c.orden = p.orden /\ c.terminados = p.terminados /\ c.get_pid = p.get_pid
        /\ c.exec = IF e = p.exec THEN Nadie ELSE p.exec
    BY DEF sacar_de_colas, Memoria
  <2>2. c \in Memoria
    BY SacarDeColas DEF Deriva
  <2> HIDE DEF c
  <2>3. Quieta(c, r)
    BY <2>2, LiberarQuieta, QuietaReflexiva
  <2>4. r \in Memoria
    BY <2>2, Liberar DEF Deriva
  <2>5. /\ q.pausado = r.pausado /\ q.get_clave = r.get_clave /\ q.dueno = r.dueno
        /\ q.get_pid = r.get_pid /\ q.exec = r.exec
        /\ q.orden \in {r.orden, r.orden \ {e}}
        /\ q.terminados \in {r.terminados, r.terminados \cup {e}}
        /\ ~q.fallo => e \in q.terminados
    BY <1>2, <2>4 DEF pasar_a_terminados, Memoria
  <2> QED BY <2>1, <2>3, <2>5 DEF Quieta, Respeta, Encarga
<1>3. ~EnSistema(p, e) \/ \E r \in {c} \cup desbloquear_claves_bloqueadas_pid(c, e) :
                               q = pasar_a_terminados(r, e)
  BY DEF finalizar_esi
<1> QED BY <1>1, <1>2, <1>3

-------------------------------------------------------------------------------
(***************************************************************************)
(* The result of the running ESI.                                          *)
(***************************************************************************)
LEMMA ConfirmacionesRespetan ==
  ASSUME NEW p \in Memoria
  PROVE  /\ LET q == confirmar_bloqueo_ejecucion(p)
            IN  p.exec # Nadie => /\ Respeta(p, q) /\ q.exec = Nadie /\ q.orden = p.orden
                                  /\ q.terminados = p.terminados
         /\ LET q == confirmar_bloqueo_por_get(p)
            IN  Respeta(p, q) /\ q.exec = p.exec /\ q.orden = p.orden
                /\ q.terminados = p.terminados
         /\ LET q == confirmar_desbloqueo_por_store(p)
            IN  p.store_clave # Ninguna => /\ Respeta(p, q) /\ q.exec = p.exec
                                           /\ q.orden = p.orden /\ q.terminados = p.terminados
         /\ LET q == confirmar_pausa_por_consola(p)
            IN  /\ Respeta(p, q) /\ q.orden = p.orden /\ q.terminados = p.terminados
                /\ q.exec = Nadie
         /\ LET q == confirmar_desalojo_ejecucion(p)
            IN  /\ Respeta(p, q) /\ q.orden = p.orden /\ q.terminados = p.terminados
                /\ p.exec = Nadie => q.fallo
<1>1. ASSUME p.exec # Nadie
      PROVE  LET q == confirmar_bloqueo_ejecucion(p)
             IN  /\ Respeta(p, q) /\ q.exec = Nadie /\ q.orden = p.orden
                 /\ q.terminados = p.terminados
  BY DEF confirmar_bloqueo_ejecucion, Respeta, Memoria
<1>2. LET q == confirmar_bloqueo_por_get(p)
      IN  Respeta(p, q) /\ q.exec = p.exec /\ q.orden = p.orden
          /\ q.terminados = p.terminados
  <2> DEFINE m == bloquear_clave(p, p.get_clave, p.get_pid)
             q == [m EXCEPT !.por_get = FALSE, !.get_clave = Ninguna, !.get_pid = Nadie]
  <2>1. CASE p.get_pid = Nadie
    BY <2>1, QuietaRomper DEF confirmar_bloqueo_por_get, Quieta
  <2>2. CASE p.get_pid # Nadie
    <3>1. p.get_pid \in ESIs
      BY <2>2 DEF Memoria
    <3>2. /\ m.pausado = p.pausado /\ m.exec = p.exec /\ m.orden = p.orden
          /\ m.terminados = p.terminados
          /\ \A j \in Claves : m.dueno[j] \in ESIs => p.dueno[j] \in ESIs \/ j = p.get_clave
      BY <3>1, BloquearRespeta
    <3>3. m \in Memoria
      BY <3>1, BloquearClave DEF Deriva
    <3> HIDE DEF m
    <3>4. Respeta(p, q) /\ q.exec = p.exec /\ q.orden = p.orden /\ q.terminados = p.terminados
      BY <3>2, <3>3 DEF Respeta, Memoria
    <3>5. confirmar_bloqueo_por_get(p) = q
      BY <2>2 DEF confirmar_bloqueo_por_get, m
    <3> QED BY <3>4, <3>5
  <2> QED BY <2>1, <2>2
<1>3. ASSUME p.store_clave # Ninguna
      PROVE  LET q == confirmar_desbloqueo_por_store(p)
             IN  /\ Respeta(p, q) /\ q.exec = p.exec
                 /\ q.orden = p.orden /\ q.terminados = p.terminados
  <2> DEFINE m == desbloquear_clave(p, p.store_clave)
  <2>1. p.store_clave \in Claves
    BY <1>3 DEF Memoria
  <2>2. Quieta(p, m) /\ m \in Memoria
    BY <2>1, DesbloquearQuieta, DesbloquearClave DEF Deriva
  <2>3. confirmar_desbloqueo_por_store(p) = [m EXCEPT !.store_clave = Ninguna]
    BY DEF confirmar_desbloqueo_por_store
  <2> HIDE DEF m
  <2> QED BY <2>2, <2>3 DEF Quieta, Respeta, Memoria
<1>4. LET q == confirmar_pausa_por_consola(p)
      IN  /\ Respeta(p, q) /\ q.orden = p.orden /\ q.terminados = p.terminados
          /\ q.exec = Nadie
  BY DEF confirmar_pausa_por_consola, Romper, Respeta, Memoria
<1>5. LET q == confirmar_desalojo_ejecucion(p)
      IN  /\ Respeta(p, q) /\ q.orden = p.orden /\ q.terminados = p.terminados
          /\ p.exec = Nadie => q.fallo
  BY DEF confirmar_desalojo_ejecucion, Romper, Respeta, Memoria
<1> QED BY <1>1, <1>2, <1>3, <1>4, <1>5

\* In a pause the running ESI goes to esi_listos and gets no order; otherwise
\* the one that is left running gets one.
LEMMA CorrectoEncarga ==
  ASSUME NEW p \in Memoria, p.exec # Nadie, NEW q \in resultado_correcto(p)
  PROVE  /\ Respeta(p, q)
         /\ q.fallo \/ q.exec = Nadie \/ q.exec \in q.orden
         /\ p.pausado => q.orden \subseteq p.orden
         /\ q.terminados \subseteq p.terminados \cup {p.exec}
<1> DEFINE c1 == [p EXCEPT !.pcb[p.exec] = [sentencia_contada(@) EXCEPT !.repetir = FALSE]]
           c2 == IF c1.bloqueo THEN confirmar_bloqueo_ejecucion(c1) ELSE c1
           c3 == IF c2.por_get THEN confirmar_bloqueo_por_get(c2) ELSE c2
           c4 == IF ~c3.fallo /\ c3.store_clave # Ninguna
                 THEN confirmar_desbloqueo_por_store(c3) ELSE c3
           c5 == IF ~c4.fallo /\ c4.pausado THEN confirmar_pausa_por_consola(c4) ELSE c4
           C6 == IF ~c5.fallo /\ c5.kill THEN confirmar_kill_ejecucion(c5) ELSE {c5}
           c7(c) == IF ~c.fallo /\ c.por_desalojar # Nadie
                    THEN confirmar_desalojo_ejecucion(c) ELSE c
           c8(c) == IF ~c.fallo /\ c.exec # Nadie
                    THEN enviar_esi_confirmacion_sentencia(c) ELSE c
           T(c) == /\ c \in Memoria /\ Respeta(p, c)
                   /\ c.exec \in {p.exec, Nadie}
                   /\ c.orden = p.orden /\ c.terminados = p.terminados
           P(c) == c.fallo \/ ~c.pausado \/ c.exec = Nadie
           U(c) == /\ c \in Memoria /\ Respeta(p, c) /\ P(c)
                   /\ c.orden \subseteq p.orden
                   /\ c.terminados \subseteq p.terminados \cup {p.exec}
<1>1. PICK c6 \in C6 : q = c8(c7(c6))
  BY DEF resultado_correcto
<1>2. T(c1) /\ c1.exec = p.exec
  <2>1. c1 \in Memoria
    <3> DEFINE f == [sentencia_contada(p.pcb[p.exec]) EXCEPT !.repetir = FALSE]
    <3>1. p.exec \in ESIs /\ p.pcb \in [ESIs -> Pcb] /\ p.pcb[p.exec] \in Pcb
      BY DEF Memoria
    <3>2. sentencia_contada(p.pcb[p.exec]) \in Pcb
      BY <3>1, Ficha
    <3>3. f \in Pcb
      BY <3>2 DEF Pcb
    <3>4. c1 = [p EXCEPT !.pcb = [p.pcb EXCEPT ![p.exec] = f]]
      BY DEF Memoria
    <3> HIDE DEF f, c1
    <3> QED BY <3>1, <3>3, <3>4 DEF Memoria
  <2> QED BY <2>1 DEF Respeta, Memoria
<1> HIDE DEF c1
<1>3. T(c2)
  <2>1. confirmar_bloqueo_ejecucion(c1) \in Memoria
    BY <1>2, ConfirmarBloqueo DEF Deriva
  <2>2. T(confirmar_bloqueo_ejecucion(c1))
    BY <1>2, <2>1, ConfirmacionesRespetan, RespetaTransitiva
  <2> QED BY <1>2, <2>2
<1> HIDE DEF c2
<1>4. T(c3)
  <2>1. confirmar_bloqueo_por_get(c2) \in Memoria
    BY <1>3, ConfirmarGet DEF Deriva
  <2>2. T(confirmar_bloqueo_por_get(c2))
    BY <1>3, <2>1, ConfirmacionesRespetan, RespetaTransitiva
  <2> QED BY <1>3, <2>2
<1> HIDE DEF c3
<1>5. T(c4)
  <2>1. ASSUME c3.store_clave # Ninguna
        PROVE  T(confirmar_desbloqueo_por_store(c3))
    <3>1. confirmar_desbloqueo_por_store(c3) \in Memoria
      BY <1>4, <2>1, ConfirmarStore DEF Deriva
    <3> QED BY <1>4, <2>1, <3>1, ConfirmacionesRespetan, RespetaTransitiva
  <2> QED BY <1>4, <2>1
<1> HIDE DEF c4
<1>6. T(c5) /\ P(c5)
  <2>1. confirmar_pausa_por_consola(c4) \in Memoria
    BY <1>5, ConfirmarPausa DEF Deriva
  <2>2. T(confirmar_pausa_por_consola(c4)) /\ P(confirmar_pausa_por_consola(c4))
    BY <1>5, <2>1, ConfirmacionesRespetan, RespetaTransitiva
  <2> QED BY <1>5, <2>2
<1> HIDE DEF c5
<1>7. U(c6)
  <2>1. CASE c6 = c5
    BY <1>6, <2>1
  <2>2. CASE c6 = Romper(c5)
    <3>1. Romper(c5) \in Memoria /\ Quieta(c5, Romper(c5)) /\ Romper(c5).fallo
      BY <1>6, DerivaRomper, QuietaRomper DEF Deriva
    <3> QED BY <1>6, <2>2, <3>1, RespetaTransitiva DEF Quieta
  <2>3. CASE c5.exec # Nadie /\ ~c5.fallo /\ c6 \in finalizar_esi(c5, c5.exec, TRUE)
    <3>1. c5.exec \in ESIs /\ c5.exec = p.exec
      BY <1>6, <2>3 DEF Memoria
    <3>2. c6 \in Memoria /\ c6.orden \subseteq c5.orden
      BY <1>6, <2>3, <3>1, FinalizarEsi DEF Deriva, Calla
    <3>3. Respeta(c5, c6) /\ c6.terminados \subseteq c5.terminados \cup {p.exec} /\ c6.exec = Nadie
      BY <1>6, <2>3, <3>1, FinalizarRespeta
    <3> QED BY <1>6, <3>2, <3>3, RespetaTransitiva
  <2> QED BY <1>1, <2>1, <2>2, <2>3 DEF confirmar_kill_ejecucion
<1> HIDE DEF C6
<1>8. U(c7(c6))
  <2> DEFINE d == confirmar_desalojo_ejecucion(c6)
  <2>1. d \in Memoria
    BY <1>7, ConfirmarDesalojo DEF Deriva
  <2>2. /\ Respeta(c6, d) /\ d.orden = c6.orden /\ d.terminados = c6.terminados
        /\ c6.exec = Nadie => d.fallo
    BY <1>7, ConfirmacionesRespetan
  <2> HIDE DEF d
  <2>3. Respeta(p, d)
    BY <1>7, <2>2, RespetaTransitiva
  <2>4. ~c6.fallo => P(d)
    BY <1>7, <2>2 DEF Respeta
  <2>5. ~c6.fallo => U(d)
    BY <1>7, <2>1, <2>2, <2>3, <2>4
  <2> QED BY <1>7, <2>5 DEF d
<1> HIDE DEF c7
<1> DEFINE c == c7(c6)
<1>9. CASE c.fallo \/ c.exec = Nadie
  BY <1>1, <1>8, <1>9
<1>10. CASE ~c.fallo /\ c.exec # Nadie
  <2>1. q = [c EXCEPT !.orden = c.orden \cup {c.exec}]
    BY <1>1, <1>10 DEF enviar_esi_confirmacion_sentencia
  <2> HIDE DEF c, U
  <2>2. c \in Memoria /\ Respeta(p, c) /\ ~c.pausado
        /\ c.terminados \subseteq p.terminados \cup {p.exec}
    BY <1>8, <1>10 DEF U, c
  <2> QED BY <2>1, <2>2 DEF Respeta, Memoria
<1> QED BY <1>9, <1>10

-------------------------------------------------------------------------------
(***************************************************************************)
(* The handlers.                                                           *)
(***************************************************************************)
\* NoOcioso, of a memory.
Ocupado(p) == ~p.fallo /\ ~p.pausado /\ p.exec = Nadie => p.listos = <<>>

\* A pause holds: no new order.
Callado(p, q) == p.pausado => q.orden \subseteq p.orden

LEMMA ResultadoEncarga ==
  ASSUME NEW p \in Memoria, NEW e \in ESIs, NEW resultado,
         NEW q \in procesar_resultado(p, e, resultado)
  PROVE  /\ Respeta(p, q) /\ Callado(p, q)
         /\ q.terminados \subseteq p.terminados \cup {p.exec}
         /\ p.get_pid = e \/ resultado # "CLAVE_BLOQUEADA" =>
              q.fallo \/ q.exec = Nadie \/ q.exec \in q.orden
         /\ resultado \notin {"CORRECTO", "CLAVE_BLOQUEADA"} =>
              q.fallo \/ p.exec \in q.terminados
<1>1. CASE p.exec = Nadie
  <2>1. q = Romper(p)
    BY <1>1 DEF procesar_resultado
  <2> QED BY <2>1, QuietaRomper DEF Quieta, Callado
<1>2. CASE p.exec # Nadie /\ resultado = "CORRECTO" /\ q \in resultado_correcto(p)
  BY <1>2, CorrectoEncarga DEF Callado
<1>3. CASE /\ p.exec # Nadie /\ resultado \notin {"CORRECTO", "CLAVE_BLOQUEADA"}
           /\ \E l \in BOOLEAN : q \in finalizar_esi(p, p.exec, l)
  <2>1. p.exec \in ESIs
    BY <1>3 DEF Memoria
  <2>2. EnSistema(p, p.exec)
    BY DEF EnSistema
  <2>3. q.orden \subseteq p.orden
    BY <1>3, <2>1, FinalizarEsi DEF Calla
  <2> QED BY <1>3, <2>1, <2>2, <2>3, FinalizarRespeta DEF Callado
<1>4. CASE p.exec # Nadie /\ resultado = "CLAVE_BLOQUEADA" /\ q = resultado_clave_bloqueada(p, e)
  <2> DEFINE c == [p.pcb EXCEPT ![p.exec] = [sentencia_contada(@) EXCEPT
                                    !.repetir = TRUE, !.clave = p.get_clave]]
             b == Append(p.bloqueados, p.exec)
             r == [p EXCEPT !.pcb = c, !.bloqueados = b, !.exec = Nadie,
                            !.get_clave = Ninguna, !.get_pid = Nadie]
  <2>1. q = Romper(p) \/ (q = p /\ p.get_pid # e) \/ q = r
    BY <1>4 DEF resultado_clave_bloqueada, Memoria
  <2> HIDE DEF c, b
  <2>2. Respeta(p, r) /\ r.orden = p.orden /\ r.terminados = p.terminados /\ r.exec = Nadie
    BY DEF Respeta, Memoria
  <2> HIDE DEF r
  <2> QED BY <1>4, <2>1, <2>2, QuietaRomper, QuietaReflexiva DEF Quieta, Callado
<1> QED BY <1>1, <1>2, <1>3, <1>4 DEF procesar_resultado

LEMMA MensajeEncarga ==
  ASSUME NEW p \in Memoria, NEW e \in ESIs, NEW resultado,
         NEW q \in recibir_mensaje_esi(p, e, resultado)
  PROVE  /\ Respeta(p, q) /\ Callado(p, q) /\ Ocupado(q)
         /\ q.terminados \subseteq p.terminados \cup {p.exec}
         /\ p.get_pid = e \/ resultado # "CLAVE_BLOQUEADA" =>
              q.fallo \/ q.exec = Nadie \/ q.exec \in q.orden
         /\ resultado \notin {"CORRECTO", "CLAVE_BLOQUEADA"} =>
              q.fallo \/ p.exec \in q.terminados
<1>1. PICK r \in procesar_resultado(p, e, resultado) :
        q \in planificar(aumentar_tiempo_espera_ready(r))
  BY DEF recibir_mensaje_esi
<1> DEFINE s == aumentar_tiempo_espera_ready(r)
<1>2. r \in Memoria
  BY ProcesarResultado DEF Deriva
<1>3. Quieta(r, s) /\ s \in Memoria /\ (r.fallo => s.fallo)
  BY <1>2, AumentarQuieta, AumentarEspera DEF Deriva
<1> HIDE DEF s
<1>4. /\ Respeta(s, q) /\ Encarga(s, q) /\ q.terminados = s.terminados
      /\ s.pausado => q = s
      /\ Ocupado(q) /\ (s.fallo => q.fallo)
  BY <1>1, <1>3, PlanificarEncarga, Planificar DEF Deriva, Ocupado, s
<1>5. Respeta(p, q)
  BY <1>3, <1>4, ResultadoEncarga, RespetaTransitiva DEF Quieta
<1>6. Callado(p, q)
  BY <1>3, <1>4, ResultadoEncarga DEF Quieta, Respeta, Callado
<1> QED BY <1>3, <1>4, <1>5, <1>6, ResultadoEncarga DEF Quieta, Encarga

LEMMA NuevoEncarga ==
  ASSUME NEW p \in Memoria, NEW e \in ESIs, NEW q \in atender_nuevo_esi(p, e)
  PROVE  /\ Respeta(p, q) /\ Callado(p, q) /\ Encarga(p, q) /\ Ocupado(q)
         /\ q.terminados = p.terminados /\ q.get_pid = p.get_pid
<1> DEFINE l == Append(p.listos, e)
           c == [p.pcb EXCEPT ![e] = crear_esi]
           r == [p EXCEPT !.pcb = c, !.listos = l]
           s == pedir_desalojo(r, e)
<1>1. l \in Seq(ESIs)
  BY AgregarAlFinal DEF Memoria
<1>2. c \in [ESIs -> Pcb]
  BY MemoriaInicialBien, EstimacionPositiva DEF Memoria, crear_esi, Pcb
<1>3. q \in planificar(s)
  BY DEF atender_nuevo_esi, Memoria
<1> HIDE DEF l, c
<1>4. r \in Memoria /\ Quieta(p, r) /\ r.fallo = p.fallo
  BY <1>1, <1>2 DEF Memoria, Quieta, Respeta
<1> HIDE DEF r
<1>5. s \in Memoria /\ Quieta(r, s)
  <2>1. s.por_desalojar \in ESIs \cup {Nadie} /\ s = [r EXCEPT !.por_desalojar = s.por_desalojar]
    BY <1>4, PedirDesalojo
  <2> DEFINE v == s.por_desalojar
  <2> HIDE DEF s, v
  <2>2. s = [r EXCEPT !.por_desalojar = v] /\ v \in ESIs \cup {Nadie}
    BY <2>1 DEF v
  <2>3. s \in Memoria
    BY <1>4, <2>2 DEF Memoria
  <2> QED BY <1>4, <2>3, PedirDesalojoQuieta DEF s
<1> HIDE DEF s
<1>6. /\ Respeta(s, q) /\ Encarga(s, q) /\ q.terminados = s.terminados
      /\ q.get_pid = s.get_pid /\ (s.pausado => q = s) /\ Ocupado(q)
  BY <1>3, <1>5, PlanificarEncarga DEF Ocupado
<1>7. Respeta(p, q)
  BY <1>4, <1>5, <1>6, RespetaTransitiva DEF Quieta
<1> QED BY <1>4, <1>5, <1>6, <1>7 DEF Quieta, Respeta, Callado, Encarga

\* finalizar_esi and then planificar, for an ESI that is not the running one.
LEMMA FinalizarYPlanificar ==
  ASSUME NEW p \in Memoria, NEW e \in ESIs, NEW l \in BOOLEAN,
         NEW r \in finalizar_esi(p, e, l), NEW q \in planificar(r)
  PROVE  /\ Respeta(p, q) /\ Callado(p, q) /\ Encarga(p, q) /\ Ocupado(q)
         /\ q.terminados \subseteq p.terminados \cup {e}
         /\ ~EnSistema(p, e) => q.terminados = p.terminados
         /\ q.get_pid = p.get_pid
<1>1. r \in Memoria /\ r.orden \subseteq p.orden
  BY FinalizarEsi DEF Deriva, Calla
<1>2. /\ Respeta(r, q) /\ Encarga(r, q) /\ q.terminados = r.terminados
      /\ q.get_pid = r.get_pid /\ (r.pausado => q = r) /\ Ocupado(q) /\ (r.fallo => q.fallo)
  BY <1>1, PlanificarEncarga, Planificar DEF Ocupado, Deriva
<1>3. Respeta(p, q) /\ Encarga(p, q)
  BY <1>2, FinalizarRespeta, RespetaTransitiva, EncargaTransitiva
<1> QED BY <1>1, <1>2, <1>3, FinalizarRespeta DEF Respeta, Callado

LEMMA DesconexionRespeta ==
  ASSUME NEW p \in Memoria, NEW e \in ESIs
  PROVE  /\ \A q \in recibir_desconexion_esi(p, e) : Respeta(p, q) /\ Callado(p, q)
         /\ \A q \in recibir_error_esi(p, e) : Respeta(p, q) /\ Callado(p, q)
<1>1. ASSUME NEW q \in recibir_desconexion_esi(p, e)
      PROVE  Respeta(p, q) /\ Callado(p, q)
  <2>1. PICK r \in planificar(p) : \E s \in finalizar_esi(r, e, TRUE) : q \in planificar(s)
    BY DEF recibir_desconexion_esi
  <2>2. r \in Memoria /\ Respeta(p, r) /\ (p.pausado => r = p)
    BY Planificar, PlanificarEncarga DEF Deriva
  <2>3. Respeta(r, q) /\ Callado(r, q)
    BY <2>1, <2>2, FinalizarYPlanificar
  <2> QED BY <2>2, <2>3, RespetaTransitiva DEF Callado
<1>2. ASSUME NEW q \in recibir_error_esi(p, e)
      PROVE  Respeta(p, q) /\ Callado(p, q)
  BY <1>2, FinalizarRespeta, FinalizarEsi DEF recibir_error_esi, Calla, Callado
<1> QED BY <1>1, <1>2

\* The console, but for pausar and bloquear.
LEMMA ConsolaEncarga ==
  ASSUME NEW p \in Memoria, NEW q
  PROVE  /\ q \in consola_continuar(p) =>
              /\ ~q.pausado /\ Encarga(p, q) /\ Ocupado(q)
              /\ q.terminados = p.terminados /\ q.get_pid = p.get_pid
              /\ q.get_clave \in {p.get_clave, Ninguna}
              /\ \A k \in Claves : q.dueno[k] \in ESIs => p.dueno[k] \in ESIs \/ k = p.get_clave
         /\ \A k \in Claves : q \in consola_desbloquear_clave(p, k) =>
              /\ Respeta(p, q) /\ Callado(p, q) /\ Encarga(p, q) /\ Ocupado(q)
              /\ q.terminados = p.terminados /\ q.get_pid = p.get_pid
         /\ \A e \in ESIs : q \in consola_matar_proceso(p, e) =>
              /\ Respeta(p, q) /\ Callado(p, q) /\ Encarga(p, q) /\ (Ocupado(p) => Ocupado(q))
              /\ q.terminados \subseteq p.terminados \cup ({e} \ {p.exec})
              /\ ~EnSistema(p, e) => q.terminados = p.terminados
              /\ q.get_pid = p.get_pid
<1>1. ASSUME q \in consola_continuar(p)
      PROVE  /\ ~q.pausado /\ Encarga(p, q) /\ Ocupado(q)
             /\ q.terminados = p.terminados /\ q.get_pid = p.get_pid
             /\ q.get_clave \in {p.get_clave, Ninguna}
             /\ \A k \in Claves : q.dueno[k] \in ESIs => p.dueno[k] \in ESIs \/ k = p.get_clave
  <2> DEFINE r == [p EXCEPT !.pausado = FALSE]
  <2>1. /\ r \in Memoria /\ ~r.pausado /\ r.exec = p.exec /\ r.orden = p.orden
        /\ r.terminados = p.terminados /\ r.get_pid = p.get_pid
        /\ r.get_clave = p.get_clave /\ r.dueno = p.dueno
    BY DEF Memoria
  <2>2. q \in planificar(r)
    BY <1>1 DEF consola_continuar
  <2> HIDE DEF r
  <2> QED BY <2>1, <2>2, PlanificarEncarga DEF Respeta, Encarga, Ocupado
<1>2. ASSUME NEW k \in Claves, q \in consola_desbloquear_clave(p, k)
      PROVE  /\ Respeta(p, q) /\ Callado(p, q) /\ Encarga(p, q) /\ Ocupado(q)
             /\ q.terminados = p.terminados /\ q.get_pid = p.get_pid
  <2> DEFINE r == desbloquear_clave(p, k)
  <2>1. r \in Memoria /\ Quieta(p, r)
    BY DesbloquearClave, DesbloquearQuieta DEF Deriva
  <2>2. q \in planificar(r)
    BY <1>2 DEF consola_desbloquear_clave
  <2> HIDE DEF r
  <2>3. /\ Respeta(r, q) /\ Encarga(r, q) /\ q.terminados = r.terminados
        /\ q.get_pid = r.get_pid /\ (r.pausado => q = r) /\ Ocupado(q)
    BY <2>1, <2>2, PlanificarEncarga DEF Ocupado
  <2>4. Respeta(p, q)
    BY <2>1, <2>3, RespetaTransitiva DEF Quieta
  <2> QED BY <2>1, <2>3, <2>4 DEF Quieta, Respeta, Callado, Encarga
<1>3. ASSUME NEW e \in ESIs, q \in consola_matar_proceso(p, e)
      PROVE  /\ Respeta(p, q) /\ Callado(p, q) /\ Encarga(p, q) /\ (Ocupado(p) => Ocupado(q))
             /\ q.terminados \subseteq p.terminados \cup ({e} \ {p.exec})
             /\ ~EnSistema(p, e) => q.terminados = p.terminados
             /\ q.get_pid = p.get_pid
  <2>1. CASE e = p.exec
    <3>1. q = [p EXCEPT !.kill = TRUE]
      BY <1>3, <2>1 DEF consola_matar_proceso
    <3>2. Quieta(p, q) /\ q.listos = p.listos /\ q.fallo = p.fallo
      BY <3>1 DEF Memoria, Quieta, Respeta
    <3> QED BY <3>2 DEF Quieta, Respeta, Callado, Encarga, Ocupado
  <2>2. CASE e # p.exec
    <3>1. PICK r \in finalizar_esi(p, e, TRUE) : q \in planificar(r)
      BY <1>3, <2>2 DEF consola_matar_proceso
    <3>2. /\ Respeta(p, q) /\ Callado(p, q) /\ Encarga(p, q) /\ Ocupado(q)
          /\ q.terminados \subseteq p.terminados \cup {e}
          /\ ~EnSistema(p, e) => q.terminados = p.terminados
          /\ q.get_pid = p.get_pid
      <4>1. TRUE \in BOOLEAN /\ r \in finalizar_esi(p, e, TRUE) /\ q \in planificar(r)
        BY <3>1
      <4>2. \A l \in BOOLEAN : \A x \in finalizar_esi(p, e, l) : \A y \in planificar(x) :
              /\ Respeta(p, y) /\ Callado(p, y) /\ Encarga(p, y) /\ Ocupado(y)
              /\ y.terminados \subseteq p.terminados \cup {e}
              /\ ~EnSistema(p, e) => y.terminados = p.terminados
              /\ y.get_pid = p.get_pid
        BY FinalizarYPlanificar
      <4> QED BY <4>1, <4>2
    <3>3. {e} \ {p.exec} = {e}
      BY <2>2
    <3> QED BY <3>2, <3>3
  <2> QED BY <2>1, <2>2
<1> QED BY <1>1, <1>2, <1>3

LEMMA BloquearConsola ==
  ASSUME NEW p \in Memoria, NEW k \in Claves, NEW e \in ESIs
  PROVE  LET q == consola_bloquear_clave(p, k, e)
         IN  /\ q.pausado = p.pausado /\ q.exec = p.exec /\ q.orden = p.orden
             /\ q.terminados = p.terminados /\ q.get_pid = p.get_pid
             /\ p.listos = <<>> => q.listos = <<>>
  BY BloquearRespeta, BloquearEsiQuieta DEF consola_bloquear_clave, Quieta, Respeta

LEMMA ConsultaQuieta ==
  ASSUME NEW p \in Memoria, NEW e \in ESIs, NEW op, NEW k \in Claves
  PROVE  LET q == recibir_mensaje_coordinador(p, e, op, k)
         IN  /\ q.pausado = p.pausado /\ q.exec = p.exec /\ q.orden = p.orden
             /\ q.terminados = p.terminados /\ q.listos = p.listos
             /\ q.fallo = p.fallo /\ q.dueno = p.dueno
             /\ q.get_clave \in {p.get_clave, k}
             /\ veredicto(p, e, op, k) = "CLAVE_BLOQUEADA" => q.get_pid = e
  BY DEF recibir_mensaje_coordinador, veredicto, Memoria

-------------------------------------------------------------------------------
(***************************************************************************)
(* A pause.                                                                *)
(***************************************************************************)
LEMMA PasoCallado ==
  ASSUME IInv, Next
  PROVE  ~plan'.pausado \/ Callado(plan, plan')
<1> USE DEF IInv
<1>0. plan \in Memoria
  BY DEF TypeOK
<1>1. ASSUME NEW e \in ESIs, LlegarEsi(e) PROVE Callado(plan, plan')
  BY <1>0, <1>1, NuevoEncarga DEF LlegarEsi
<1>2. ASSUME NEW e \in ESIs, Esi(e) PROVE Callado(plan, plan')
  <2>1. TomaOrden(e)
    BY <1>2 DEF Esi, LeerLinea, RepetirLinea, FinDelScript, LineaInvalida
  <2> QED BY <1>0, <2>1 DEF TomaOrden, Callado, Memoria
<1>3. ASSUME NEW e \in ESIs, Coordinador(e) \/ Caer(e) PROVE Callado(plan, plan')
  <2>1. plan' = plan
    BY <1>3 DEF Coordinador, RechazarSentencia, EliminarClave, ConsultarPlanificador,
                ProseguirOperacion, Responder, Caer
  <2> QED BY <2>1 DEF Callado
<1>4. ASSUME NEW e \in ESIs, RecibirConsulta(e) PROVE Callado(plan, plan')
  <2>1. linea[e].clave \in Claves
    BY <1>4 DEF RecibirConsulta, LineaLeida
  <2> QED BY <1>0, <1>4, <2>1, ConsultaQuieta DEF RecibirConsulta, Callado
<1>5. ASSUME NEW e \in ESIs, RecibirMensajeEsi(e) PROVE Callado(plan, plan')
  BY <1>0, <1>5, MensajeEncarga DEF RecibirMensajeEsi
<1>6. ASSUME NEW e \in ESIs, RecibirDesconexion(e) \/ RecibirReset(e)
      PROVE  Callado(plan, plan')
  BY <1>0, <1>6, DesconexionRespeta DEF RecibirDesconexion, RecibirReset
<1>7. ASSUME Consola PROVE ~plan'.pausado \/ Callado(plan, plan')
  <2>1. CASE ConsolaPausar
    BY <1>0, <2>1 DEF ConsolaPausar, consola_pausar, Callado, Memoria
  <2>2. CASE ConsolaContinuar
    BY <1>0, <2>2, ConsolaEncarga DEF ConsolaContinuar
  <2>3. ASSUME NEW k \in Claves, ConsolaDesbloquear(k) PROVE Callado(plan, plan')
    BY <1>0, <2>3, ConsolaEncarga DEF ConsolaDesbloquear
  <2>4. ASSUME NEW k \in Claves, NEW e \in ESIs, ConsolaBloquear(k, e) PROVE Callado(plan, plan')
    BY <1>0, <2>4, BloquearConsola DEF ConsolaBloquear, Callado
  <2>5. ASSUME NEW e \in ESIs, ConsolaMatar(e) PROVE Callado(plan, plan')
    BY <1>0, <2>5, ConsolaEncarga DEF ConsolaMatar
  <2> QED BY <1>7, <2>1, <2>2, <2>3, <2>4, <2>5 DEF Consola
<1> QED BY <1>1, <1>2, <1>3, <1>4, <1>5, <1>6, <1>7 DEF Next, Atender

\* While the Planificador is paused it gives nobody a new order, for every
\* algorithm and whatever the ESIs, the Instancias and the operator do.
THEOREM LaPausaSeRespeta == Spec => PausaSinOrdenes
<1>1. IInv /\ [Next]_vars => [plan.pausado /\ plan'.pausado => plan'.orden \subseteq plan.orden]_vars
  BY PasoCallado DEF Callado
<1> QED BY <1>1, Invariante, PTL DEF Spec, PausaSinOrdenes

-------------------------------------------------------------------------------
(***************************************************************************)
(* The processor, when no ESI dies on its own.                             *)
(***************************************************************************)
\* An ESI ends only after a last result, and the Planificador forgets an ESI only
\* when nothing of it is on its way: it never reads the end of a connection, nor
\* the consultation of an ESI it has forgotten.
SinCaidas ==
  /\ \A e \in ESIs : proceso[e] # "reset"
  /\ ~plan.fallo => \A e \in ESIs :
       /\ proceso[e] = "cerrado" =>
            \/ e \in plan.terminados
            \/ fase[e] = "respuesta" /\ resp[e] \in {"LISTO", "ABORTAR"}
       /\ e \in plan.terminados => fase[e] = "espera"

\* The GET of an ESI that is told to block is still the pending one when the
\* Planificador reads the result: otherwise the result would be ignored.
GetPropio ==
  ~plan.fallo => \A e \in ESIs :
    fase[e] \in {"veredicto", "respuesta"} /\ resp[e] = "CLAVE_BLOQUEADA" => plan.get_pid = e

IVivo == IInv /\ SinCaidas /\ GetPropio /\ EnMarcha /\ NoOcioso

LEMMA InicioVivo == Init => IVivo
  BY Inicio, PidsDistintos
  DEF Init, IVivo, SinCaidas, GetPropio, EnMarcha, NoOcioso, MemoriaInicial

\* A step of e or of its Coordinador thread, e being in the system.
LEMMA VivoPaso ==
  ASSUME IVivo, NEW e \in ESIs,
         ~plan.fallo => e \notin plan.terminados,
         plan' = plan \/ plan' = [plan EXCEPT !.orden = plan.orden \ {e}],
         \A f \in ESIs : f # e => /\ fase'[f] = fase[f] /\ resp'[f] = resp[f]
                                  /\ proceso'[f] = proceso[f],
         proceso'[e] # "reset",
         ~plan.fallo => fase'[e] # "espera",
         ~plan.fallo /\ proceso'[e] = "cerrado" => fase'[e] = "respuesta" /\ resp'[e] \in {"LISTO", "ABORTAR"},
         ~plan.fallo /\ fase'[e] \in {"veredicto", "respuesta"} /\ resp'[e] = "CLAVE_BLOQUEADA"
           => plan.get_pid = e
  PROVE  SinCaidas' /\ GetPropio' /\ EnMarcha' /\ NoOcioso'
<1> USE DEF IVivo, IInv
<1>1. /\ plan'.fallo = plan.fallo /\ plan'.exec = plan.exec /\ plan'.pausado = plan.pausado
      /\ plan'.listos = plan.listos /\ plan'.terminados = plan.terminados
      /\ plan'.get_pid = plan.get_pid
      /\ \A f \in ESIs : f # e /\ f \in plan.orden => f \in plan'.orden
  BY DEF TypeOK, Memoria
<1>2. SinCaidas'
  BY <1>1 DEF SinCaidas
<1>3. GetPropio'
  BY <1>1 DEF GetPropio
<1>4. EnMarcha'
  BY <1>1 DEF EnMarcha
<1>5. NoOcioso'
  BY <1>1 DEF NoOcioso
<1> QED BY <1>2, <1>3, <1>4, <1>5

LEMMA VivoEsi ==
  ASSUME IVivo, NEW e \in ESIs, Esi(e)
  PROVE  SinCaidas' /\ GetPropio' /\ EnMarcha' /\ NoOcioso'
<1> USE DEF IVivo
<1>1. /\ TomaOrden(e)
      /\ \/ /\ fase' = [fase EXCEPT ![e] = "sentencia"]
            /\ resp' = resp /\ proceso' = proceso
         \/ /\ fase' = [fase EXCEPT ![e] = "respuesta"]
            /\ resp' = [resp EXCEPT ![e] = "LISTO"] \/ resp' = [resp EXCEPT ![e] = "ABORTAR"]
            /\ proceso' = [proceso EXCEPT ![e] = "cerrado"]
  BY DEF Esi, LeerLinea, RepetirLinea, FinDelScript, LineaInvalida, Terminar, Enviar
<1>2. /\ e \notin plan.terminados /\ proceso[e] = "vivo"
      /\ plan' = [plan EXCEPT !.orden = plan.orden \ {e}]
  BY <1>1 DEF TomaOrden, Vivo, Conectado
<1>3. /\ fase \in [ESIs -> Fases] /\ resp \in [ESIs -> Resultados \cup {"nada"}]
      /\ proceso \in [ESIs -> {"vivo", "cerrado", "reset"}]
  BY DEF IInv, TypeOK
<1>4. \A f \in ESIs : f # e => /\ fase'[f] = fase[f] /\ resp'[f] = resp[f]
                               /\ proceso'[f] = proceso[f]
  BY <1>1, <1>3
<1>5. \/ fase'[e] = "sentencia" /\ proceso'[e] = "vivo"
      \/ fase'[e] = "respuesta" /\ proceso'[e] = "cerrado" /\ resp'[e] \in {"LISTO", "ABORTAR"}
  BY <1>1, <1>2, <1>3
<1> QED BY <1>2, <1>4, <1>5, VivoPaso

LEMMA VivoCoordinador ==
  ASSUME IVivo, NEW e \in ESIs, Coordinador(e)
  PROVE  SinCaidas' /\ GetPropio' /\ EnMarcha' /\ NoOcioso'
<1> USE DEF IVivo
<1>1. /\ fase \in [ESIs -> Fases] /\ resp \in [ESIs -> Resultados \cup {"nada"}]
      /\ proceso \in [ESIs -> {"vivo", "cerrado", "reset"}]
  BY DEF IInv, TypeOK
<1>2. fase[e] \in {"sentencia", "veredicto"} /\ plan' = plan
  BY DEF Coordinador, RechazarSentencia, EliminarClave, ConsultarPlanificador,
         ProseguirOperacion, Responder
<1>3. ~plan.fallo => e \notin plan.terminados /\ proceso[e] = "vivo"
  BY <1>1, <1>2 DEF SinCaidas
<1>4. CASE ConsultarPlanificador(e)
  <2>1. fase' = [fase EXCEPT ![e] = "consulta"] /\ resp' = resp /\ proceso' = proceso
    BY <1>4 DEF ConsultarPlanificador
  <2>2. fase'[e] = "consulta" /\ proceso'[e] # "reset"
        /\ \A f \in ESIs : f # e => fase'[f] = fase[f] /\ resp'[f] = resp[f] /\ proceso'[f] = proceso[f]
    BY <1>1, <2>1 DEF SinCaidas
  <2>3. ~plan.fallo => proceso'[e] = "vivo"
    BY <1>3, <2>1
  <2> QED BY <1>2, <1>3, <2>2, <2>3, VivoPaso
<1>5. ASSUME NEW r, Responder(e, r), r = "ABORTAR" \/ (fase[e] = "veredicto" /\ r = resp[e])
      PROVE  SinCaidas' /\ GetPropio' /\ EnMarcha' /\ NoOcioso'
  <2>1. CASE proceso[e] = "vivo"
    <3>1. /\ fase' = [fase EXCEPT ![e] = "respuesta"] /\ resp' = [resp EXCEPT ![e] = r]
          /\ proceso' = [proceso EXCEPT ![e] = IF r = "ABORTAR" THEN "cerrado" ELSE "vivo"]
      BY <1>5, <2>1 DEF Responder
    <3>2. /\ fase'[e] = "respuesta" /\ resp'[e] = r
          /\ proceso'[e] = IF r = "ABORTAR" THEN "cerrado" ELSE "vivo"
          /\ \A f \in ESIs : f # e => fase'[f] = fase[f] /\ resp'[f] = resp[f] /\ proceso'[f] = proceso[f]
      BY <1>1, <3>1
    <3>3. ~plan.fallo /\ r = "CLAVE_BLOQUEADA" => plan.get_pid = e
      BY <1>5 DEF GetPropio
    <3> QED BY <1>2, <1>3, <3>2, <3>3, VivoPaso
  <2>2. CASE proceso[e] # "vivo"
    <3>1. /\ fase' = [fase EXCEPT ![e] = "espera"] /\ resp' = [resp EXCEPT ![e] = "nada"]
          /\ proceso' = proceso
      BY <1>5, <2>2 DEF Responder
    <3>2. plan.fallo
      BY <1>3, <2>2
    <3>3. proceso'[e] # "reset"
          /\ \A f \in ESIs : f # e => fase'[f] = fase[f] /\ resp'[f] = resp[f] /\ proceso'[f] = proceso[f]
      BY <1>1, <3>1 DEF SinCaidas
    <3> QED BY <1>2, <3>2, <3>3, VivoPaso
  <2> QED BY <2>1, <2>2
<1>6. CASE RechazarSentencia(e) \/ EliminarClave(e) \/ ProseguirOperacion(e)
  BY <1>5, <1>6 DEF RechazarSentencia, EliminarClave, ProseguirOperacion
<1> QED BY <1>4, <1>6 DEF Coordinador

LEMMA VivoNuevo ==
  ASSUME IVivo, NEW e \in ESIs, LlegarEsi(e)
  PROVE  SinCaidas' /\ GetPropio' /\ EnMarcha' /\ NoOcioso'
<1> USE DEF IVivo
<1>1. /\ ~plan.fallo /\ plan \in Memoria /\ fase[e] = "afuera"
      /\ resp' = resp /\ proceso' = proceso
      /\ fase'[e] = "espera" /\ \A f \in ESIs : f # e => fase'[f] = fase[f]
  BY DEF LlegarEsi, IInv, TypeOK
<1>2. plan.exec # e
  BY <1>1, PidsDistintos DEF IInv, AfueraNoEsta, Presentes
<1>3. /\ Encarga(plan, plan') /\ Ocupado(plan')
      /\ plan'.terminados = plan.terminados /\ plan'.get_pid = plan.get_pid
  BY <1>1, NuevoEncarga DEF LlegarEsi
<1>4. SinCaidas'
  BY <1>1, <1>3 DEF SinCaidas
<1>5. GetPropio'
  BY <1>1, <1>3 DEF GetPropio
<1>6. EnMarcha'
  BY <1>1, <1>2, <1>3, PidsDistintos DEF EnMarcha, Encarga
<1>7. NoOcioso'
  BY <1>3 DEF NoOcioso, Ocupado
<1> QED BY <1>4, <1>5, <1>6, <1>7

\* Nothing is on its way but what the running ESI has sent.
LEMMA SoloDelActual ==
  ASSUME IVivo, ~plan.fallo, NEW e \in ESIs, fase[e] \notin {"afuera", "espera"}
  PROVE  e \notin plan.terminados /\ Conectado(e) /\ plan.exec = e
<1>1. e \notin plan.terminados
  BY DEF IVivo, SinCaidas
<1> QED BY <1>1 DEF IVivo, IInv, UnoEnEjecucion, Conectado

LEMMA VivoMensaje ==
  ASSUME IVivo, NEW e \in ESIs, RecibirMensajeEsi(e)
  PROVE  SinCaidas' /\ GetPropio' /\ EnMarcha' /\ NoOcioso'
<1> USE DEF IVivo
<1>1. /\ ~plan.fallo /\ plan \in Memoria /\ fase[e] = "respuesta" /\ proceso' = proceso
      /\ fase'[e] = "espera" /\ resp'[e] = "nada"
      /\ \A f \in ESIs : f # e => fase'[f] = fase[f] /\ resp'[f] = resp[f]
  BY DEF RecibirMensajeEsi, IInv, TypeOK
<1>2. e \notin plan.terminados /\ plan.exec = e
  BY <1>1, SoloDelActual
<1>3. ASSUME NEW f \in ESIs, f # e PROVE fase[f] \in {"afuera", "espera"}
  BY <1>1, <1>2, <1>3, SoloDelActual
<1>4. plan.get_pid = e \/ resp[e] # "CLAVE_BLOQUEADA"
  BY <1>1 DEF GetPropio
<1>5. /\ Ocupado(plan')
      /\ plan'.terminados \subseteq plan.terminados \cup {e}
      /\ plan'.fallo \/ plan'.exec = Nadie \/ plan'.exec \in plan'.orden
      /\ resp[e] \in {"LISTO", "ABORTAR"} => plan'.fallo \/ e \in plan'.terminados
  BY <1>1, <1>2, <1>4, MensajeEncarga DEF RecibirMensajeEsi
<1>6. plan.terminados \subseteq plan'.terminados
  BY <1>1, MensajeDeEsi DEF RecibirMensajeEsi, Deriva
<1>7. SinCaidas'
  <2>1. \A f \in ESIs : proceso'[f] # "reset"
    BY <1>1 DEF SinCaidas
  <2>2. ASSUME ~plan'.fallo, NEW f \in ESIs, proceso'[f] = "cerrado"
        PROVE  f \in plan'.terminados
    BY <1>1, <1>2, <1>3, <1>5, <1>6, <2>2 DEF SinCaidas
  <2>3. ASSUME ~plan'.fallo, NEW f \in ESIs, f \in plan'.terminados
        PROVE  fase'[f] = "espera"
    BY <1>1, <1>5, <2>3 DEF SinCaidas
  <2> QED BY <2>1, <2>2, <2>3 DEF SinCaidas
<1>8. GetPropio'
  BY <1>1, <1>3 DEF GetPropio
<1>9. EnMarcha'
  BY <1>5, PidsDistintos DEF EnMarcha
<1>10. NoOcioso'
  BY <1>5 DEF NoOcioso, Ocupado
<1> QED BY <1>7, <1>8, <1>9, <1>10

LEMMA VivoConsulta ==
  ASSUME IVivo, NEW e \in ESIs, RecibirConsulta(e)
  PROVE  SinCaidas' /\ GetPropio' /\ EnMarcha' /\ NoOcioso'
<1> USE DEF IVivo
<1>1. /\ ~plan.fallo /\ plan \in Memoria /\ fase[e] = "consulta" /\ proceso' = proceso
      /\ linea[e].clave \in Claves
      /\ fase'[e] = "veredicto"
      /\ resp'[e] = veredicto(plan, e, linea[e].op, linea[e].clave)
      /\ \A f \in ESIs : f # e => fase'[f] = fase[f] /\ resp'[f] = resp[f]
  BY DEF RecibirConsulta, IInv, TypeOK, LineaLeida
<1>2. e \notin plan.terminados /\ plan.exec = e
  BY <1>1, SoloDelActual
<1>3. ASSUME NEW f \in ESIs, f # e PROVE fase[f] \in {"afuera", "espera"}
  BY <1>1, <1>2, <1>3, SoloDelActual
<1>4. /\ plan'.pausado = plan.pausado /\ plan'.exec = plan.exec /\ plan'.orden = plan.orden
      /\ plan'.terminados = plan.terminados /\ plan'.listos = plan.listos
      /\ plan'.fallo = plan.fallo
      /\ resp'[e] = "CLAVE_BLOQUEADA" => plan'.get_pid = e
  BY <1>1, ConsultaQuieta DEF RecibirConsulta
<1>5. SinCaidas'
  BY <1>1, <1>2, <1>4 DEF SinCaidas
<1>6. GetPropio'
  BY <1>1, <1>3, <1>4 DEF GetPropio
<1>7. EnMarcha'
  BY <1>1, <1>2, <1>4 DEF EnMarcha
<1>8. NoOcioso'
  BY <1>4 DEF NoOcioso
<1> QED BY <1>5, <1>6, <1>7, <1>8

LEMMA VivoConsola ==
  ASSUME IVivo, Consola
  PROVE  SinCaidas' /\ GetPropio' /\ EnMarcha' /\ NoOcioso'
<1> USE DEF IVivo
<1>1. ~plan.fallo /\ plan \in Memoria /\ Ocupado(plan)
  BY DEF Consola, ConsolaPausar, ConsolaContinuar, ConsolaDesbloquear, ConsolaBloquear,
         ConsolaMatar, Comando, IInv, TypeOK, NoOcioso, Ocupado
<1>2. fase' = fase /\ resp' = resp /\ proceso' = proceso
  BY DEF Consola, ConsolaPausar, ConsolaContinuar, ConsolaDesbloquear, ConsolaBloquear,
         ConsolaMatar
<1>3. /\ Encarga(plan, plan') /\ Ocupado(plan') /\ plan'.get_pid = plan.get_pid
      /\ \A f \in ESIs : f \in plan'.terminados =>
            f \in plan.terminados \/ (f # plan.exec /\ EnSistema(plan, f))
  <2>1. CASE ConsolaPausar
    <3>1. plan' = [plan EXCEPT !.pausado = TRUE]
      BY <2>1 DEF ConsolaPausar, consola_pausar
    <3> QED BY <1>1, <3>1 DEF Memoria, Encarga, Ocupado
  <2>2. CASE ConsolaContinuar
    BY <1>1, <2>2, ConsolaEncarga DEF ConsolaContinuar
  <2>3. ASSUME NEW k \in Claves, ConsolaDesbloquear(k)
        PROVE  /\ Encarga(plan, plan') /\ Ocupado(plan') /\ plan'.get_pid = plan.get_pid
               /\ plan'.terminados = plan.terminados
    BY <1>1, <2>3, ConsolaEncarga DEF ConsolaDesbloquear
  <2>4. ASSUME NEW k \in Claves, NEW e \in ESIs, ConsolaBloquear(k, e)
        PROVE  /\ Encarga(plan, plan') /\ Ocupado(plan') /\ plan'.get_pid = plan.get_pid
               /\ plan'.terminados = plan.terminados
    BY <1>1, <2>4, BloquearConsola DEF ConsolaBloquear, Encarga, Ocupado
  <2>5. ASSUME NEW e \in ESIs, ConsolaMatar(e)
        PROVE  /\ Encarga(plan, plan') /\ Ocupado(plan') /\ plan'.get_pid = plan.get_pid
               /\ plan'.terminados \subseteq plan.terminados \cup ({e} \ {plan.exec})
               /\ ~EnSistema(plan, e) => plan'.terminados = plan.terminados
    BY <1>1, <2>5, ConsolaEncarga DEF ConsolaMatar
  <2> QED BY <2>1, <2>2, <2>3, <2>4, <2>5 DEF Consola
<1>4. SinCaidas'
  <2>1. ASSUME ~plan'.fallo, NEW f \in ESIs, f \in plan'.terminados
        PROVE  fase'[f] = "espera"
    <3>1. CASE f \in plan.terminados
      BY <1>1, <1>2, <3>1 DEF SinCaidas
    <3>2. CASE f \notin plan.terminados /\ f # plan.exec /\ EnSistema(plan, f)
      <4>1. fase[f] # "afuera"
        BY <1>1, <3>2, PidsDistintos DEF IInv, AfueraNoEsta, Presentes, EnSistema
      <4> QED BY <1>1, <1>2, <3>2, <4>1, SoloDelActual
    <3> QED BY <1>3, <2>1, <3>1, <3>2
  <2>2. plan.terminados \subseteq plan'.terminados
    BY ConsolaDeriva DEF IInv, Deriva
  <2> QED BY <1>1, <1>2, <2>1, <2>2 DEF SinCaidas
<1>5. GetPropio'
  BY <1>1, <1>2, <1>3 DEF GetPropio
<1>6. EnMarcha'
  BY <1>1, <1>2, <1>3, PidsDistintos DEF EnMarcha, Encarga
<1>7. NoOcioso'
  BY <1>3 DEF NoOcioso, Ocupado
<1> QED BY <1>4, <1>5, <1>6, <1>7

LEMMA ConservaVivo ==
  ASSUME PuedenCaer = {}, IVivo, [Next]_vars
  PROVE  IVivo'
<1>1. IInv'
  BY ConservaInv DEF IVivo
<1>2. ASSUME NEW e \in ESIs, Caer(e) PROVE FALSE
  BY <1>2 DEF Caer
<1>3. ASSUME NEW e \in ESIs, RecibirDesconexion(e) \/ RecibirReset(e) PROVE FALSE
  BY <1>3 DEF RecibirDesconexion, RecibirReset, Conectado, IVivo, SinCaidas
<1>4. CASE UNCHANGED vars
  BY <1>1, <1>4 DEF vars, IVivo, SinCaidas, GetPropio, EnMarcha, NoOcioso
<1>5. CASE Next
  <2>1. SinCaidas' /\ GetPropio' /\ EnMarcha' /\ NoOcioso'
    BY <1>2, <1>3, <1>5, VivoNuevo, VivoEsi, VivoCoordinador, VivoMensaje, VivoConsulta,
       VivoConsola
    DEF Next, Atender
  <2> QED BY <1>1, <2>1 DEF IVivo
<1> QED BY <1>4, <1>5

\* When no ESI dies on its own, whatever the operator kills, blocks or pauses:
\* every handler that takes the running ESI away gives the processor to a ready
\* one.
THEOREM NuncaOcioso == ASSUME PuedenCaer = {} PROVE Spec => []NoOcioso
<1>1. IVivo /\ [Next]_vars => IVivo'
  BY ConservaVivo
<1>2. IVivo => NoOcioso
  BY DEF IVivo
<1> QED BY <1>1, <1>2, InicioVivo, PTL DEF Spec

\* When no ESI dies on its own, the running ESI always has an order to read or a
\* statement under way: the two sides never wait for each other.
THEOREM SiempreEnMarcha == ASSUME PuedenCaer = {} PROVE Spec => []EnMarcha
<1>1. IVivo /\ [Next]_vars => IVivo'
  BY ConservaVivo
<1>2. IVivo => EnMarcha
  BY DEF IVivo
<1> QED BY <1>1, <1>2, InicioVivo, PTL DEF Spec
-------------------------------------------------------------------------------
(***************************************************************************)
(* The repetition of a blocked GET, whoever dies.                          *)
(***************************************************************************)
\* An ESI reports the end of its script only when it has nothing to repeat, and
\* from then on it is not told to repeat anything.
Guiones ==
  \A e \in ESIs :
    /\ ~eof[e]
    /\ fase[e] = "veredicto" => resp[e] # "LISTO"
    /\ fase[e] = "respuesta" /\ resp[e] = "LISTO" => ~plan.pcb[e].repetir
    /\ fin[e] = "listo" => e \in plan.terminados /\ ~plan.pcb[e].repetir

\* The handlers of the Planificador that do not read a result.
LEMMA GuionesQuietos ==
  ASSUME Guiones, UNCHANGED <<fase, resp, eof>>,
         plan.terminados \subseteq plan'.terminados,
         \A e \in ESIs : plan'.pcb[e].repetir => plan.pcb[e].repetir,
         \A e \in ESIs : fin'[e] # fin[e] => fin'[e] # "listo"
  PROVE  Guiones'
  BY DEF Guiones

LEMMA ConservaGuiones ==
  ASSUME TRUE \notin FinDeArchivo, IInv, Guiones, [Next]_vars
  PROVE  Guiones'
<1>0. /\ plan \in Memoria /\ fase \in [ESIs -> Fases]
      /\ resp \in [ESIs -> Resultados \cup {"nada"}] /\ eof \in [ESIs -> BOOLEAN]
      /\ FinDeArchivo \subseteq {FALSE}
  BY EntornoBienFormado DEF IInv, TypeOK
<1>1. ASSUME NEW e \in ESIs, LlegarEsi(e) PROVE Guiones'
  <2>1. /\ resp' = resp /\ eof' = eof /\ fin' = fin
        /\ fase'[e] = "espera" /\ \A f \in ESIs : f # e => fase'[f] = fase[f]
        /\ plan' \in atender_nuevo_esi(plan, e)
        /\ ~plan.fallo /\ fase[e] = "afuera"
    BY <1>0, <1>1 DEF LlegarEsi, entorno
  <2>2. e \notin plan.orden /\ plan.exec # e
    BY <2>1, PidsDistintos DEF IInv, AfueraNoEsta, Presentes
  <2>3. /\ plan.terminados \subseteq plan'.terminados
        /\ \A x \in ESIs : plan'.pcb[x].repetir => plan.pcb[x].repetir
    BY <1>0, <2>1, <2>2, AtenderNuevoEsi
  <2> QED BY <2>1, <2>3 DEF Guiones
<1>2. ASSUME NEW e \in ESIs, Esi(e) PROVE Guiones'
  <2>1. /\ plan' = [plan EXCEPT !.orden = plan.orden \ {e}] /\ fin' = fin
        /\ eof' = eof \/ eof' = [eof EXCEPT ![e] = FALSE]
        /\ \/ fase' = [fase EXCEPT ![e] = "sentencia"] /\ resp' = resp
           \/ /\ fase' = [fase EXCEPT ![e] = "respuesta"]
              /\ resp' = [resp EXCEPT ![e] = "ABORTAR"]
           \/ /\ fase' = [fase EXCEPT ![e] = "respuesta"]
              /\ resp' = [resp EXCEPT ![e] = "LISTO"]
              /\ eof[e] \/ ~plan.pcb[e].repetir
    BY <1>0, <1>2
    DEF Esi, LeerLinea, RepetirLinea, FinDelScript, LineaInvalida, Terminar, Enviar, TomaOrden,
        entorno
  <2>2. plan'.terminados = plan.terminados /\ plan'.pcb = plan.pcb
    BY <1>0, <2>1 DEF Memoria
  <2> QED BY <1>0, <2>1, <2>2 DEF Guiones
<1>3. ASSUME NEW e \in ESIs, Coordinador(e) PROVE Guiones'
  <2>1. plan' = plan /\ eof' = eof /\ fin' = fin /\ fase[e] # "respuesta"
    BY <1>3
    DEF Coordinador, RechazarSentencia, EliminarClave, ConsultarPlanificador,
        ProseguirOperacion, Responder, entorno
  <2>2. \/ fase' = [fase EXCEPT ![e] = "consulta"] /\ resp' = resp
        \/ fase' = [fase EXCEPT ![e] = "espera"] /\ resp' = [resp EXCEPT ![e] = "nada"]
        \/ \E r : /\ fase' = [fase EXCEPT ![e] = "respuesta"]
                  /\ resp' = [resp EXCEPT ![e] = r] /\ r # "LISTO"
    BY <1>3
    DEF Coordinador, RechazarSentencia, EliminarClave, ConsultarPlanificador,
        ProseguirOperacion, Responder, Guiones
  <2> QED BY <1>0, <2>1, <2>2 DEF Guiones
<1>4. ASSUME NEW e \in ESIs, RecibirConsulta(e) PROVE Guiones'
  <2>1. /\ eof' = eof /\ fin' = fin /\ linea[e].clave \in Claves
        /\ fase' = [fase EXCEPT ![e] = "veredicto"]
        /\ resp' = [resp EXCEPT ![e] = veredicto(plan, e, linea[e].op, linea[e].clave)]
        /\ plan' = recibir_mensaje_coordinador(plan, e, linea[e].op, linea[e].clave)
    BY <1>4 DEF RecibirConsulta, entorno, IInv, LineaLeida
  <2>2. veredicto(plan, e, linea[e].op, linea[e].clave) # "LISTO"
    BY DEF veredicto
  <2>3. /\ plan.terminados \subseteq plan'.terminados
        /\ \A x \in ESIs : plan'.pcb[x].repetir => plan.pcb[x].repetir
    BY <1>0, <2>1, MensajeDelCoordinador DEF Deriva
  <2> QED BY <1>0, <2>1, <2>2, <2>3 DEF Guiones
<1>5. ASSUME NEW e \in ESIs, RecibirMensajeEsi(e) PROVE Guiones'
  <2>1. /\ ~plan.fallo /\ e \notin plan.terminados /\ fase[e] = "respuesta" /\ plan.exec = e
        /\ eof' = eof
        /\ fase'[e] = "espera" /\ \A f \in ESIs : f # e => fase'[f] = fase[f] /\ resp'[f] = resp[f]
        /\ plan' \in recibir_mensaje_esi(plan, e, resp[e])
    BY <1>0, <1>5 DEF RecibirMensajeEsi, entorno, Conectado, IInv, UnoEnEjecucion
  <2>2. /\ plan.terminados \subseteq plan'.terminados
        /\ \A f \in ESIs : f # e \/ resp[e] = "LISTO" =>
             (plan'.pcb[f].repetir => plan.pcb[f].repetir)
    BY <1>0, <2>1, MensajeDeEsi DEF Deriva, Repiten
  <2>3. plan'.terminados \subseteq plan.terminados \cup {e}
    BY <1>0, <2>1, MensajeEncarga
  <2>4. ASSUME NEW f \in ESIs, fin'[f] = "listo"
        PROVE  f \in plan'.terminados /\ ~plan'.pcb[f].repetir
    <3>1. CASE f \in plan'.terminados \ plan.terminados
      <4>1. f = e /\ resp[e] = "LISTO"
        BY <1>5, <2>3, <2>4, <3>1 DEF RecibirMensajeEsi, Anotar
      <4> QED BY <2>1, <2>2, <3>1, <4>1 DEF Guiones
    <3>2. CASE f \notin plan'.terminados \ plan.terminados
      <4>1. fin[f] = "listo"
        BY <1>5, <2>4, <3>2 DEF RecibirMensajeEsi, Anotar
      <4> QED BY <2>1, <2>2, <4>1 DEF Guiones
    <3> QED BY <3>1, <3>2
  <2> QED BY <2>1, <2>2, <2>4 DEF Guiones
<1>6. ASSUME NEW e \in ESIs, RecibirDesconexion(e) \/ RecibirReset(e) PROVE Guiones'
  <2>1. Deriva(plan, plan', {})
    <3>1. CASE RecibirDesconexion(e)
      BY <1>0, <3>1, DesconexionDeEsi DEF RecibirDesconexion
    <3>2. CASE RecibirReset(e)
      <4>1. FALSE \in BOOLEAN
        OBVIOUS
      <4> QED BY <1>0, <3>2, <4>1, FinalizarEsi DEF RecibirReset, recibir_error_esi
    <3> QED BY <1>6, <3>1, <3>2
  <2>2. UNCHANGED <<fase, resp, eof>> /\ \A f \in ESIs : fin'[f] # fin[f] => fin'[f] # "listo"
    BY <1>6 DEF RecibirDesconexion, RecibirReset, entorno, Anotar
  <2> QED BY <2>1, <2>2, GuionesQuietos DEF Deriva
<1>7. ASSUME NEW e \in ESIs, Caer(e) PROVE Guiones'
  BY <1>7 DEF Caer, entorno, Guiones
<1>8. CASE Consola
  <2>1. UNCHANGED <<fase, resp, eof>> /\ \A f \in ESIs : fin'[f] # fin[f] => fin'[f] # "listo"
    BY <1>8 DEF Consola, ConsolaPausar, ConsolaContinuar, ConsolaDesbloquear, ConsolaBloquear,
                ConsolaMatar, entorno, Anotar
  <2> QED BY <1>8, <2>1, ConsolaDeriva, GuionesQuietos DEF Deriva
<1>9. CASE UNCHANGED vars
  BY <1>9 DEF vars, entorno, Guiones
<1> QED BY <1>1, <1>2, <1>3, <1>4, <1>5, <1>6, <1>7, <1>8, <1>9 DEF Next, Atender

\* When the last line of every script ends in a newline: an ESI that was told to run
\* its last sentence again does so before it ends, whoever dies and whatever the
\* operator types.
THEOREM RepiteLoBloqueado ==
  ASSUME TRUE \notin FinDeArchivo PROVE Spec => []RepiteAntesDeTerminar
<1>1. Init => IInv /\ Guiones
  <2>1. Init => Guiones
    BY DEF Init, Guiones
  <2> QED BY <2>1, Inicio
<1>2. IInv /\ Guiones /\ [Next]_vars => (IInv /\ Guiones)'
  BY ConservaInv, ConservaGuiones
<1>3. Guiones => RepiteAntesDeTerminar
  BY DEF Guiones, RepiteAntesDeTerminar
<1> QED BY <1>1, <1>2, <1>3, PTL DEF Spec
================================================================================
