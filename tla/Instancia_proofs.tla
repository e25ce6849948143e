---------------------------- MODULE Instancia_proofs ----------------------------
(***************************************************************************)
(* Proofs about Instancia, for any table, any values and any length of the *)
(* run: its types, that the entries of a key stay together, that the       *)
(* process does not fail while every value takes one entry, that a SET     *)
(* leaves what it was given and how much it may harm, and what compaction  *)
(* and recovery keep.                                                      *)
(*                                                                         *)
(* The functions of the code that loop are recursive functions here.       *)
(* Minimo, Induccion, Recursion and Unica, proved from the library's       *)
(* well-founded order of the finite sets, give them their values.          *)
(***************************************************************************)
EXTENDS Instancia, FiniteSetTheorems, TLAPS

(***************************************************************************)
(* Numbers and recursion.                                                  *)
(***************************************************************************)
\* A set of natural numbers has a least one: the library's well-founded order of the
\* finite sets of numbers says so of the intervals 0..x.
LEMMA Minimo ==
  ASSUME NEW S \in SUBSET Nat, S # {}
  PROVE  \E x \in S : \A y \in S : x <= y
<1> DEFINE U == {0..x : x \in S}
           R == StrictSubsetOrdering(Nat)
<1>1. IsWellFoundedOn(R, FiniteSubsetsOf(Nat))
  BY FS_StrictSubsetOrderingWellFounded
<1>2. U \subseteq FiniteSubsetsOf(Nat) /\ U # {}
  <2>1. \A x \in S : 0..x \in SUBSET Nat /\ IsFiniteSet(0..x)
    BY FS_Interval
  <2> QED BY <2>1 DEF FiniteSubsetsOf
<1> HIDE DEF R
<1>3. PICK u \in U : \A w \in U : ~(<<w, u>> \in R)
  BY <1>1, <1>2, WFMin
<1>4. PICK x \in S : u = 0..x
  OBVIOUS
<1>5. ASSUME NEW y \in S, y < x PROVE FALSE
  <2>1. 0..y \in SUBSET Nat /\ 0..x \in SUBSET Nat /\ 0..y \subseteq 0..x /\ x \in 0..x /\ x \notin 0..y
    BY <1>5
  <2>2. <<0..y, 0..x>> \in StrictSubsetOrdering(Nat)
    BY <2>1 DEF StrictSubsetOrdering
  <2> QED BY <1>3, <1>4, <2>2 DEF R
<1> QED BY <1>5

\* Induction up to n: what 0 has, and each number passes to the next, all have.
LEMMA Induccion ==
  ASSUME NEW n \in Nat, NEW P, 0 \in P, \A i \in 0..(n - 1) : i \in P => i + 1 \in P
  PROVE  0..n \subseteq P
<1> SUFFICES ASSUME (0..n) \ P # {} PROVE FALSE
  OBVIOUS
<1> DEFINE Q == (0..n) \ P
<1>1. Q \in SUBSET Nat /\ Q # {}
  OBVIOUS
<1>2. PICK x \in Q : \A y \in Q : x <= y
  <2> HIDE DEF Q
  <2> QED BY <1>1, Minimo
<1>3. x # 0 /\ x - 1 \in 0..(n - 1)
  OBVIOUS
<1>4. x - 1 \notin Q
  BY <1>2, <1>3
<1> QED BY <1>3, <1>4

Pasos(g, n, S) == g \in [1..n -> [S -> S]]
Itera(f, n, S, b, g) == f \in [0..n -> S] /\ f[0] = b /\ \A j \in 1..n : f[j] = g[j][f[j - 1]]

\* A recursive definition over 0..n has a solution: base b, step g[j] from j - 1 to j.
LEMMA Recursion ==
  ASSUME NEW n \in Nat, NEW S, NEW b \in S, NEW g, Pasos(g, n, S)
  PROVE  \E f : Itera(f, n, S, b, g)
<1> DEFINE P == {i \in 0..n : \E f : Itera(f, i, S, b, g)}
<1>1. 0 \in P
  <2> DEFINE z == [j \in 0..0 |-> b]
  <2>1. Itera(z, 0, S, b, g)
    BY DEF Itera
  <2> HIDE DEF z
  <2> QED BY <2>1
<1>2. ASSUME NEW i \in 0..(n - 1), i \in P PROVE i + 1 \in P
  <2>1. PICK f : Itera(f, i, S, b, g)
    BY <1>2
  <2> DEFINE h == [j \in 0..(i + 1) |-> IF j <= i THEN f[j] ELSE g[i + 1][f[i]]]
  <2>2. f[i] \in S /\ g[i + 1] \in [S -> S]
    BY <2>1 DEF Itera, Pasos
  <2>3. h \in [0..(i + 1) -> S] /\ h[0] = b
    BY <2>1, <2>2 DEF Itera
  <2>4. ASSUME NEW j \in 1..(i + 1) PROVE h[j] = g[j][h[j - 1]]
    <3>1. CASE j <= i
      <4>1. h[j] = f[j] /\ h[j - 1] = f[j - 1]
        BY <3>1
      <4> QED BY <2>1, <3>1, <4>1 DEF Itera
    <3>2. CASE j = i + 1
      BY <3>2
    <3> QED BY <3>1, <3>2
  <2> HIDE DEF h
  <2>5. Itera(h, i + 1, S, b, g) /\ i + 1 \in 0..n
    BY <2>3, <2>4 DEF Itera
  <2> QED BY <2>5
<1> HIDE DEF P
<1>3. 0..n \subseteq P
  BY <1>1, <1>2, Induccion
<1> QED BY <1>3 DEF P

\* f and h start together and take the same steps.
Paralelas(f, h, n) ==
  /\ f = [i \in 0..n |-> f[i]] /\ h = [i \in 0..n |-> h[i]]
  /\ f[0] = h[0]
  /\ \A i \in 1..n : f[i - 1] = h[i - 1] => f[i] = h[i]

\* It has only one.
LEMMA Unica ==
  ASSUME NEW n \in Nat, NEW f, NEW h, Paralelas(f, h, n)
  PROVE  f = h
<1> DEFINE P == {i \in 0..n : f[i] = h[i]}
<1>1. 0 \in P
  BY DEF Paralelas
<1>2. ASSUME NEW i \in 0..(n - 1), i \in P PROVE i + 1 \in P
  <2>1. i + 1 \in 1..n /\ (i + 1) - 1 = i /\ i + 1 \in 0..n
    OBVIOUS
  <2>2. f[i] = h[i]
    BY <1>2
  <2>3. f[i + 1] = h[i + 1]
    BY <2>1, <2>2 DEF Paralelas
  <2> QED BY <2>1, <2>3
<1> HIDE DEF P
<1>3. 0..n \subseteq P
  BY <1>1, <1>2, Induccion
<1>4. \A i \in 0..n : f[i] = h[i]
  BY <1>3 DEF P
<1> QED BY <1>4 DEF Paralelas

\* Products by T.
LEMMA Producto ==
  ASSUME NEW a \in Int, NEW b \in Int
  PROVE  /\ a * T \in Int /\ (a + b) * T = a * T + b * T /\ (a - b) * T = a * T - b * T
         /\ a <= b => a * T <= b * T
         /\ a < b => a * T + T <= b * T
         /\ a * T < b * T => a < b
         /\ a * T <= b * T => a <= b
<1>1. T \in Nat /\ T >= 1
  BY TablaBienFormada
<1> QED BY <1>1

\* cantidadDeEntradasRequeridasParaValor() rounds up.
LEMMA Requeridas ==
  ASSUME NEW L \in Nat
  PROVE  /\ cantidadDeEntradasRequeridasParaValor(L) \in Nat
         /\ L <= cantidadDeEntradasRequeridasParaValor(L) * T
         /\ cantidadDeEntradasRequeridasParaValor(L) * T < L + T
<1>1. T \in Nat /\ T >= 1
  BY TablaBienFormada
<1>2. \A x \in Nat : x \div T \in Nat /\ (x \div T) * T <= x /\ x < (x \div T) * T + T
  BY <1>1
<1> QED BY <1>1, <1>2 DEF cantidadDeEntradasRequeridasParaValor

\* A set of entries has a least and a greatest one.
LEMMA MinimoMaximo ==
  ASSUME NEW S \in SUBSET Entradas, S # {}
  PROVE  /\ Min(S) \in S /\ \A x \in S : Min(S) <= x
         /\ Max(S) \in S /\ \A x \in S : x <= Max(S)
<1>1. N \in Nat /\ \A x \in S : x \in Nat /\ x < N
  BY TablaBienFormada DEF Entradas
<1>2. \E x \in S : \A y \in S : x <= y
  <2>1. S \in SUBSET Nat
    BY <1>1
  <2> QED BY <2>1, Minimo
<1>3. \E x \in S : \A y \in S : x >= y
  <2> DEFINE R == {N - x : x \in S}
  <2>1. R \in SUBSET Nat /\ R # {}
    BY <1>1
  <2>2. PICK z \in R : \A w \in R : z <= w
    <3> HIDE DEF R
    <3> QED BY <2>1, Minimo
  <2>3. PICK x \in S : z = N - x
    BY <2>2
  <2>4. ASSUME NEW y \in S PROVE x >= y
    <3>1. N - y \in R
      OBVIOUS
    <3> QED BY <1>1, <2>2, <2>3, <3>1
  <2> QED BY <2>4
<1> QED BY <1>1, <1>2, <1>3 DEF Min, Max

(***************************************************************************)
(* Bytes.                                                                  *)
(***************************************************************************)
LEMMA Copiar ==
  ASSUME NEW b \in [Direcciones -> Byte], NEW d \in Nat, NEW s \in Seq(Byte)
  PROVE  /\ memcpy(b, d, s) \in [Direcciones -> Byte]
         /\ strcpy(b, d, s) \in [Direcciones -> Byte]
         /\ \A L \in Nat : memset(b, d, L) \in [Direcciones -> Byte]
<1>1. \A z \in Seq(Byte) : memcpy(b, d, z) \in [Direcciones -> Byte]
  <2> TAKE z \in Seq(Byte)
  <2>1. \A x \in Direcciones : x \in d..(d + Len(z) - 1) => z[x - d + 1] \in Byte
    BY TablaBienFormada DEF Direcciones
  <2> QED BY <2>1 DEF memcpy
<1>2. NUL \in Byte
  BY DEF Byte
<1>3. Append(s, NUL) \in Seq(Byte)
  BY <1>2
<1> QED BY <1>1, <1>2, <1>3 DEF strcpy, memset

(***************************************************************************)
(* The table.                                                              *)
(***************************************************************************)
Asignada(m, A) == \A n \in Entradas : m.tabla[n] # Libre => m.tabla[n].clave \in A

\* Between two entries of a key all are of that key, and the first one is full.
Corrida(m) ==
  \A a, b \in Entradas :
    /\ a < b /\ m.tabla[a] # Libre /\ m.tabla[b] # Libre
    /\ m.tabla[a].clave = m.tabla[b].clave
    => /\ m.tabla[a].tam = T
       /\ \A x \in a..b : m.tabla[x] # Libre /\ m.tabla[x].clave = m.tabla[a].clave

Buena(m, A) == m \in Memoria /\ Asignada(m, A) /\ Corrida(m)

\* q is m without some entries: if a key keeps one, it keeps those after it, and it
\* keeps all of them unless free() overwrites the key of what it frees.
Poda(m, q) ==
  /\ q \in Memoria
  /\ q.bytes = m.bytes /\ q.activo = m.activo /\ q.contador = m.contador
  /\ q.resp = m.resp /\ q.fallo = m.fallo
  /\ \A x \in Entradas : q.tabla[x] = m.tabla[x] \/ q.tabla[x] = Libre
  /\ \A x, y \in Entradas :
       /\ x < y \/ ~pisa
       /\ q.tabla[x] # Libre /\ m.tabla[y] # Libre /\ m.tabla[y].clave = m.tabla[x].clave
       => q.tabla[y] # Libre

\* Taking entries away in that way does no harm.
LEMMA PodaBuena ==
  ASSUME NEW A, NEW m, Buena(m, A), NEW q, Poda(m, q)
  PROVE  Buena(q, A)
<1>1. Asignada(q, A)
  BY DEF Buena, Asignada, Poda
<1>2. Corrida(q)
  <2> SUFFICES ASSUME NEW a \in Entradas, NEW b \in Entradas, a < b,
                      q.tabla[a] # Libre, q.tabla[b] # Libre, q.tabla[a].clave = q.tabla[b].clave
               PROVE  /\ q.tabla[a].tam = T
                      /\ \A x \in a..b : q.tabla[x] # Libre /\ q.tabla[x].clave = q.tabla[a].clave
    BY DEF Corrida
  <2>1. /\ m.tabla[a].tam = T
        /\ \A x \in a..b : m.tabla[x] # Libre /\ m.tabla[x].clave = m.tabla[a].clave
    BY DEF Buena, Corrida, Poda
  <2>2. ASSUME NEW x \in a..b PROVE q.tabla[x] # Libre /\ q.tabla[x].clave = q.tabla[a].clave
    <3>1. x \in Entradas /\ (a < x \/ a = x)
      BY TablaBienFormada DEF Entradas
    <3> QED BY <2>1, <3>1 DEF Poda
  <2> QED BY <2>1, <2>2 DEF Poda
<1> QED BY <1>1, <1>2 DEF Buena, Poda

\* Neither does doing it twice.
LEMMA PodaTransitiva ==
  ASSUME NEW m, NEW q, NEW r, Poda(m, q), Poda(q, r)
  PROVE  Poda(m, r)
<1>1. ASSUME NEW x \in Entradas, NEW y \in Entradas, x < y \/ ~pisa,
             r.tabla[x] # Libre, m.tabla[y] # Libre, m.tabla[y].clave = m.tabla[x].clave
      PROVE  r.tabla[y] # Libre
  <2>1. q.tabla[x] # Libre /\ q.tabla[x] = m.tabla[x]
    BY <1>1 DEF Poda
  <2>2. q.tabla[y] # Libre /\ q.tabla[y] = m.tabla[y]
    BY <1>1, <2>1 DEF Poda
  <2> QED BY <1>1, <2>1, <2>2 DEF Poda
<1> QED BY <1>1 DEF Poda

\* Removing the key of entry n is such a step, whatever free() overwrites.
LEMMA EliminarPoda ==
  ASSUME NEW m \in Memoria, NEW n \in Entradas, m.tabla[n] # Libre
  PROVE  LET q == eliminarEntradasAsociadasAClave(m, n)
         IN  /\ Poda(m, q) /\ q.numero = m.numero /\ q.tabla[n] = Libre
             /\ \A x \in Entradas :
                  m.tabla[x] # Libre /\ m.tabla[x].clave # m.tabla[n].clave => q.tabla[x] = m.tabla[x]
<1> DEFINE q == eliminarEntradasAsociadasAClave(m, n)
           S == obtenerIndicesDeClave(m, m.tabla[n].clave)
           t == [x \in Entradas |-> IF x \in S /\ (pisa => x <= n) THEN Libre ELSE m.tabla[x]]
<1>1. q = [m EXCEPT !.tabla = t]
  BY DEF eliminarEntradasAsociadasAClave
<1>2. q.tabla = t
  BY <1>1 DEF Memoria
<1>3. \A x \in Entradas : x \in S <=> m.tabla[x] # Libre /\ m.tabla[x].clave = m.tabla[n].clave
  BY DEF obtenerIndicesDeClave
<1>4. n \in S /\ n <= n
  BY <1>3, TablaBienFormada DEF Entradas
<1> HIDE DEF q, S
<1>5. ASSUME NEW x \in Entradas, NEW y \in Entradas, x < y \/ ~pisa, t[x] # Libre,
             m.tabla[y] # Libre, m.tabla[y].clave = m.tabla[x].clave
      PROVE  t[y] # Libre
  BY <1>3, <1>5, TablaBienFormada DEF Entradas
<1>6. /\ q \in Memoria /\ q.numero = m.numero
      /\ q.bytes = m.bytes /\ q.activo = m.activo /\ q.contador = m.contador
      /\ q.resp = m.resp /\ q.fallo = m.fallo
  <2>1. t \in [Entradas -> Registros \cup {Libre}]
    BY DEF Memoria
  <2> HIDE DEF t
  <2> QED BY <1>1, <2>1 DEF Memoria
<1>7. Poda(m, q)
  BY <1>2, <1>5, <1>6 DEF Poda
<1> QED BY <1>2, <1>3, <1>4, <1>6, <1>7 DEF q

\* p is q with the free entries lo..hi given to k.
Coloca(q, p, k, lo, hi) ==
  /\ p \in Memoria
  /\ \A x \in lo..hi : /\ q.tabla[x] = Libre
                       /\ p.tabla[x] \in Registros /\ p.tabla[x].clave = k
                       /\ x < hi => p.tabla[x].tam = T
  /\ \A x \in Entradas : x \notin lo..hi => p.tabla[x] = q.tabla[x]

\* A key that had no entry gets a run of them.
LEMMA ColocarBuena ==
  ASSUME NEW A, NEW k \in A, NEW q, Buena(q, A), ~Guardada(q, k),
         NEW lo \in Entradas, NEW hi \in Entradas, NEW p, Coloca(q, p, k, lo, hi)
  PROVE  Buena(p, A)
<1>0. /\ p \in Memoria
      /\ \A x \in lo..hi : /\ q.tabla[x] = Libre
                           /\ p.tabla[x] \in Registros /\ p.tabla[x].clave = k
                           /\ x < hi => p.tabla[x].tam = T
      /\ \A x \in Entradas : x \notin lo..hi => p.tabla[x] = q.tabla[x]
  BY DEF Coloca
<1>1. \A x \in Entradas : q.tabla[x] # Libre => q.tabla[x].clave # k
  BY DEF Guardada, obtenerIndicesDeClave
<1>2. \A x \in lo..hi : x \in Entradas /\ p.tabla[x] # Libre
  BY <1>0, TablaBienFormada, CentinelasDistintos DEF Entradas
<1>3. Asignada(p, A)
  BY <1>0 DEF Buena, Asignada
<1>4. Corrida(p)
  <2> SUFFICES ASSUME NEW a \in Entradas, NEW b \in Entradas, a < b,
                      p.tabla[a] # Libre, p.tabla[b] # Libre, p.tabla[a].clave = p.tabla[b].clave
               PROVE  /\ p.tabla[a].tam = T
                      /\ \A x \in a..b : p.tabla[x] # Libre /\ p.tabla[x].clave = p.tabla[a].clave
    BY DEF Corrida
  <2>1. CASE a \in lo..hi
    <3>1. b \in lo..hi
      BY <1>0, <1>1, <2>1
    <3>2. \A x \in a..b : x \in lo..hi
      BY <2>1, <3>1 DEF Entradas
    <3>3. a < hi
      BY <2>1, <3>1 DEF Entradas
    <3> QED BY <1>0, <1>2, <2>1, <3>2, <3>3
  <2>2. CASE a \notin lo..hi
    <3>1. b \notin lo..hi
      BY <1>0, <1>1, <2>2
    <3>2. /\ q.tabla[a].tam = T
          /\ \A x \in a..b : q.tabla[x] # Libre /\ q.tabla[x].clave = q.tabla[a].clave
      BY <1>0, <2>2, <3>1 DEF Buena, Corrida
    <3>3. \A x \in a..b : x \in Entradas
      BY TablaBienFormada DEF Entradas
    <3>4. \A x \in a..b : x \notin lo..hi
      BY <1>0, <3>2
    <3> QED BY <1>0, <2>2, <3>2, <3>3, <3>4
  <2> QED BY <2>1, <2>2
<1> QED BY <1>0, <1>3, <1>4 DEF Buena

(***************************************************************************)
(* A value of one entry.                                                   *)
(***************************************************************************)
\* p is m with k at entry n, which the key that had it has lost.
PuestaEn(m, k, v, n, p) ==
  /\ p.numero = m.numero /\ p.activo = m.activo /\ p.contador = m.contador
  /\ p.fallo = m.fallo /\ p.resp = m.resp
  /\ p.tabla[n] = Registro(m, k, Len(v), TRUE)
  /\ p.bytes = memcpy(memset(m.bytes, n * T, cantidadDeEntradasRequeridasParaValor(Len(v)) * T),
                      n * T, v)
  /\ \A x \in Entradas \ {n} : p.tabla[x] = m.tabla[x] \/ p.tabla[x] = Libre
  /\ \A x \in Entradas \ {n} :
       p.tabla[x] = m.tabla[x] \/ (m.tabla[n] # Libre /\ m.tabla[x].clave = m.tabla[n].clave)
  /\ ~pisa /\ m.tabla[n] # Libre =>
       \A x \in Entradas \ {n} : m.tabla[x] # Libre /\ m.tabla[x].clave = m.tabla[n].clave
                                 => p.tabla[x] = Libre

\* What PonerAtomica does.
LEMMA PonerBuena ==
  ASSUME NEW A \in SUBSET Claves, NEW k \in A, NEW m, Buena(m, A), ~Guardada(m, k),
         NEW v \in Seq(Byte), Len(v) <= T, NEW n \in Entradas
  PROVE  LET p == PonerAtomica(m, k, v, n)
         IN  Buena(p, A) /\ PuestaEn(m, k, v, n, p)
<1> DEFINE q == IF m.tabla[n] = Libre THEN m ELSE eliminarEntradasAsociadasAClave(m, n)
           r == Registro(m, k, Len(v), TRUE)
           c == memcpy(memset(q.bytes, n * T, cantidadDeEntradasRequeridasParaValor(Len(v)) * T),
                       n * T, v)
           p == PonerAtomica(m, k, v, n)
<1>1. m \in Memoria /\ n \in Nat /\ T \in Nat /\ n * T \in Nat
  BY TablaBienFormada, Producto DEF Buena, Entradas
<1>2. /\ Buena(q, A) /\ q.tabla[n] = Libre
      /\ \A x \in Entradas : q.tabla[x] = m.tabla[x] \/ q.tabla[x] = Libre
      /\ q.numero = m.numero /\ q.bytes = m.bytes /\ q.activo = m.activo
      /\ q.contador = m.contador /\ q.resp = m.resp /\ q.fallo = m.fallo
      /\ \A x \in Entradas :
           q.tabla[x] = m.tabla[x] \/ (m.tabla[n] # Libre /\ m.tabla[x].clave = m.tabla[n].clave)
      /\ ~pisa /\ m.tabla[n] # Libre =>
           \A x \in Entradas : m.tabla[x] # Libre /\ m.tabla[x].clave = m.tabla[n].clave
                               => q.tabla[x] = Libre
  <2>1. CASE m.tabla[n] = Libre
    BY <2>1
  <2>2. CASE m.tabla[n] # Libre
    <3>1. q = eliminarEntradasAsociadasAClave(m, n)
      BY <2>2
    <3>2. /\ Poda(m, q) /\ q.tabla[n] = Libre /\ q.numero = m.numero
          /\ \A x \in Entradas :
               m.tabla[x] # Libre /\ m.tabla[x].clave # m.tabla[n].clave => q.tabla[x] = m.tabla[x]
      BY <1>1, <2>2, <3>1, EliminarPoda
    <3> HIDE DEF q
    <3>3. \A x \in Entradas : ~pisa /\ m.tabla[x] # Libre /\ m.tabla[x].clave = m.tabla[n].clave
                              => q.tabla[x] = Libre
      BY <2>2, <3>2 DEF Poda
    <3>4. \A x \in Entradas : m.tabla[x] = Libre => q.tabla[x] = m.tabla[x]
      BY <3>2 DEF Poda
    <3>5. Buena(q, A)
      BY <3>2, PodaBuena
    <3> QED BY <2>2, <3>2, <3>3, <3>4, <3>5 DEF Poda
  <2> QED BY <2>1, <2>2
<1>3. p = [q EXCEPT !.tabla[n] = r, !.bytes = c]
  BY DEF PonerAtomica
<1> HIDE DEF q, p
<1>4. q \in Memoria /\ ~Guardada(q, k)
  BY <1>2 DEF Buena, Guardada, obtenerIndicesDeClave
<1>5. c \in [Direcciones -> Byte]
        /\ c = memcpy(memset(m.bytes, n * T, cantidadDeEntradasRequeridasParaValor(Len(v)) * T),
                      n * T, v)
  <2>1. cantidadDeEntradasRequeridasParaValor(Len(v)) * T \in Nat
    <3>1. Len(v) \in Nat
      OBVIOUS
    <3> DEFINE c0 == cantidadDeEntradasRequeridasParaValor(Len(v))
    <3>2. c0 \in Nat /\ c0 * T >= Len(v)
      BY <3>1, Requeridas
    <3> HIDE DEF c0
    <3>3. c0 * T \in Int
      BY <3>2, Producto
    <3> QED BY <3>1, <3>2, <3>3 DEF c0
  <2>2. q.bytes \in [Direcciones -> Byte]
    BY <1>4 DEF Memoria
  <2>3. memset(q.bytes, n * T, cantidadDeEntradasRequeridasParaValor(Len(v)) * T)
          \in [Direcciones -> Byte]
    BY <1>1, <2>1, <2>2, Copiar
  <2> QED BY <1>1, <1>2, <2>3, Copiar
<1> HIDE DEF c
<1>6. r \in Registros /\ r.clave = k
  BY <1>1 DEF Registro, Registros, Memoria
<1>7. /\ p \in Memoria
      /\ p.tabla = [q.tabla EXCEPT ![n] = r] /\ p.bytes = c
      /\ p.numero = m.numero /\ p.contador = m.contador /\ p.activo = m.activo
      /\ p.fallo = m.fallo /\ p.resp = m.resp
  <2> HIDE DEF r
  <2>1. p = [q EXCEPT !.tabla = [q.tabla EXCEPT ![n] = r], !.bytes = c]
    BY <1>3, <1>4 DEF Memoria
  <2>2. [q.tabla EXCEPT ![n] = r] \in [Entradas -> Registros \cup {Libre}]
    BY <1>4, <1>6 DEF Memoria
  <2> HIDE DEF p
  <2> QED BY <1>2, <1>4, <1>5, <2>1, <2>2 DEF Memoria
<1>8. Buena(p, A)
  <2>1. \A x \in Entradas : x # n => p.tabla[x] = q.tabla[x]
    BY <1>4, <1>7 DEF Memoria
  <2> HIDE DEF r
  <2>2. p.tabla[n] = r
    BY <1>4, <1>7 DEF Memoria
  <2>3. \A x : x \in n..n <=> x = n
    BY <1>1
  <2>4. Coloca(q, p, k, n, n)
    BY <1>1, <1>2, <1>6, <1>7, <2>1, <2>2, <2>3 DEF Coloca
  <2> QED BY <1>2, <1>4, <2>4, ColocarBuena
<1>9. PuestaEn(m, k, v, n, p)
  <2>1. p.tabla[n] = r /\ \A x \in Entradas \ {n} : p.tabla[x] = q.tabla[x]
    BY <1>4, <1>7 DEF Memoria
  <2> QED BY <1>2, <1>5, <1>7, <2>1 DEF PuestaEn
<1> QED BY <1>8, <1>9 DEF p

Fallos == {"no", "fuera", "superpuesta", "nulo", "ausente", "basura", "desborde"}
Respuestas == {"EXITO_I", "ERROR_I", "COMPACTAR"}

\* What does not touch the table does not disturb it.
LEMMA SinTabla ==
  ASSUME NEW A, NEW m, Buena(m, A), NEW p \in Memoria, p.tabla = m.tabla
  PROVE  Buena(p, A)
BY DEF Buena, Asignada, Corrida

\* The steps that only note a failure, move numeroEntrada or turn the replacement on.
LEMMA RomperBuena ==
  ASSUME NEW A, NEW m, Buena(m, A), NEW f \in Fallos
  PROVE  Buena(Romper(m, f), A) /\ Romper(m, f).fallo = f /\ Romper(m, f).tabla = m.tabla
<1>1. m \in Memoria
  BY DEF Buena
<1>2. Romper(m, f) \in Memoria /\ Romper(m, f).tabla = m.tabla /\ Romper(m, f).fallo = f
  BY <1>1 DEF Romper, Memoria, Fallos
<1> QED BY <1>2, SinTabla

\* The fields that a step on the table may change, set to x and y.
LEMMA AvanzarBuena ==
  ASSUME NEW A, NEW m, Buena(m, A), NEW z \in Nat
  PROVE  LET p == AvanzarNumero(m, z)
         IN  /\ Buena(p, A) /\ p.tabla = m.tabla /\ p.bytes = m.bytes /\ p.fallo = m.fallo
             /\ p.activo = m.activo /\ p.contador = m.contador /\ p.resp = m.resp
             /\ p.numero = Menor(z, N)
<1> DEFINE p == AvanzarNumero(m, z)
<1>1. m \in Memoria
  BY DEF Buena
<1>2. Menor(z, N) \in 0..N
  BY TablaBienFormada DEF Menor
<1>3. p \in Memoria /\ p.numero = Menor(z, N) /\ p.tabla = m.tabla /\ p.bytes = m.bytes
      /\ p.fallo = m.fallo /\ p.activo = m.activo /\ p.contador = m.contador /\ p.resp = m.resp
  BY <1>1, <1>2 DEF AvanzarNumero, Memoria
<1> HIDE DEF p
<1>4. Buena(p, A)
  BY <1>3, SinTabla
<1> QED BY <1>3, <1>4 DEF p

\* The entries that the two sorts put first.
LEMMA Elegidas ==
  ASSUME NEW m \in Memoria, NEW S \in SUBSET Entradas, S # {}, \A x \in S : m.tabla[x] # Libre
  PROVE  MenosUsada(m, S) \in S /\ MasGrande(m, S) \in S
<1>0. /\ \A x \in S : m.tabla[x] \in Registros /\ x \in Nat
      /\ \A x \in S : m.tabla[x].op \in Nat /\ m.tabla[x].tam \in Nat /\ m.tabla[x].tam <= T
  BY TablaBienFormada DEF Memoria, Entradas, Registros
<1>1. \E n \in S : \A x \in S \ {n} :
        m.tabla[n].op < m.tabla[x].op \/ (n < x /\ m.tabla[n].op = m.tabla[x].op)
  <2> DEFINE R == {m.tabla[x].op : x \in S}
  <2>1. R \in SUBSET Nat /\ R # {}
    BY <1>0
  <2> HIDE DEF R
  <2>2. PICK o \in R : \A w \in R : o <= w
    BY <2>1, Minimo
  <2> DEFINE Q == {x \in S : m.tabla[x].op = o}
  <2>3. Q \in SUBSET Nat /\ Q # {}
    BY <1>0, <2>2 DEF R
  <2> HIDE DEF Q
  <2>4. PICK n \in Q : \A w \in Q : n <= w
    BY <2>3, Minimo
  <2>5. n \in S /\ m.tabla[n].op = o
    BY DEF Q
  <2>6. ASSUME NEW x \in S \ {n}
        PROVE  m.tabla[n].op < m.tabla[x].op \/ (n < x /\ m.tabla[n].op = m.tabla[x].op)
    <3>1. o <= m.tabla[x].op
      BY <2>2 DEF R
    <3>2. m.tabla[x].op = o => n <= x
      BY <2>4 DEF Q
    <3> QED BY <1>0, <2>5, <3>1, <3>2
  <2> QED BY <2>5, <2>6
<1>2. \E n \in S : \A x \in S \ {n} :
        m.tabla[n].tam > m.tabla[x].tam \/ (n < x /\ m.tabla[n].tam = m.tabla[x].tam)
  <2> DEFINE R == {T - m.tabla[x].tam : x \in S}
  <2>1. R \in SUBSET Nat /\ R # {}
    BY <1>0, TablaBienFormada
  <2> HIDE DEF R
  <2>2. PICK o \in R : \A w \in R : o <= w
    BY <2>1, Minimo
  <2> DEFINE Q == {x \in S : T - m.tabla[x].tam = o}
  <2>3. Q \in SUBSET Nat /\ Q # {}
    BY <1>0, <2>2 DEF R
  <2> HIDE DEF Q
  <2>4. PICK n \in Q : \A w \in Q : n <= w
    BY <2>3, Minimo
  <2>5. n \in S /\ T - m.tabla[n].tam = o
    BY DEF Q
  <2>6. ASSUME NEW x \in S \ {n}
        PROVE  m.tabla[n].tam > m.tabla[x].tam \/ (n < x /\ m.tabla[n].tam = m.tabla[x].tam)
    <3>1. o <= T - m.tabla[x].tam
      BY <2>2 DEF R
    <3>2. T - m.tabla[x].tam = o => n <= x
      BY <2>4 DEF Q
    <3> QED BY <1>0, <2>5, <3>1, <3>2, TablaBienFormada
  <2> QED BY <2>5, <2>6
<1> QED BY <1>1, <1>2 DEF MenosUsada, MasGrande

\* m with other values of reemplazoActivo and numeroEntrada.
Con(m, ac, nu) == [m EXCEPT !.activo = ac, !.numero = nu]

\* They do not disturb the table.
LEMMA ConBuena ==
  ASSUME NEW A, NEW m, Buena(m, A), NEW ac \in BOOLEAN, NEW nu \in 0..N
  PROVE  LET p == Con(m, ac, nu)
         IN  /\ Buena(p, A) /\ p.tabla = m.tabla /\ p.bytes = m.bytes /\ p.fallo = m.fallo
             /\ p.contador = m.contador /\ p.resp = m.resp /\ p.activo = ac /\ p.numero = nu
<1> DEFINE p == Con(m, ac, nu)
<1>1. m \in Memoria
  BY DEF Buena
<1>3. p \in Memoria /\ p.tabla = m.tabla /\ p.bytes = m.bytes /\ p.activo = ac /\ p.numero = nu
      /\ p.fallo = m.fallo /\ p.contador = m.contador /\ p.resp = m.resp
  BY <1>1 DEF Con, Memoria
<1> HIDE DEF p
<1>4. Buena(p, A)
  BY <1>3, SinTabla
<1> QED BY <1>3, <1>4 DEF p

\* p is m with k at some entry, or m broken.
Atomica(m, k, v, p) ==
  \E ac \in BOOLEAN, nu \in 0..N :
    \/ \E f \in {"fuera", "nulo"} : p = Romper(Con(m, ac, nu), f)
    \/ \E n \in Entradas, z \in Nat : p = AvanzarNumero(PonerAtomica(Con(m, ac, nu), k, v, n), z)

\* Every call of guardarIndiceAtomicoEnTabla ends in one of those ways.
LEMMA IndiceAtomico ==
  ASSUME NEW m \in Memoria, NEW ac \in BOOLEAN, NEW nu \in 0..N, NEW k, NEW v, NEW n \in Nat
  PROVE  Atomica(m, k, v, guardarIndiceAtomicoEnTabla(Con(m, ac, nu), k, v, n))
<1> DEFINE c == Con(m, ac, nu)
           p == guardarIndiceAtomicoEnTabla(c, k, v, n)
<1>1. /\ c.numero + 1 \in Nat /\ (IF algoritmo = "CIRC" THEN n ELSE c.numero) + 1 \in Nat
      /\ ~(n >= N) => n \in Entradas
  BY TablaBienFormada DEF Con, Memoria, Entradas
<1> HIDE DEF c
<1>2. \/ \E f \in {"fuera", "nulo"} : p = Romper(c, f)
      \/ n \in Entradas /\ \E z \in Nat : p = AvanzarNumero(PonerAtomica(c, k, v, n), z)
  BY <1>1 DEF guardarIndiceAtomicoEnTabla
<1> HIDE DEF p
<1> QED BY <1>2 DEF Atomica, p, c

\* And so does GuardarAtomica, whatever the algorithm.
LEMMA AtomicaForma ==
  ASSUME NEW m \in Memoria, NEW k, NEW v
  PROVE  Atomica(m, k, v, GuardarAtomica(m, k, v))
<1>1. m = Con(m, m.activo, m.numero) /\ m.activo \in BOOLEAN /\ m.numero \in 0..N
  BY DEF Con, Memoria
<1>2. \A n \in Nat : Atomica(m, k, v, guardarIndiceAtomicoEnTabla(m, k, v, n))
  BY <1>1, IndiceAtomico
<1>3. CASE m.numero < N
  BY <1>1, <1>2, <1>3 DEF GuardarAtomica
<1>4. CASE ~(m.numero < N) /\ Libres(m) # {}
  <2>1. Min(Libres(m)) + 1 \in Nat
    <3>1. Libres(m) \in SUBSET Entradas
      BY DEF Libres
    <3>2. Min(Libres(m)) \in Entradas
      BY <1>4, <3>1, MinimoMaximo
    <3> QED BY <3>2, TablaBienFormada DEF Entradas
  <2> QED BY <1>2, <1>4, <2>1 DEF GuardarAtomica, buscarIndiceDeEntradaDisponible
<1>5. CASE ~(m.numero < N) /\ Libres(m) = {}
  <2> DEFINE q == [m EXCEPT !.activo = TRUE]
             q0 == [q EXCEPT !.numero = 0]
  <2>1. q = Con(m, TRUE, m.numero) /\ q0 = Con(m, TRUE, 0) /\ 0 \in 0..N
    <3>1. q \in Memoria /\ q.numero = m.numero
      BY DEF Memoria
    <3>2. \A x : Con(m, TRUE, x) = [q EXCEPT !.numero = x]
      BY DEF Con
    <3> HIDE DEF q
    <3>3. q = [q EXCEPT !.numero = q.numero]
      BY <3>1 DEF Memoria
    <3>4. q0 = Con(m, TRUE, 0)
      BY <3>2 DEF q0
    <3>5. 0 \in 0..N
      BY TablaBienFormada
    <3>6. q = Con(m, TRUE, m.numero)
      <4> HIDE DEF q0
      <4> QED BY <3>1, <3>2, <3>3
    <3> HIDE DEF q0
    <3> QED BY <3>4, <3>5, <3>6
  <2> HIDE DEF q, q0
  <2>2. /\ Atomica(m, k, v, guardarIndiceAtomicoEnTabla(q0, k, v, 0))
        /\ \A n \in Nat : Atomica(m, k, v, guardarIndiceAtomicoEnTabla(q, k, v, n))
    BY <1>1, <2>1, IndiceAtomico
  <2>3. Atomica(m, k, v, Romper(m, "nulo"))
    BY <1>1 DEF Atomica
  <2>4. Atomicas(m) # {} => MenosUsada(m, Atomicas(m)) \in Nat /\ MasGrande(m, Atomicas(m)) \in Nat
    <3>1. Atomicas(m) \in SUBSET Entradas /\ \A x \in Atomicas(m) : m.tabla[x] # Libre
      BY DEF Atomicas
    <3>2. Entradas \subseteq Nat
      BY TablaBienFormada DEF Entradas
    <3> QED BY <3>1, <3>2, Elegidas
  <2>5. Atomica(m, k, v, aplicarAlgoritmoDeReemplazo(m, k, v))
    BY <2>2, <2>3, <2>4 DEF aplicarAlgoritmoDeReemplazo, q, q0
  <2> QED BY <1>5, <2>5 DEF GuardarAtomica
<1> QED BY <1>3, <1>4, <1>5

\* A value of one entry does not disturb the table.
LEMMA AtomicaBuena ==
  ASSUME NEW A \in SUBSET Claves, NEW k \in A, NEW m, Buena(m, A), ~Guardada(m, k),
         NEW v \in Seq(Byte), Len(v) <= T
  PROVE  Buena(GuardarAtomica(m, k, v), A)
<1> DEFINE p == GuardarAtomica(m, k, v)
<1>1. m \in Memoria
  BY DEF Buena
<1>2. PICK ac \in BOOLEAN, nu \in 0..N :
        \/ \E f \in {"fuera", "nulo"} : p = Romper(Con(m, ac, nu), f)
        \/ \E n \in Entradas, z \in Nat :
             p = AvanzarNumero(PonerAtomica(Con(m, ac, nu), k, v, n), z)
  BY <1>1, AtomicaForma DEF Atomica
<1> HIDE DEF p
<1> DEFINE c == Con(m, ac, nu)
<1>3. Buena(c, A) /\ ~Guardada(c, k)
  BY ConBuena DEF Guardada, obtenerIndicesDeClave
<1>4. ASSUME NEW f \in {"fuera", "nulo"}, p = Romper(c, f) PROVE Buena(p, A)
  <2>1. f \in Fallos
    BY DEF Fallos
  <2> QED BY <1>3, <1>4, <2>1, RomperBuena
<1>5. ASSUME NEW n \in Entradas, NEW z \in Nat, p = AvanzarNumero(PonerAtomica(c, k, v, n), z)
      PROVE  Buena(p, A)
  <2> HIDE DEF c
  <2>1. Buena(PonerAtomica(c, k, v, n), A)
    BY <1>3, PonerBuena
  <2> QED BY <1>5, <2>1, AvanzarBuena
<1> QED BY <1>2, <1>4, <1>5 DEF p

(***************************************************************************)
(* The size of a value.                                                    *)
(***************************************************************************)
\* f adds up the sizes of the entries of k.
Acumula(m, k, f) ==
  /\ f \in [0..N -> Nat] /\ f[0] = 0
  /\ \A n \in 1..N :
       f[n] = f[n - 1] + (IF n - 1 \in obtenerIndicesDeClave(m, k) THEN m.tabla[n - 1].tam ELSE 0)

\* TamanioTotal is the last of those sums.
LEMMA Acumulado ==
  ASSUME NEW m \in Memoria, NEW k
  PROVE  \E f : Acumula(m, k, f) /\ TamanioTotal(m, k) = f[N]
<1> DEFINE S == obtenerIndicesDeClave(m, k)
           e(n) == IF n - 1 \in S THEN m.tabla[n - 1].tam ELSE 0
           g == [n \in 1..N |-> [x \in Nat |-> x + e(n)]]
           E(f) == [n \in 0..N |-> IF n = 0 THEN 0
                                   ELSE f[n - 1] + (IF n - 1 \in S THEN m.tabla[n - 1].tam ELSE 0)]
           c == CHOOSE f : f = E(f)
<1>1. TamanioTotal(m, k) = c[N]
  BY DEF TamanioTotal
<1>0. \A n \in 1..N : e(n) \in Nat
  <2>1. \A x \in S : m.tabla[x].tam \in Nat
    BY TablaBienFormada DEF Memoria, Registros, Entradas, obtenerIndicesDeClave
  <2> HIDE DEF S
  <2> QED BY <2>1
<1> HIDE DEF S
<1>2. Pasos(g, N, Nat) /\ \A n \in 1..N, x \in Nat : g[n][x] = x + e(n)
  <2> HIDE DEF e
  <2> QED BY <1>0 DEF Pasos
<1> HIDE DEF g
<1>3. PICK f : Itera(f, N, Nat, 0, g)
  <2>1. 0 \in Nat /\ N \in Nat
    BY TablaBienFormada
  <2> QED BY <1>2, <2>1, Recursion
<1>4. f \in [0..N -> Nat] /\ f[0] = 0 /\ \A n \in 1..N : f[n] = f[n - 1] + e(n)
  <2>1. f \in [0..N -> Nat] /\ f[0] = 0 /\ \A j \in 1..N : f[j] = g[j][f[j - 1]]
    BY <1>3 DEF Itera
  <2>2. \A n \in 1..N : n - 1 \in 0..N
    BY TablaBienFormada
  <2> HIDE DEF e
  <2> QED BY <1>2, <2>1, <2>2
<1>5. f = E(f)
  <2>1. \A n \in 0..N : f[n] = IF n = 0 THEN 0 ELSE f[n - 1] + e(n)
    BY <1>4, TablaBienFormada
  <2> QED BY <1>4, <2>1
<1>6. c = E(c)
  BY <1>5
<1> HIDE DEF c
<1>7. c = f
  <2>1. Paralelas(c, f, N)
    BY <1>5, <1>6, TablaBienFormada DEF Paralelas
  <2> QED BY <2>1, TablaBienFormada, Unica
<1>8. Acumula(m, k, f)
  BY <1>4 DEF Acumula, S
<1> QED BY <1>1, <1>7, <1>8

\* The size of a value is a number.
LEMMA TamanioNat ==
  ASSUME NEW m \in Memoria, NEW k
  PROVE  TamanioTotal(m, k) \in Nat
<1>1. PICK f : Acumula(m, k, f) /\ TamanioTotal(m, k) = f[N]
  BY Acumulado
<1> QED BY <1>1, TablaBienFormada DEF Acumula

\* The entries of k are those from lo to hi, all full but the last.
Tramo(m, k, lo, hi) ==
  /\ lo \in Entradas /\ hi \in Entradas /\ lo <= hi
  /\ obtenerIndicesDeClave(m, k) = lo..hi
  /\ \A x \in lo..hi : x < hi => m.tabla[x].tam = T

\* The size of a value that has entries lo..hi.
LEMMA TamanioTramo ==
  ASSUME NEW m \in Memoria, NEW k, NEW lo, NEW hi, Tramo(m, k, lo, hi)
  PROVE  /\ TamanioTotal(m, k) = (hi - lo) * T + m.tabla[hi].tam
         /\ m.tabla[hi] \in Registros /\ m.tabla[hi].tam \in 0..T
<1>1. PICK f : Acumula(m, k, f) /\ TamanioTotal(m, k) = f[N]
  BY Acumulado
<1>2. N \in Nat /\ T \in Nat /\ lo \in Nat /\ hi \in Nat /\ lo <= hi /\ hi < N
  BY TablaBienFormada DEF Tramo, Entradas
<1>3. m.tabla[hi] \in Registros /\ m.tabla[hi].tam \in 0..T
  <2>1. hi \in obtenerIndicesDeClave(m, k)
    BY <1>2 DEF Tramo
  <2> QED BY <2>1 DEF obtenerIndicesDeClave, Memoria, Registros
<1> DEFINE h(i) == IF i <= lo THEN 0
                   ELSE IF i <= hi THEN (i - lo) * T ELSE (hi - lo) * T + m.tabla[hi].tam
           P == {i \in 0..N : f[i] = h(i)}
<1>4. 0 \in P
  BY <1>1, <1>2 DEF Acumula
<1>5. ASSUME NEW i \in 0..(N - 1), i \in P PROVE i + 1 \in P
  <2>1. f[i + 1] = f[i] + (IF i \in lo..hi THEN m.tabla[i].tam ELSE 0)
    <3>1. i + 1 \in 1..N /\ (i + 1) - 1 = i
      BY <1>2
    <3> QED BY <1>1, <3>1 DEF Acumula, Tramo
  <2>2. f[i] = h(i)
    BY <1>5
  <2>3. i \in lo..hi /\ i < hi => m.tabla[i].tam = T
    BY DEF Tramo
  <2>4. (i - lo + 1) * T = (i - lo) * T + 1 * T /\ 1 * T = T
    BY <1>2, Producto
  <2>5. 0 * T = 0 /\ (i - lo) * T \in Int /\ (hi - lo) * T \in Int
    BY <1>2, Producto
  <2>6. f[i + 1] = h(i + 1)
    <3>1. CASE i < lo
      BY <1>2, <2>1, <2>2, <3>1
    <3>2. CASE lo <= i /\ i < hi
      <4>1. f[i + 1] = f[i] + T
        BY <1>2, <2>1, <2>3, <3>2
      <4>2. f[i] = (i - lo) * T
        <5>1. CASE i = lo
          BY <1>2, <2>2, <2>5, <5>1
        <5> QED BY <1>2, <2>2, <3>2, <5>1
      <4>3. h(i + 1) = (i - lo + 1) * T
        <5>1. (i + 1) - lo = i - lo + 1
          BY <1>2
        <5> QED BY <1>2, <3>2, <5>1
      <4> QED BY <2>4, <4>1, <4>2, <4>3
    <3>3. CASE i = hi
      <4>1. f[i + 1] = f[i] + m.tabla[hi].tam
        BY <1>2, <2>1, <3>3
      <4>2. f[i] = (hi - lo) * T
        <5>1. CASE hi = lo
          BY <1>2, <2>2, <2>5, <3>3, <5>1
        <5> QED BY <1>2, <2>2, <3>3, <5>1
      <4> QED BY <1>2, <3>3, <4>1, <4>2
    <3>4. CASE i > hi
      <4>1. f[i + 1] = f[i] + 0
        BY <1>2, <2>1, <3>4
      <4>2. f[i] = (hi - lo) * T + m.tabla[hi].tam /\ f[i] \in Int
        BY <1>2, <1>3, <2>2, <2>5, <3>4
      <4>3. h(i + 1) = (hi - lo) * T + m.tabla[hi].tam
        BY <1>2, <3>4
      <4> HIDE DEF h
      <4> QED BY <4>1, <4>2, <4>3
    <3> QED BY <1>2, <3>1, <3>2, <3>3, <3>4
  <2> QED BY <1>2, <2>6
<1> HIDE DEF P
<1>6. 0..N \subseteq P
  BY <1>2, <1>4, <1>5, Induccion
<1>7. f[N] = h(N)
  BY <1>2, <1>6 DEF P
<1> QED BY <1>1, <1>2, <1>3, <1>7

\* The entries of a key, when it has any.
LEMMA ClaveTramo ==
  ASSUME NEW A, NEW m, Buena(m, A), NEW k, Guardada(m, k)
  PROVE  LET S == obtenerIndicesDeClave(m, k)
         IN  Tramo(m, k, Min(S), Max(S))
<1> DEFINE S == obtenerIndicesDeClave(m, k)
           lo == Min(S)
           hi == Max(S)
<1>1. S \in SUBSET Entradas /\ S # {}
  BY DEF obtenerIndicesDeClave, Guardada
<1>2. lo \in S /\ hi \in S /\ \A x \in S : lo <= x /\ x <= hi
  <2> HIDE DEF S
  <2> QED BY <1>1, MinimoMaximo
<1> HIDE DEF lo, hi
<1>3. /\ lo \in Entradas /\ hi \in Entradas /\ lo <= hi /\ lo \in Nat /\ hi \in Nat
      /\ \A x \in lo..hi : x \in Entradas
  BY <1>1, <1>2, TablaBienFormada DEF Entradas
<1>4. \A x \in S : m.tabla[x] # Libre /\ m.tabla[x].clave = k
  BY DEF obtenerIndicesDeClave
<1>5. ASSUME NEW x \in lo..hi PROVE x \in S
  <2>1. CASE lo < hi
    <3>1. m.tabla[x] # Libre /\ m.tabla[x].clave = k
      BY <1>2, <1>3, <1>4, <2>1 DEF Buena, Corrida
    <3> QED BY <1>3, <3>1 DEF obtenerIndicesDeClave
  <2>2. CASE ~(lo < hi)
    BY <1>2, <1>3, <2>2
  <2> QED BY <2>1, <2>2
<1>6. S = lo..hi
  <2> HIDE DEF S
  <2>1. \A x \in S : x \in Int
    BY <1>1 DEF Entradas
  <2>2. \A x \in S : x \in lo..hi
    BY <1>2, <1>3, <2>1
  <2> QED BY <1>5, <2>2
<1>7. ASSUME NEW x \in lo..hi, x < hi PROVE m.tabla[x].tam = T
  <2>1. x \in S /\ x \in Entradas
    BY <1>3, <1>5
  <2> QED BY <1>2, <1>3, <1>4, <1>7, <2>1 DEF Buena, Corrida
<1> QED BY <1>3, <1>6, <1>7 DEF Tramo, lo, hi

(***************************************************************************)
(* Counting entries.                                                       *)
(***************************************************************************)
LEMMA Cuenta ==
  ASSUME NEW S \in SUBSET Entradas
  PROVE  IsFiniteSet(S) /\ Cardinality(S) \in 0..N
<1>1. N \in Nat /\ N >= 1
  BY TablaBienFormada
<1>2. IsFiniteSet(Entradas) /\ Cardinality(Entradas) = N
  <2>1. 0 \in Int /\ N - 1 \in Int /\ ~(0 > N - 1) /\ (N - 1) - 0 + 1 = N
    BY <1>1
  <2> QED BY <2>1, FS_Interval DEF Entradas
<1>3. IsFiniteSet(S) /\ Cardinality(S) <= N
  BY <1>2, FS_Subset
<1>4. Cardinality(S) \in Nat
  BY <1>3, FS_CardinalityType
<1> QED BY <1>1, <1>3, <1>4

\* A part of a set of entries has fewer of them.
LEMMA CuentaMenos ==
  ASSUME NEW S \in SUBSET Entradas, NEW R \in SUBSET S
  PROVE  /\ Cardinality(R) <= Cardinality(S)
         /\ R # S => Cardinality(R) < Cardinality(S)
<1>1. R \in SUBSET Entradas
  OBVIOUS
<1>2. IsFiniteSet(S) /\ Cardinality(R) \in Nat /\ Cardinality(S) \in Nat
  BY <1>1, Cuenta
<1>3. Cardinality(R) <= Cardinality(S) /\ (Cardinality(S) = Cardinality(R) => S = R)
  BY <1>2, FS_Subset
<1> QED BY <1>2, <1>3

\* No entry is free and atomic.
LEMMA LibresYAtomicas ==
  ASSUME NEW m \in Memoria
  PROVE  /\ Libres(m) \in SUBSET Entradas /\ Atomicas(m) \in SUBSET Entradas
         /\ Libres(m) \cup Atomicas(m) \in SUBSET Entradas
         /\ Cardinality(Libres(m) \cup Atomicas(m)) = Cardinality(Libres(m)) + Cardinality(Atomicas(m))
<1>1. Libres(m) \in SUBSET Entradas /\ Atomicas(m) \in SUBSET Entradas
  BY DEF Libres, Atomicas
<1>2. Libres(m) \cap Atomicas(m) = {}
  BY DEF Libres, Atomicas
<1>3. /\ IsFiniteSet(Libres(m)) /\ Cardinality(Libres(m)) \in Nat
      /\ IsFiniteSet(Atomicas(m)) /\ Cardinality(Atomicas(m)) \in Nat
  BY <1>1, Cuenta
<1>4. Cardinality(Libres(m) \cup Atomicas(m)) =
        Cardinality(Libres(m)) + Cardinality(Atomicas(m)) - Cardinality(Libres(m) \cap Atomicas(m))
  BY <1>3, FS_Union
<1>5. Cardinality(Libres(m) \cap Atomicas(m)) = 0
  BY <1>2, FS_EmptySet
<1> QED BY <1>1, <1>3, <1>4, <1>5

\* The counters of the table are numbers up to N.
LEMMA CuentaTabla ==
  ASSUME NEW m
  PROVE  /\ Libres(m) \in SUBSET Entradas /\ Cardinality(Libres(m)) \in Nat
         /\ Atomicas(m) \in SUBSET Entradas /\ Cardinality(Atomicas(m)) \in Nat
         /\ Cardinality(Libres(m)) <= N /\ Cardinality(Atomicas(m)) <= N
<1>1. Libres(m) \in SUBSET Entradas
  BY DEF Libres
<1>2. Atomicas(m) \in SUBSET Entradas
  BY DEF Atomicas
<1>3. Cardinality(Libres(m)) \in 0..N /\ Cardinality(Atomicas(m)) \in 0..N
  BY <1>1, <1>2, Cuenta
<1> QED BY <1>1, <1>2, <1>3, TablaBienFormada

\* The free entries at the end of the table are the last LibresAlFinal(m).
LEMMA FinalLibre ==
  ASSUME NEW m
  PROVE  LibresAlFinal(m) \in 0..N /\ (N - LibresAlFinal(m))..(N - 1) \subseteq Libres(m)
<1> DEFINE S == {n \in Entradas : n..(N - 1) \subseteq Libres(m)}
<1>1. N \in Nat /\ \A x \in Entradas : x \in Nat /\ x < N
  BY TablaBienFormada DEF Entradas
<1>2. CASE S = {}
  <2>1. LibresAlFinal(m) = 0
    BY <1>2, FS_EmptySet DEF LibresAlFinal
  <2> QED BY <1>1, <2>1
<1>3. CASE S # {}
  <2>1. PICK c \in S : \A y \in S : c <= y
    <3> HIDE DEF S
    <3>1. S \in SUBSET Nat
      BY <1>1 DEF S
    <3> QED BY <1>3, <3>1, Minimo
  <2>2. c \in Entradas /\ c..(N - 1) \subseteq Libres(m)
    BY <2>1
  <2>3. \A x \in c..(N - 1) : x \in Entradas /\ x..(N - 1) \subseteq Libres(m)
    BY <1>1, <2>2 DEF Entradas
  <2>4. \A x \in S : x \in c..(N - 1)
    <3>1. \A x \in S : x \in Nat /\ x < N /\ c <= x
      BY <1>1, <2>1
    <3> HIDE DEF S
    <3> QED BY <1>1, <2>2, <3>1
  <2>5. S = c..(N - 1)
    BY <2>3, <2>4
  <2> HIDE DEF S
  <2>6. LibresAlFinal(m) = N - c
    <3>1. c \in Int /\ N - 1 \in Int /\ ~(c > N - 1) /\ (N - 1) - c + 1 = N - c
      BY <1>1, <2>2
    <3>2. Cardinality(c..(N - 1)) = N - c
      BY <3>1, FS_Interval
    <3>3. LibresAlFinal(m) = Cardinality(S)
      BY DEF LibresAlFinal, S
    <3> QED BY <2>5, <3>2, <3>3
  <2>7. N - (N - c) = c
    BY <1>1, <2>2
  <2> QED BY <1>1, <2>2, <2>6, <2>7
<1> QED BY <1>2, <1>3

(***************************************************************************)
(* Making room.                                                            *)
(***************************************************************************)
\* There are need entries that are free or can be freed.
Alcanza(m, need) == need <= Cardinality(Libres(m)) + Cardinality(Atomicas(m))

\* A call of liberar_clave_atom() frees something and does not take away what can be freed.
LEMMA LiberarPaso ==
  ASSUME NEW m \in Memoria, NEW need \in Nat, Cardinality(Libres(m)) < need, Alcanza(m, need)
  PROVE  LET q == liberar_clave_atom(m)
         IN  /\ Poda(m, q) /\ Alcanza(q, need)
             /\ Cardinality(Libres(q)) > Cardinality(Libres(m))
<1> DEFINE q == liberar_clave_atom(m)
<1>0. /\ Libres(m) \in SUBSET Entradas /\ Atomicas(m) \in SUBSET Entradas
      /\ Cardinality(Libres(m)) \in Nat /\ Cardinality(Atomicas(m)) \in Nat
  BY CuentaTabla
<1>1. Atomicas(m) # {}
  <2>1. Cardinality(Atomicas(m)) > 0
    BY <1>0 DEF Alcanza
  <2> QED BY <2>1, FS_EmptySet
<1>2. \A x \in Atomicas(m) : x \in Entradas /\ m.tabla[x] # Libre
  BY DEF Atomicas
<1>3. /\ Entradas \ Libres(m) # {} /\ Entradas \ Libres(m) \in SUBSET Entradas
      /\ \A x \in Entradas \ Libres(m) : m.tabla[x] # Libre
  BY <1>1, <1>2 DEF Libres
<1>4. /\ MenosUsada(m, Entradas \ Libres(m)) \in Entradas \ Libres(m)
      /\ MasGrande(m, Atomicas(m)) \in Atomicas(m) /\ Min(Atomicas(m)) \in Atomicas(m)
  BY <1>0, <1>1, <1>2, <1>3, Elegidas, MinimoMaximo
<1>5. PICK n \in Entradas, z \in 0..N :
        /\ m.tabla[n] # Libre
        /\ q = [eliminarEntradasAsociadasAClave(m, n) EXCEPT !.numero = z]
  <2>1. \A x \in Entradas : m.tabla[x] # Libre =>
          eliminarEntradasAsociadasAClave(m, x)
            = [eliminarEntradasAsociadasAClave(m, x) EXCEPT !.numero = m.numero]
    BY EliminarPoda DEF Poda, Memoria
  <2>2. m.numero \in 0..N
    BY DEF Memoria
  <2>3. \A x \in Entradas : x \in 0..N
    BY TablaBienFormada DEF Entradas
  <2>4. CASE algoritmo = "LRU"
    BY <1>3, <1>4, <2>1, <2>2, <2>4 DEF liberar_clave_atom
  <2>5. CASE algoritmo = "CIRC"
    BY <1>1, <1>2, <1>4, <2>3, <2>5 DEF liberar_clave_atom
  <2>6. CASE algoritmo # "LRU" /\ algoritmo # "CIRC"
    <3>1. q = eliminarEntradasAsociadasAClave(m, MasGrande(m, Atomicas(m)))
      BY <1>1, <2>6 DEF liberar_clave_atom
    <3> HIDE DEF q
    <3> QED BY <1>2, <1>4, <2>1, <2>2, <3>1
  <2> QED BY <2>4, <2>5, <2>6
<1> DEFINE e == eliminarEntradasAsociadasAClave(m, n)
<1>6. Poda(m, e) /\ e.tabla[n] = Libre
  BY <1>5, EliminarPoda
<1> HIDE DEF q, e
<1>7. q = [e EXCEPT !.numero = z] /\ e \in Memoria
  BY <1>5, <1>6 DEF e, Poda
<1>8. q \in Memoria /\ q.tabla = e.tabla /\ q.bytes = e.bytes /\ q.activo = e.activo
      /\ q.contador = e.contador /\ q.resp = e.resp /\ q.fallo = e.fallo
  BY <1>7 DEF Memoria
<1>9. Poda(m, q)
  BY <1>6, <1>8 DEF Poda
<1>10. Libres(m) \subseteq Libres(q) /\ n \in Libres(q) /\ n \notin Libres(m)
  BY <1>5, <1>6, <1>8, <1>9 DEF Poda, Libres
<1>11. Libres(m) \cup Atomicas(m) \subseteq Libres(q) \cup Atomicas(q)
  BY <1>9 DEF Poda, Libres, Atomicas
<1>12. Cardinality(Libres(q)) > Cardinality(Libres(m))
  <2>1. /\ Libres(q) \in SUBSET Entradas /\ Cardinality(Libres(q)) \in Nat
        /\ Libres(m) \in SUBSET Libres(q) /\ Libres(m) # Libres(q)
    BY <1>10, CuentaTabla
  <2> QED BY <1>0, <2>1, CuentaMenos
<1>13. Alcanza(q, need)
  <2> DEFINE u == Libres(m) \cup Atomicas(m)
             w == Libres(q) \cup Atomicas(q)
  <2>1. /\ w \in SUBSET Entradas /\ u \in SUBSET w
        /\ Cardinality(w) = Cardinality(Libres(q)) + Cardinality(Atomicas(q))
        /\ Cardinality(u) = Cardinality(Libres(m)) + Cardinality(Atomicas(m))
    BY <1>8, <1>11, LibresYAtomicas
  <2> HIDE DEF u, w
  <2>2. Cardinality(u) <= Cardinality(w) /\ Cardinality(u) \in Nat /\ Cardinality(w) \in Nat
    BY <2>1, CuentaMenos, Cuenta
  <2> QED BY <2>1, <2>2 DEF Alcanza
<1> QED BY <1>9, <1>12, <1>13 DEF q

\* The loop ends with enough free entries, and it has only taken entries away.
LEMMA LiberarPoda ==
  ASSUME NEW m \in Memoria, m.fallo = "no", NEW need \in Nat, Alcanza(m, need)
  PROVE  LET q == Liberar(m, need)
         IN  Poda(m, q) /\ Cardinality(Libres(q)) >= need
<1> DEFINE S == {q \in Memoria : Poda(m, q) /\ Alcanza(q, need)}
           paso(q) == IF q.fallo # "no" \/ Cardinality(Libres(q)) >= need THEN q
                      ELSE liberar_clave_atom(q)
           g == [x \in 1..N |-> [q \in S |-> paso(q)]]
           E(f) == [x \in 0..N |-> IF x = 0 THEN m
                                   ELSE LET q == f[x - 1]
                                        IN  IF q.fallo # "no" \/ Cardinality(Libres(q)) >= need THEN q
                                            ELSE liberar_clave_atom(q)]
           c == CHOOSE f : f = E(f)
<1>1. Liberar(m, need) = c[N]
  BY DEF Liberar
<1>2. N \in Nat
  BY TablaBienFormada
<1>3. m \in S
  BY DEF Poda
<1>4. \A q \in S : /\ paso(q) \in S
                   /\ \/ Cardinality(Libres(q)) >= need /\ paso(q) = q
                      \/ Cardinality(Libres(paso(q))) > Cardinality(Libres(q))
  <2> TAKE q \in S
  <2>1. q \in Memoria /\ Poda(m, q) /\ Alcanza(q, need) /\ q.fallo = "no"
    BY DEF Poda
  <2>2. Cardinality(Libres(q)) \in Nat
    BY CuentaTabla
  <2>3. CASE Cardinality(Libres(q)) >= need
    BY <2>3
  <2>4. CASE ~(Cardinality(Libres(q)) >= need)
    <3> DEFINE r == liberar_clave_atom(q)
    <3>1. Poda(q, r) /\ Alcanza(r, need) /\ Cardinality(Libres(r)) > Cardinality(Libres(q))
      BY <2>1, <2>2, <2>4, LiberarPaso
    <3>2. paso(q) = r
      BY <2>1, <2>4
    <3> HIDE DEF r
    <3>3. Poda(m, r) /\ r \in Memoria
      BY <2>1, <3>1, PodaTransitiva DEF Poda
    <3> QED BY <3>1, <3>2, <3>3
  <2> QED BY <2>3, <2>4
<1>5. Pasos(g, N, S) /\ \A x \in 1..N, q \in S : g[x][q] = paso(q)
  <2> HIDE DEF paso, S
  <2> QED BY <1>4 DEF Pasos
<1> HIDE DEF g
<1>6. PICK f : Itera(f, N, S, m, g)
  <2> HIDE DEF S
  <2> QED BY <1>2, <1>3, <1>5, Recursion
<1>7. f \in [0..N -> S] /\ f[0] = m /\ \A x \in 1..N : x - 1 \in 0..N /\ f[x] = paso(f[x - 1])
  <2>1. \A x \in 1..N : x - 1 \in 0..N
    BY <1>2
  <2> HIDE DEF S, paso
  <2> QED BY <1>5, <1>6, <2>1 DEF Itera
<1>8. f = E(f)
  <2>1. \A x \in 0..N : f[x] = IF x = 0 THEN m ELSE paso(f[x - 1])
    BY <1>2, <1>7
  <2> QED BY <1>7, <2>1
<1>9. c = E(c)
  BY <1>8
<1> HIDE DEF c
<1>10. c = f
  <2>1. \A x \in 1..N : c[x - 1] = f[x - 1] => c[x] = f[x]
    <3>1. \A x \in 1..N : x \in 0..N /\ x # 0
      BY <1>2
    <3> QED BY <1>8, <1>9, <3>1
  <2>2. c[0] = m /\ f[0] = m
    BY <1>2, <1>7, <1>9
  <2>3. c = [x \in 0..N |-> c[x]] /\ f = [x \in 0..N |-> f[x]]
    BY <1>7, <1>9
  <2>4. Paralelas(c, f, N)
    BY <2>1, <2>2, <2>3 DEF Paralelas
  <2> QED BY <1>2, <2>4, Unica
<1> DEFINE P == {x \in 0..N : Cardinality(Libres(f[x])) >= need \/ Cardinality(Libres(f[x])) >= x}
<1>11. \A x \in 0..N : f[x] \in S /\ f[x] \in Memoria /\ Cardinality(Libres(f[x])) \in Nat
  <2> TAKE x \in 0..N
  <2>1. f[x] \in S
    <3> HIDE DEF S
    <3> QED BY <1>7
  <2> QED BY <2>1, CuentaTabla
<1>12. 0 \in P
  BY <1>2, <1>11
<1>13. ASSUME NEW x \in 0..(N - 1), x \in P PROVE x + 1 \in P
  <2>1. x + 1 \in 1..N /\ x + 1 \in 0..N /\ x \in 0..N /\ (x + 1) - 1 = x
    BY <1>2
  <2>2. f[x + 1] = paso(f[x])
    BY <1>7, <2>1
  <2> HIDE DEF paso, S
  <2>3. \/ Cardinality(Libres(f[x])) >= need /\ f[x + 1] = f[x]
        \/ Cardinality(Libres(f[x + 1])) > Cardinality(Libres(f[x]))
    BY <1>4, <1>11, <2>1, <2>2
  <2>4. Cardinality(Libres(f[x])) \in Nat /\ Cardinality(Libres(f[x + 1])) \in Nat
    BY <1>11, <2>1
  <2> QED BY <1>13, <2>1, <2>3, <2>4
<1> HIDE DEF P
<1>14. 0..N \subseteq P
  BY <1>2, <1>12, <1>13, Induccion
<1>15. N \in 0..N /\ (Cardinality(Libres(f[N])) >= need \/ Cardinality(Libres(f[N])) >= N)
  BY <1>2, <1>14 DEF P
<1>16. need <= N
  <2> DEFINE u == Libres(m) \cup Atomicas(m)
  <2>1. u \in SUBSET Entradas /\ Cardinality(u) = Cardinality(Libres(m)) + Cardinality(Atomicas(m))
    BY LibresYAtomicas
  <2> HIDE DEF u
  <2>2. Cardinality(u) \in 0..N
    BY <2>1, Cuenta
  <2> QED BY <1>2, <2>1, <2>2 DEF Alcanza
<1> QED BY <1>1, <1>2, <1>10, <1>11, <1>15, <1>16

\* The first byte of an entry.
LEMMA PorT ==
  ASSUME NEW n \in Nat
  PROVE  n * T \in Nat
<1>1. T \in Nat
  BY TablaBienFormada
<1> QED BY <1>1

(***************************************************************************)
(* A value of several entries.                                             *)
(***************************************************************************)
\* The entries of a value are full, but for the last, which has the rest.
LEMMA TamanioDe ==
  ASSUME NEW L \in Nat, NEW i \in Nat, i < cantidadDeEntradasRequeridasParaValor(L)
  PROVE  /\ TamanioDeEntrada(L, i) \in 1..T
         /\ i + 1 < cantidadDeEntradasRequeridasParaValor(L) => TamanioDeEntrada(L, i) = T
         /\ i + 1 = cantidadDeEntradasRequeridasParaValor(L) => TamanioDeEntrada(L, i) = L - i * T
<1> DEFINE need == cantidadDeEntradasRequeridasParaValor(L)
<1>1. need \in Nat /\ L <= need * T /\ need * T < L + T /\ T \in Nat
  BY Requeridas, TablaBienFormada
<1> HIDE DEF need
<1>2. need * T \in Int /\ i * T \in Int /\ (i + 1) * T \in Int /\ (i + 1) * T = i * T + 1 * T /\ 1 * T = T
  BY <1>1, Producto
<1>3. CASE i + 1 < need
  <2>1. (i + 1) * T + T <= need * T
    BY <1>1, <1>3, Producto
  <2>2. L > (i + 1) * T
    BY <1>1, <1>2, <2>1
  <2> QED BY <1>1, <1>3, <2>2, TablaBienFormada DEF TamanioDeEntrada, need
<1>4. CASE i + 1 = need
  <2>1. ~(L > (i + 1) * T)
    BY <1>1, <1>2, <1>4
  <2>2. L - i * T \in 1..T
    BY <1>1, <1>2, <1>4
  <2> QED BY <1>4, <2>1, <2>2 DEF TamanioDeEntrada, need
<1> QED BY <1>1, <1>3, <1>4 DEF need

\* p is m with v at the free entries from n on.
Extendida(m, k, v, n, p) ==
  LET need == cantidadDeEntradasRequeridasParaValor(Len(v))
  IN  /\ n \in Entradas /\ n + need - 1 \in Entradas /\ n..(n + need - 1) \subseteq Libres(m)
      /\ p \in Memoria /\ p.fallo = m.fallo /\ p.activo = m.activo /\ p.contador = m.contador
      /\ p.resp = "EXITO_I" /\ p.bytes = memcpy(m.bytes, n * T, v)
      /\ \A x \in Entradas : x \notin n..(n + need - 1) => p.tabla[x] = m.tabla[x]
      /\ \A x \in n..(n + need - 1) :
           p.tabla[x] = Registro(m, k, TamanioDeEntrada(Len(v), x - n), FALSE)

\* The two last assignments of GuardarNoAtomica, after the table z.
Cierra(z, n, need, v) ==
  [AvanzarNumero(z, n + need) EXCEPT !.bytes = memcpy(@, n * T, v), !.resp = "EXITO_I"]

\* They leave the table as it is.
Cerrada(z, n, need, v, r) ==
  /\ r \in Memoria /\ r.tabla = z.tabla /\ r.fallo = z.fallo /\ r.activo = z.activo
  /\ r.contador = z.contador /\ r.resp = "EXITO_I" /\ r.bytes = memcpy(z.bytes, n * T, v)
  /\ r.numero = Menor(n + need, N)

\* They leave the table as it is.
LEMMA CierraEs ==
  ASSUME NEW z \in Memoria, NEW n \in Nat, NEW need \in Nat, NEW v \in Seq(Byte)
  PROVE  Cerrada(z, n, need, v, Cierra(z, n, need, v))
<1> DEFINE b == memcpy(z.bytes, n * T, v)
           y == AvanzarNumero(z, n + need)
<1>1. b \in [Direcciones -> Byte]
  BY PorT, Copiar DEF Memoria
<1>2. Menor(n + need, N) \in 0..N
  BY TablaBienFormada DEF Menor
<1>3. /\ y \in Memoria /\ y.bytes = z.bytes /\ y.tabla = z.tabla /\ y.fallo = z.fallo
      /\ y.activo = z.activo /\ y.contador = z.contador /\ y.numero = Menor(n + need, N)
  BY <1>2 DEF AvanzarNumero, Memoria
<1> HIDE DEF y
<1>4. [y EXCEPT !.bytes = memcpy(@, n * T, v), !.resp = "EXITO_I"]
        = [y EXCEPT !.bytes = b, !.resp = "EXITO_I"]
  BY <1>3 DEF Memoria
<1> HIDE DEF b
<1>5. LET r == [y EXCEPT !.bytes = b, !.resp = "EXITO_I"]
      IN  /\ r \in Memoria /\ r.tabla = y.tabla /\ r.fallo = y.fallo /\ r.activo = y.activo
          /\ r.contador = y.contador /\ r.resp = "EXITO_I" /\ r.bytes = b /\ r.numero = y.numero
  BY <1>1, <1>3 DEF Memoria
<1>6. Cierra(z, n, need, v) = [y EXCEPT !.bytes = b, !.resp = "EXITO_I"]
  BY <1>4 DEF y, Cierra
<1> HIDE DEF Cierra
<1> QED BY <1>3, <1>5, <1>6 DEF b, Cerrada

\* The entry from which GuardarNoAtomica stores.
Desde(m) == IF m.numero >= N THEN N - LibresAlFinal(m) ELSE m.numero

\* It is a number.
LEMMA DesdeNat ==
  ASSUME NEW m \in Memoria
  PROVE  Desde(m) \in Nat
BY FinalLibre, TablaBienFormada DEF Memoria, Desde

\* When the entries from that one on are free, the value is stored in them.
HayLugar(m, v, need, n) ==
  /\ need = cantidadDeEntradasRequeridasParaValor(Len(v)) /\ need > 0 /\ need <= LibresAlFinal(m)
  /\ n = Desde(m)
  /\ n..(n + need - 1) \subseteq Entradas /\ n..(n + need - 1) \subseteq Libres(m)

\* With room, the value is stored there.
LEMMA NoAtomicaEn ==
  ASSUME NEW m \in Memoria, NEW k \in Claves, NEW v \in Seq(Byte), NEW need \in Nat, NEW n \in Nat,
         HayLugar(m, v, need, n)
  PROVE  LET p == GuardarNoAtomica(m, k, v)
         IN  Extendida(m, k, v, n, p) /\ p.numero = Menor(n + need, N)
<1> DEFINE ocupa == n..(n + need - 1)
           q == guardarIndiceNoAtomicoEnTabla(m, k, Len(v), n)
           p == GuardarNoAtomica(m, k, v)
           t == [x \in Entradas |->
                   IF x \in ocupa THEN Registro(m, k, TamanioDeEntrada(Len(v), x - n), FALSE)
                   ELSE m.tabla[x]]
<1>0. /\ need = cantidadDeEntradasRequeridasParaValor(Len(v)) /\ need > 0 /\ need <= LibresAlFinal(m)
      /\ n = Desde(m) /\ ocupa \subseteq Entradas /\ ocupa \subseteq Libres(m)
  BY DEF HayLugar
<1>1. q = [m EXCEPT !.tabla = t]
  BY <1>0 DEF guardarIndiceNoAtomicoEnTabla, Memoria
<1>2. Len(v) \in Nat /\ \A x \in ocupa : x - n \in Nat /\ x - n < need
  OBVIOUS
<1>3. \A x \in ocupa : TamanioDeEntrada(Len(v), x - n) \in 1..T
  <2> HIDE DEF ocupa
  <2> QED BY <1>0, <1>2, TamanioDe
<1>4. \A x \in ocupa : Registro(m, k, TamanioDeEntrada(Len(v), x - n), FALSE) \in Registros
  <2> HIDE DEF ocupa
  <2>1. \A tam \in 1..T : Registro(m, k, tam, FALSE) \in Registros
    BY TablaBienFormada DEF Registro, Registros, Memoria
  <2> QED BY <1>3, <2>1
<1>5. t \in [Entradas -> Registros \cup {Libre}]
  BY <1>4 DEF Memoria
<1>6. q \in Memoria /\ q.tabla = t /\ q.fallo = m.fallo /\ q.activo = m.activo
      /\ q.contador = m.contador /\ q.bytes = m.bytes
  <2> HIDE DEF t
  <2> QED BY <1>1, <1>5 DEF Memoria
<1>7. p = Cierra(q, n, need, v)
  <2>1. ~(LibresAlFinal(m) < need)
    BY <1>0, FinalLibre, TablaBienFormada
  <2> QED BY <1>0, <2>1 DEF GuardarNoAtomica, Cierra, Desde
<1> HIDE DEF q, t, p
<1>8. /\ p \in Memoria /\ p.tabla = t /\ p.fallo = m.fallo /\ p.activo = m.activo
      /\ p.contador = m.contador /\ p.resp = "EXITO_I" /\ p.bytes = memcpy(m.bytes, n * T, v)
      /\ p.numero = Menor(n + need, N)
  <2>1. Cerrada(q, n, need, v, p)
    BY <1>6, <1>7, CierraEs
  <2> QED BY <1>6, <2>1 DEF Cerrada
<1>9. /\ \A x \in Entradas : x \notin ocupa => p.tabla[x] = m.tabla[x]
      /\ \A x \in ocupa : p.tabla[x] = Registro(m, k, TamanioDeEntrada(Len(v), x - n), FALSE)
  <2>1. ocupa \subseteq Entradas
    BY <1>0
  <2> HIDE DEF ocupa
  <2> QED BY <1>8, <2>1 DEF t
<1>10. n \in ocupa /\ n + need - 1 \in ocupa
  BY <1>0
<1>11. Extendida(m, k, v, n, p)
  BY <1>0, <1>8, <1>9, <1>10 DEF Extendida
<1> QED BY <1>8, <1>11 DEF p

\* The ways in which GuardarNoAtomica ends.
LEMMA NoAtomicaForma ==
  ASSUME NEW m \in Memoria, NEW k \in Claves, NEW v \in Seq(Byte),
         cantidadDeEntradasRequeridasParaValor(Len(v)) > 0
  PROVE  LET p == GuardarNoAtomica(m, k, v)
         IN  \/ /\ p = [m EXCEPT !.resp = "COMPACTAR"]
                /\ LibresAlFinal(m) < cantidadDeEntradasRequeridasParaValor(Len(v))
             \/ /\ p \in Memoria /\ p.tabla = m.tabla /\ p.fallo \in {"fuera", "superpuesta"}
                /\ p.resp = "EXITO_I"
             \/ \E n \in Entradas : Extendida(m, k, v, n, p)
<1> DEFINE need == cantidadDeEntradasRequeridasParaValor(Len(v))
           n == Desde(m)
           q == guardarIndiceNoAtomicoEnTabla(m, k, Len(v), n)
           p == GuardarNoAtomica(m, k, v)
           ocupa == n..(n + need - 1)
<1>1. need \in Nat /\ need > 0 /\ n \in Nat /\ LibresAlFinal(m) \in Nat
  BY Requeridas, DesdeNat, FinalLibre
<1>2. CASE LibresAlFinal(m) < need
  BY <1>2 DEF GuardarNoAtomica
<1>3. CASE ~(LibresAlFinal(m) < need)
  <2>1. p = Cierra(q, n, need, v)
    BY <1>3 DEF GuardarNoAtomica, Cierra, Desde
  <2>2. \/ \E f \in {"fuera", "superpuesta"} : q = Romper(m, f)
        \/ ocupa \subseteq Entradas /\ ocupa \subseteq Libres(m)
    BY DEF guardarIndiceNoAtomicoEnTabla
  <2> HIDE DEF q
  <2>3. ASSUME NEW f \in {"fuera", "superpuesta"}, q = Romper(m, f)
        PROVE  /\ p \in Memoria /\ p.tabla = m.tabla /\ p.fallo \in {"fuera", "superpuesta"}
               /\ p.resp = "EXITO_I"
    <3>1. q \in Memoria /\ q.tabla = m.tabla /\ q.fallo = f
      BY <2>3 DEF Romper, Memoria
    <3> HIDE DEF p, n, need
    <3>2. Cerrada(q, n, need, v, p)
      BY <1>1, <2>1, <3>1, CierraEs
    <3> QED BY <2>3, <3>1, <3>2 DEF Cerrada
  <2>4. CASE ocupa \subseteq Entradas /\ ocupa \subseteq Libres(m)
    <3>1. n \in ocupa
      BY <1>1
    <3>2. n \in Entradas /\ need <= LibresAlFinal(m)
      BY <1>1, <1>3, <2>4, <3>1
    <3>3. Extendida(m, k, v, n, p)
      <4>1. HayLugar(m, v, need, n)
        BY <1>1, <2>4, <3>2 DEF HayLugar
      <4> HIDE DEF n, need
      <4> QED BY <1>1, <4>1, NoAtomicaEn
    <3> QED BY <3>2, <3>3 DEF p
  <2> QED BY <2>2, <2>3, <2>4 DEF p
<1> QED BY <1>2, <1>3

\* The entries of that value are new, and all but the last are full.
LEMMA ExtendidaColoca ==
  ASSUME NEW k \in Claves, NEW m \in Memoria,
         NEW v \in Seq(Byte), cantidadDeEntradasRequeridasParaValor(Len(v)) > 0,
         NEW n, NEW p, Extendida(m, k, v, n, p)
  PROVE  LET hi == n + cantidadDeEntradasRequeridasParaValor(Len(v)) - 1
         IN  n \in Entradas /\ hi \in Entradas /\ Coloca(m, p, k, n, hi)
<1> DEFINE need == cantidadDeEntradasRequeridasParaValor(Len(v))
           hi == n + need - 1
<1>1. need \in Nat /\ Len(v) \in Nat /\ n \in Nat
  BY Requeridas, TablaBienFormada DEF Extendida, Entradas
<1>2. n \in Entradas /\ hi \in Entradas /\ n..hi \subseteq Libres(m) /\ p \in Memoria
      /\ (\A x \in Entradas : x \notin n..hi => p.tabla[x] = m.tabla[x])
      /\ \A x \in n..hi : p.tabla[x] = Registro(m, k, TamanioDeEntrada(Len(v), x - n), FALSE)
  BY DEF Extendida
<1>3. ASSUME NEW x \in n..hi
      PROVE  /\ m.tabla[x] = Libre /\ p.tabla[x] \in Registros /\ p.tabla[x].clave = k
             /\ x < hi => p.tabla[x].tam = T
  <2>1. x - n \in Nat /\ x - n < need /\ (x < hi => (x - n) + 1 < need)
    BY <1>1
  <2>2. TamanioDeEntrada(Len(v), x - n) \in 1..T
        /\ (x < hi => TamanioDeEntrada(Len(v), x - n) = T)
    <3> HIDE DEF hi
    <3> QED BY <1>1, <2>1, TamanioDe
  <2>3. p.tabla[x] = Registro(m, k, TamanioDeEntrada(Len(v), x - n), FALSE) /\ m.tabla[x] = Libre
    BY <1>2 DEF Libres
  <2> HIDE DEF hi
  <2> DEFINE tam == TamanioDeEntrada(Len(v), x - n)
  <2> HIDE DEF tam
  <2>4. tam \in 1..T /\ (x < hi => tam = T) /\ p.tabla[x] = Registro(m, k, tam, FALSE)
    BY <2>2, <2>3 DEF tam
  <2>5. Registro(m, k, tam, FALSE) \in Registros /\ Registro(m, k, tam, FALSE).clave = k
        /\ Registro(m, k, tam, FALSE).tam = tam
    BY <2>4, TablaBienFormada DEF Registro, Registros, Memoria
  <2> QED BY <2>3, <2>4, <2>5
<1> HIDE DEF hi
<1>4. Coloca(m, p, k, n, hi)
  BY <1>2, <1>3 DEF Coloca
<1> QED BY <1>2, <1>4 DEF hi

\* It does not disturb the table.
LEMMA ExtendidaBuena ==
  ASSUME NEW A \in SUBSET Claves, NEW k \in A, NEW m, Buena(m, A), ~Guardada(m, k),
         NEW v \in Seq(Byte), cantidadDeEntradasRequeridasParaValor(Len(v)) > 0,
         NEW n, NEW p, Extendida(m, k, v, n, p)
  PROVE  Buena(p, A)
<1> QED BY ExtendidaColoca, ColocarBuena DEF Buena

(***************************************************************************)
(* A new value for a key that has one.                                     *)
(***************************************************************************)
\* How many of lo..hi come before x.
LEMMA Puesto ==
  ASSUME NEW lo \in Int, NEW hi \in Int, NEW x \in lo..hi
  PROVE  Cardinality({y \in lo..hi : y < x}) = x - lo
<1> DEFINE D == {y \in lo..hi : y < x}
<1>1. D = lo..(x - 1)
  OBVIOUS
<1> HIDE DEF D
<1>2. Cardinality(lo..(x - 1)) = IF lo > x - 1 THEN 0 ELSE (x - 1) - lo + 1
  <2>1. x - 1 \in Int
    OBVIOUS
  <2> QED BY <2>1, FS_Interval
<1>3. Cardinality(D) = x - lo
  BY <1>1, <1>2
<1> QED BY <1>3 DEF D

\* p is m with v in place of the value that k had from entry lo to entry hi.
Actualizada(m, k, v, lo, hi, p) ==
  LET need == cantidadDeEntradasRequeridasParaValor(Len(v))
  IN  /\ p \in Memoria /\ p.numero = m.numero /\ p.activo = m.activo
      /\ p.resp = m.resp /\ p.fallo = m.fallo
      /\ p.bytes = strcpy(memset(m.bytes, lo * T, TamanioTotal(m, k)), lo * T, v)
      /\ \A x \in Entradas : x \notin lo..hi => p.tabla[x] = m.tabla[x]
      /\ \A x \in lo..hi :
           p.tabla[x] = IF x - lo < need
                        THEN [m.tabla[x] EXCEPT !.tam = TamanioDeEntrada(Len(v), x - lo),
                                                !.op = m.contador]
                        ELSE Libre

\* That is what actualizarEntradasConNuevoValor does.
LEMMA ActualizarForma ==
  ASSUME NEW m \in Memoria, NEW k, NEW lo, NEW hi, Tramo(m, k, lo, hi), NEW v \in Seq(Byte)
  PROVE  Actualizada(m, k, v, lo, hi, actualizarEntradasConNuevoValor(m, k, v))
<1> DEFINE need == cantidadDeEntradasRequeridasParaValor(Len(v))
           S == obtenerIndicesDeClave(m, k)
           puesto(x) == Cardinality({y \in S : y < x})
           quedan == {x \in S : puesto(x) < need}
           t == [x \in Entradas |->
                   IF x \in quedan
                   THEN [m.tabla[x] EXCEPT !.tam = TamanioDeEntrada(Len(v), puesto(x)), !.op = m.contador]
                   ELSE IF x \in S THEN Libre ELSE m.tabla[x]]
           b == strcpy(memset(m.bytes, Min(S) * T, TamanioTotal(m, k)), Min(S) * T, v)
           p == actualizarEntradasConNuevoValor(m, k, v)
<1>1. p = [m EXCEPT !.tabla = t, !.bytes = b, !.contador = SiguienteOperacion(m)]
  BY DEF actualizarEntradasConNuevoValor, Memoria
<1>2. /\ S = lo..hi /\ lo \in Entradas /\ hi \in Entradas /\ lo <= hi /\ lo \in Nat /\ hi \in Nat
      /\ \A x \in lo..hi : x \in Entradas
  BY TablaBienFormada DEF Tramo, Entradas
<1>3. need \in Nat /\ Len(v) \in Nat
  BY Requeridas
<1>4. \A x \in S : puesto(x) = x - lo
  <2>1. lo \in Int /\ hi \in Int
    BY <1>2
  <2> HIDE DEF S
  <2> QED BY <1>2, <2>1, Puesto
<1>5. \A x \in S : m.tabla[x] \in Registros
  BY DEF obtenerIndicesDeClave, Memoria
<1>6. Min(S) = lo
  <2>1. S \in SUBSET Entradas /\ S # {} /\ lo \in S
    BY <1>2 DEF obtenerIndicesDeClave
  <2> HIDE DEF S
  <2>2. Min(S) \in S /\ Min(S) <= lo
    BY <2>1, MinimoMaximo
  <2> QED BY <1>2, <2>2
<1> HIDE DEF p, S
<1>7. t \in [Entradas -> Registros \cup {Libre}]
  <2> SUFFICES ASSUME NEW x \in Entradas PROVE t[x] \in Registros \cup {Libre}
    OBVIOUS
  <2>1. CASE x \in quedan
    <3> DEFINE tam == TamanioDeEntrada(Len(v), puesto(x))
    <3>1. x \in S /\ puesto(x) < need /\ puesto(x) \in Nat
      BY <1>2, <1>4, <2>1
    <3>2. tam \in 1..T
      <4> HIDE DEF puesto
      <4> QED BY <1>3, <3>1, TamanioDe
    <3>3. t[x] = [m.tabla[x] EXCEPT !.tam = tam, !.op = m.contador]
      BY <2>1
    <3>4. m.tabla[x] \in Registros /\ m.contador \in Nat /\ tam \in 0..T
      BY <1>5, <3>1, <3>2, TablaBienFormada DEF Memoria
    <3> HIDE DEF tam, t
    <3> QED BY <3>3, <3>4 DEF Registros
  <2>2. CASE x \notin quedan
    BY <2>2 DEF Memoria
  <2> QED BY <2>1, <2>2
<1>8. b \in [Direcciones -> Byte]
  <2>1. TamanioTotal(m, k) \in Nat
    BY TamanioNat
  <2>2. lo * T \in Nat
    BY <1>2, PorT
  <2>3. memset(m.bytes, lo * T, TamanioTotal(m, k)) \in [Direcciones -> Byte]
    BY <2>1, <2>2, Copiar DEF Memoria
  <2> QED BY <1>6, <2>2, <2>3, Copiar
<1>9. SiguienteOperacion(m) \in Nat
  BY DEF SiguienteOperacion, Memoria
<1>10. /\ p \in Memoria /\ p.tabla = t /\ p.bytes = b /\ p.numero = m.numero /\ p.activo = m.activo
       /\ p.resp = m.resp /\ p.fallo = m.fallo
  <2> HIDE DEF t, b
  <2> QED BY <1>1, <1>7, <1>8, <1>9 DEF Memoria
<1>11. ASSUME NEW x \in Entradas, x \notin lo..hi PROVE t[x] = m.tabla[x]
  BY <1>2, <1>11
<1>12. ASSUME NEW x \in lo..hi
       PROVE  t[x] = IF x - lo < need
                     THEN [m.tabla[x] EXCEPT !.tam = TamanioDeEntrada(Len(v), x - lo), !.op = m.contador]
                     ELSE Libre
  <2>1. x \in S /\ puesto(x) = x - lo /\ x \in Entradas
    BY <1>2, <1>4
  <2> HIDE DEF puesto
  <2> QED BY <2>1
<1> HIDE DEF t, b
<1>13. b = strcpy(memset(m.bytes, lo * T, TamanioTotal(m, k)), lo * T, v)
  BY <1>6 DEF b
<1> QED BY <1>10, <1>11, <1>12, <1>13 DEF Actualizada, p

\* It does not disturb the table.
LEMMA ActualizarBuena ==
  ASSUME NEW A, NEW m, Buena(m, A), NEW k, NEW lo, NEW hi, Tramo(m, k, lo, hi),
         NEW v \in Seq(Byte), NEW p, Actualizada(m, k, v, lo, hi, p)
  PROVE  Buena(p, A)
<1> DEFINE need == cantidadDeEntradasRequeridasParaValor(Len(v))
           r(x) == [m.tabla[x] EXCEPT !.tam = TamanioDeEntrada(Len(v), x - lo), !.op = m.contador]
<1>1. /\ lo \in Nat /\ hi \in Nat /\ need \in Nat /\ Len(v) \in Nat /\ m \in Memoria
      /\ obtenerIndicesDeClave(m, k) = lo..hi
  BY Requeridas, TablaBienFormada DEF Tramo, Entradas, Buena
<1>2. \A x \in Entradas : x \in lo..hi <=> m.tabla[x] # Libre /\ m.tabla[x].clave = k
  BY <1>1 DEF obtenerIndicesDeClave
<1>3. /\ p \in Memoria
      /\ \A x \in Entradas : x \notin lo..hi => p.tabla[x] = m.tabla[x]
      /\ \A x \in lo..hi : p.tabla[x] = IF x - lo < need THEN r(x) ELSE Libre
  BY DEF Actualizada
<1>4. \A x \in Entradas : x \in lo..hi => r(x).clave = k
  BY <1>1, <1>2 DEF Memoria, Registros
<1>5. ASSUME NEW x \in Entradas, x \in lo..hi, x - lo + 1 < need PROVE r(x).tam = T
  <2>1. x - lo \in Nat /\ x - lo < need
    BY <1>1, <1>5
  <2>2. TamanioDeEntrada(Len(v), x - lo) = T
    BY <1>1, <1>5, <2>1, TamanioDe
  <2> QED BY <1>1, <1>2, <1>5, <2>2 DEF Memoria, Registros
<1>6. \A x \in Entradas : x \in lo..hi /\ x - lo < need => r(x) # Libre
  <2> SUFFICES ASSUME NEW x \in Entradas, x \in lo..hi, x - lo < need PROVE r(x) # Libre
    OBVIOUS
  <2>1. p.tabla[x] = r(x) /\ m.tabla[x] \in Registros /\ m.contador \in Nat
    BY <1>1, <1>2, <1>3 DEF Memoria
  <2>2. TamanioDeEntrada(Len(v), x - lo) \in 0..T
    <3>1. x - lo \in Nat
      BY <1>1
    <3>2. TamanioDeEntrada(Len(v), x - lo) \in 1..T
      BY <1>1, <3>1, TamanioDe
    <3> QED BY <3>2, TablaBienFormada
  <2>3. r(x) \in Registros
    BY <2>1, <2>2 DEF Registros
  <2> QED BY <2>3, CentinelasDistintos
<1> HIDE DEF r
<1>7. Asignada(p, A)
  <2> SUFFICES ASSUME NEW x \in Entradas, p.tabla[x] # Libre PROVE p.tabla[x].clave \in A
    BY DEF Asignada
  <2>1. m.tabla[x] # Libre /\ p.tabla[x].clave = m.tabla[x].clave
    BY <1>2, <1>3, <1>4
  <2> QED BY <2>1 DEF Buena, Asignada
<1>8. Corrida(p)
  <2> SUFFICES ASSUME NEW a \in Entradas, NEW b \in Entradas, a < b,
                      p.tabla[a] # Libre, p.tabla[b] # Libre, p.tabla[a].clave = p.tabla[b].clave
               PROVE  /\ p.tabla[a].tam = T
                      /\ \A x \in a..b : p.tabla[x] # Libre /\ p.tabla[x].clave = p.tabla[a].clave
    BY DEF Corrida
  <2>0. \A x \in a..b : x \in Entradas /\ x \in Nat /\ a \in Nat /\ b \in Nat
    BY TablaBienFormada DEF Entradas
  <2>1. CASE a \in lo..hi
    <3>1. b \in lo..hi /\ b - lo < need /\ p.tabla[a].clave = k
      BY <1>2, <1>3, <1>4, <2>1
    <3>2. a - lo + 1 < need /\ a - lo < need
      BY <1>1, <2>1, <3>1
    <3>3. \A x \in a..b : x \in lo..hi /\ x - lo < need
      BY <1>1, <2>1, <3>1
    <3> QED BY <1>3, <1>4, <1>5, <1>6, <2>0, <2>1, <3>1, <3>2, <3>3
  <2>2. CASE a \notin lo..hi
    <3>1. p.tabla[a] = m.tabla[a] /\ m.tabla[a].clave # k
      BY <1>2, <1>3, <2>2
    <3>2. b \notin lo..hi
      BY <1>3, <1>4, <3>1
    <3>3. p.tabla[b] = m.tabla[b]
      BY <1>3, <3>2
    <3>4. /\ m.tabla[a].tam = T
          /\ \A x \in a..b : m.tabla[x] # Libre /\ m.tabla[x].clave = m.tabla[a].clave
      BY <3>1, <3>3 DEF Buena, Corrida
    <3>5. \A x \in a..b : p.tabla[x] = m.tabla[x]
      BY <1>2, <1>3, <2>0, <3>1, <3>4
    <3> QED BY <3>1, <3>4, <3>5
  <2> QED BY <2>1, <2>2
<1> QED BY <1>3, <1>7, <1>8 DEF Buena

(***************************************************************************)
(* guardarClaveValor                                                       *)
(***************************************************************************)
\* m with another respuestaParaCoordinador.
ConResp(m, r) == [m EXCEPT !.resp = r]

\* The answer is not part of the table.
LEMMA ConRespBuena ==
  ASSUME NEW A, NEW m, Buena(m, A), NEW r \in Respuestas
  PROVE  LET p == ConResp(m, r)
         IN  /\ Buena(p, A) /\ p.tabla = m.tabla /\ p.bytes = m.bytes /\ p.fallo = m.fallo
             /\ p.contador = m.contador /\ p.numero = m.numero /\ p.activo = m.activo /\ p.resp = r
<1> DEFINE p == ConResp(m, r)
<1>1. m \in Memoria
  BY DEF Buena
<1>2. /\ p \in Memoria /\ p.tabla = m.tabla /\ p.bytes = m.bytes /\ p.fallo = m.fallo
      /\ p.contador = m.contador /\ p.numero = m.numero /\ p.activo = m.activo /\ p.resp = r
  BY <1>1 DEF ConResp, Memoria, Respuestas
<1> HIDE DEF p
<1>3. Buena(p, A)
  BY <1>2, SinTabla
<1> QED BY <1>2, <1>3 DEF p

\* The ways in which guardarClaveValor ends, and what each one knows.
Creceria(m, k, v, p) == Crece(m, k, Len(v)) /\ p = ConResp(m, "EXITO_I")

Actualiza(m, k, v, p) ==
  \E lo, hi \in Entradas, q \in Memoria :
    /\ Tramo(m, k, lo, hi) /\ cantidadDeEntradasRequeridasParaValor(Len(v)) <= hi - lo + 1
    /\ Actualizada(m, k, v, lo, hi, q) /\ p = ConResp(q, "EXITO_I")

EsAtomica(m, k, v, p) ==
  ~Guardada(m, k) /\ Len(v) <= T /\ p = ConResp(GuardarAtomica(m, k, v), "EXITO_I")

NoCabe(m, k, p) == ~Guardada(m, k) /\ p = ConResp(m, "ERROR_I")

EsDeVarias(m, k, v, p) ==
  LET need == cantidadDeEntradasRequeridasParaValor(Len(v))
  IN  /\ ~Guardada(m, k) /\ need > 1
      /\ \E q \in Memoria : /\ Poda(m, q) /\ Cardinality(Libres(q)) >= need /\ ~Guardada(q, k)
                            /\ p = GuardarNoAtomica(q, k, v)

\* The five ways in which guardarClaveValor ends.
LEMMA GuardarForma ==
  ASSUME NEW A, NEW m, Buena(m, A), m.fallo = "no", NEW k, NEW v \in Seq(Byte)
  PROVE  LET p == guardarClaveValor(m, k, v)
         IN  \/ Creceria(m, k, v, p)
             \/ ~Crece(m, k, Len(v)) /\ Guardada(m, k) /\ Actualiza(m, k, v, p)
             \/ EsAtomica(m, k, v, p)
             \/ NoCabe(m, k, p)
             \/ EsDeVarias(m, k, v, p)
<1> DEFINE need == cantidadDeEntradasRequeridasParaValor(Len(v))
           p == guardarClaveValor(m, k, v)
<1>1. m \in Memoria /\ need \in Nat /\ Len(v) \in Nat /\ Len(v) <= need * T
  BY Requeridas DEF Buena
<1>2. CASE Crece(m, k, Len(v))
  BY <1>2 DEF guardarClaveValor, Creceria, ConResp
<1>3. CASE ~Crece(m, k, Len(v)) /\ Guardada(m, k)
  <2> DEFINE q == actualizarEntradasConNuevoValor(m, k, v)
  <2>1. p = ConResp(q, "EXITO_I")
    BY <1>3 DEF guardarClaveValor, ConResp
  <2> DEFINE S == obtenerIndicesDeClave(m, k)
             lo == Min(S)
             hi == Max(S)
  <2>2. Tramo(m, k, lo, hi)
    BY <1>3, ClaveTramo
  <2> HIDE DEF lo, hi, q, p
  <2>3. lo \in Entradas /\ hi \in Entradas /\ lo <= hi /\ lo \in Int /\ hi \in Int /\ S = lo..hi
    BY <2>2, TablaBienFormada DEF Tramo, Entradas
  <2>4. Actualizada(m, k, v, lo, hi, q)
    BY <1>1, <2>2, ActualizarForma DEF q
  <2>5. q \in Memoria
    BY <2>4 DEF Actualizada
  <2>6. need <= hi - lo + 1
    <3>1. need <= Cardinality(S)
      <4>1. Cardinality(S) \in Nat
        <5>1. S \in SUBSET Entradas
          BY DEF obtenerIndicesDeClave
        <5> HIDE DEF S
        <5> QED BY <5>1, Cuenta, TablaBienFormada
      <4> QED BY <1>1, <1>3, <4>1 DEF Crece
    <3> HIDE DEF S, need
    <3>2. Cardinality(lo..hi) = IF lo > hi THEN 0 ELSE hi - lo + 1
      BY <2>3, FS_Interval
    <3> QED BY <2>3, <3>1, <3>2
  <2> HIDE DEF S
  <2> QED BY <1>3, <2>1, <2>2, <2>3, <2>4, <2>5, <2>6 DEF Actualiza, p
<1>4. CASE ~Guardada(m, k)
  <2>1. ~Crece(m, k, Len(v))
    BY <1>4 DEF Crece
  <2>2. CASE need <= 1
    <3>1. p = ConResp(GuardarAtomica(m, k, v), "EXITO_I")
      BY <1>4, <2>1, <2>2 DEF guardarClaveValor, ConResp
    <3>2. Len(v) <= T
      <4> HIDE DEF need
      <4>1. need * T <= 1 * T /\ 1 * T = T /\ need * T \in Int /\ T \in Int
        BY <1>1, <2>2, Producto, TablaBienFormada
      <4> QED BY <1>1, <4>1
    <3> QED BY <1>4, <3>1, <3>2 DEF EsAtomica
  <2>3. CASE need > Cardinality(Libres(m)) + Cardinality(Atomicas(m)) /\ ~(need <= 1)
    BY <1>4, <2>1, <2>3 DEF guardarClaveValor, NoCabe, ConResp
  <2>4. CASE ~(need > Cardinality(Libres(m)) + Cardinality(Atomicas(m))) /\ ~(need <= 1)
    <3> DEFINE q == Liberar(m, need)
    <3>1. Cardinality(Libres(m)) \in Nat /\ Cardinality(Atomicas(m)) \in Nat
      BY CuentaTabla
    <3>2. Alcanza(m, need)
      BY <1>1, <2>4, <3>1 DEF Alcanza
    <3>3. Poda(m, q) /\ Cardinality(Libres(q)) >= need
      BY <1>1, <3>2, LiberarPoda
    <3>4. p = IF q.fallo # "no" THEN q ELSE GuardarNoAtomica(q, k, v)
      BY <1>4, <2>1, <2>4 DEF guardarClaveValor
    <3> HIDE DEF q, p
    <3>5. p = GuardarNoAtomica(q, k, v) /\ q \in Memoria
      BY <3>3, <3>4 DEF Poda
    <3>6. ~Guardada(q, k)
      BY <1>4, <3>3 DEF Guardada, obtenerIndicesDeClave, Poda
    <3>7. need > 1
      BY <1>1, <2>4
    <3> QED BY <1>4, <3>3, <3>5, <3>6, <3>7 DEF EsDeVarias, p
  <2> QED BY <2>2, <2>3, <2>4
<1> QED BY <1>2, <1>3, <1>4

\* None of them disturbs the table.
LEMMA GuardarBuena ==
  ASSUME NEW A \in SUBSET Claves, NEW k \in A, NEW m, Buena(m, A), m.fallo = "no",
         NEW v \in Seq(Byte)
  PROVE  Buena(guardarClaveValor(m, k, v), A)
<1> DEFINE p == guardarClaveValor(m, k, v)
<1>1. \/ Creceria(m, k, v, p)
      \/ ~Crece(m, k, Len(v)) /\ Guardada(m, k) /\ Actualiza(m, k, v, p)
      \/ EsAtomica(m, k, v, p)
      \/ NoCabe(m, k, p)
      \/ EsDeVarias(m, k, v, p)
  BY GuardarForma
<1> SUFFICES Buena(p, A)
  OBVIOUS
<1> HIDE DEF p
<1>2. "EXITO_I" \in Respuestas /\ "ERROR_I" \in Respuestas /\ "COMPACTAR" \in Respuestas
  BY DEF Respuestas
<1>3. CASE Creceria(m, k, v, p)
  BY <1>2, <1>3, ConRespBuena DEF Creceria
<1>4. CASE Actualiza(m, k, v, p)
  BY <1>2, <1>4, ActualizarBuena, ConRespBuena DEF Actualiza
<1>5. CASE EsAtomica(m, k, v, p)
  <2>1. Buena(GuardarAtomica(m, k, v), A)
    BY <1>5, AtomicaBuena DEF EsAtomica
  <2> QED BY <1>2, <1>5, <2>1, ConRespBuena DEF EsAtomica
<1>6. CASE NoCabe(m, k, p)
  BY <1>2, <1>6, ConRespBuena DEF NoCabe
<1>7. CASE EsDeVarias(m, k, v, p)
  <2> DEFINE need == cantidadDeEntradasRequeridasParaValor(Len(v))
  <2>1. PICK q \in Memoria : Poda(m, q) /\ ~Guardada(q, k) /\ p = GuardarNoAtomica(q, k, v)
    BY <1>7 DEF EsDeVarias
  <2>2. Buena(q, A) /\ need > 0 /\ k \in Claves
    <3>1. need > 1 /\ need \in Nat
      BY <1>7, Requeridas DEF EsDeVarias
    <3>2. Buena(q, A)
      BY <2>1, PodaBuena
    <3> QED BY <3>1, <3>2
  <2>3. \/ p = [q EXCEPT !.resp = "COMPACTAR"]
        \/ p \in Memoria /\ p.tabla = q.tabla
        \/ \E n \in Entradas : Extendida(q, k, v, n, p)
    BY <2>1, <2>2, NoAtomicaForma
  <2>4. CASE p = [q EXCEPT !.resp = "COMPACTAR"]
    <3>1. p = ConResp(q, "COMPACTAR")
      BY <2>4 DEF ConResp
    <3> QED BY <1>2, <2>2, <3>1, ConRespBuena
  <2>5. CASE p \in Memoria /\ p.tabla = q.tabla
    BY <2>2, <2>5, SinTabla
  <2>6. CASE \E n \in Entradas : Extendida(q, k, v, n, p)
    BY <2>1, <2>2, <2>6, ExtendidaBuena
  <2> QED BY <2>3, <2>4, <2>5, <2>6
<1> QED BY <1>1, <1>3, <1>4, <1>5, <1>6, <1>7

(***************************************************************************)
(* The compaction.                                                         *)
(***************************************************************************)
\* The entries of S before n, and the entry of S that has i of them before it.
Antes(S, n) == {x \in S : x < n}
Rango(S, i) == CHOOSE n \in S : Cardinality(Antes(S, n)) = i

\* Ranks grow with the entries.
LEMMA AntesCrece ==
  ASSUME NEW S \in SUBSET Entradas, NEW a \in 0..N, NEW b \in 0..N
  PROVE  /\ Cardinality(Antes(S, a)) \in Nat /\ Cardinality(Antes(S, a)) <= a
         /\ a <= b => Cardinality(Antes(S, a)) <= Cardinality(Antes(S, b))
         /\ a < b /\ a \in S => Cardinality(Antes(S, a)) < Cardinality(Antes(S, b))
         /\ a \in S => Cardinality(Antes(S, a)) < Cardinality(S)
<1>0. N \in Nat /\ \A x \in S : x \in Nat /\ x < N
  BY TablaBienFormada DEF Entradas
<1>1. Antes(S, a) \in SUBSET S /\ Antes(S, a) \in SUBSET Entradas
      /\ Antes(S, b) \in SUBSET S /\ Antes(S, b) \in SUBSET Entradas
  BY DEF Antes
<1>2. Cardinality(Antes(S, a)) \in Nat
  BY <1>0, <1>1, Cuenta
<1>3. Cardinality(Antes(S, a)) <= a
  <2>1. Antes(S, a) \in SUBSET (0..(a - 1))
    BY <1>0 DEF Antes
  <2>2. IsFiniteSet(0..(a - 1)) /\ Cardinality(0..(a - 1)) = IF 0 > a - 1 THEN 0 ELSE (a - 1) - 0 + 1
    <3>1. 0 \in Int /\ a - 1 \in Int
      BY <1>0
    <3> QED BY <3>1, FS_Interval
  <2>3. Cardinality(Antes(S, a)) <= Cardinality(0..(a - 1))
    BY <2>1, <2>2, FS_Subset
  <2> QED BY <1>0, <2>2, <2>3
<1>4. ASSUME a <= b PROVE Cardinality(Antes(S, a)) <= Cardinality(Antes(S, b))
  <2>1. Antes(S, a) \in SUBSET Antes(S, b)
    BY <1>0, <1>4 DEF Antes
  <2> QED BY <1>1, <2>1, CuentaMenos
<1>5. ASSUME a < b, a \in S PROVE Cardinality(Antes(S, a)) < Cardinality(Antes(S, b))
  <2>1. Antes(S, a) \in SUBSET Antes(S, b)
    <3>1. \A x \in S : x < a => x < b
      BY <1>0, <1>5
    <3> QED BY <3>1 DEF Antes
  <2>2. a \in Antes(S, b) /\ a \notin Antes(S, a)
    BY <1>0, <1>5 DEF Antes
  <2> QED BY <1>1, <2>1, <2>2, CuentaMenos
<1>6. ASSUME a \in S PROVE Cardinality(Antes(S, a)) < Cardinality(S)
  <2>1. Antes(S, a) # S
    BY <1>0, <1>6 DEF Antes
  <2> QED BY <1>1, <2>1, CuentaMenos
<1> QED BY <1>2, <1>3, <1>4, <1>5, <1>6

\* Every rank below the number of entries is that of one.
LEMMA HayRango ==
  ASSUME NEW S \in SUBSET Entradas, NEW i \in 0..(Cardinality(S) - 1)
  PROVE  \E n \in S : Cardinality(Antes(S, n)) = i
<1>0. N \in Nat /\ (\A x \in S : x \in Nat /\ x < N) /\ Cardinality(S) \in Nat /\ i \in Nat /\ i < Cardinality(S)
  <2>1. Cardinality(S) \in 0..N /\ N \in Nat
    BY Cuenta, TablaBienFormada
  <2> QED BY <2>1 DEF Entradas
<1> DEFINE Q == {n \in 0..N : Cardinality(Antes(S, n)) > i}
<1>1. Q \in SUBSET Nat /\ N \in Q
  <2>1. Antes(S, N) = S
    BY <1>0 DEF Antes
  <2> QED BY <1>0, <2>1
<1>2. PICK n \in Q : \A y \in Q : n <= y
  <2> HIDE DEF Q
  <2> QED BY <1>1, Minimo
<1>3. n \in 0..N /\ Cardinality(Antes(S, n)) > i
  BY <1>2
<1>4. n # 0
  <2>1. Antes(S, 0) = {}
    BY <1>0 DEF Antes
  <2>2. Cardinality(Antes(S, 0)) = 0
    BY <2>1, FS_EmptySet
  <2> QED BY <1>0, <1>3, <2>2
<1>5. n - 1 \in 0..N /\ n - 1 < n /\ ~(n <= n - 1)
  BY <1>0, <1>3, <1>4
<1>6. ~(Cardinality(Antes(S, n - 1)) > i)
  <2>1. n - 1 \notin Q
    BY <1>2, <1>5
  <2> QED BY <1>5, <2>1
<1> HIDE DEF Q
<1>7. Antes(S, n) \subseteq Antes(S, n - 1) \cup {n - 1} /\ (n - 1 \notin S => Antes(S, n) = Antes(S, n - 1))
  BY <1>0, <1>3 DEF Antes
<1>8. n - 1 \in S
  BY <1>3, <1>6, <1>7
<1>9. Cardinality(Antes(S, n)) <= Cardinality(Antes(S, n - 1)) + 1
  <2>1. Antes(S, n) = Antes(S, n - 1) \cup {n - 1} /\ n - 1 \notin Antes(S, n - 1)
    BY <1>0, <1>3, <1>8 DEF Antes
  <2>2. IsFiniteSet(Antes(S, n - 1)) /\ Cardinality(Antes(S, n - 1)) \in Nat
    <3>1. Antes(S, n - 1) \in SUBSET Entradas
      BY DEF Antes
    <3> QED BY <1>0, <3>1, Cuenta
  <2>3. Cardinality(Antes(S, n - 1) \cup {n - 1}) = Cardinality(Antes(S, n - 1)) + 1
    BY <2>1, <2>2, FS_AddElement
  <2> QED BY <2>1, <2>2, <2>3
<1>10. Cardinality(Antes(S, n - 1)) \in Nat /\ Cardinality(Antes(S, n)) \in Nat
  BY <1>3, <1>5, AntesCrece
<1>11. Cardinality(Antes(S, n - 1)) = i
  BY <1>0, <1>3, <1>6, <1>9, <1>10
<1> QED BY <1>8, <1>11

\* Rango numbers the entries of S in order.
LEMMA Rangos ==
  ASSUME NEW S \in SUBSET Entradas
  PROVE  /\ Cardinality(S) \in 0..N
         /\ \A i \in 0..(Cardinality(S) - 1) : Rango(S, i) \in S /\ i <= Rango(S, i)
         /\ \A i, j \in 0..(Cardinality(S) - 1) : i < j => Rango(S, i) < Rango(S, j)
         /\ \A n \in S : /\ Cardinality(Antes(S, n)) \in 0..(Cardinality(S) - 1)
                         /\ Rango(S, Cardinality(Antes(S, n))) = n
<1>0. N \in Nat /\ (\A x \in S : x \in 0..N /\ x \in Nat) /\ Cardinality(S) \in 0..N
  BY Cuenta, TablaBienFormada DEF Entradas
<1>1. \A i \in 0..(Cardinality(S) - 1) : Rango(S, i) \in S /\ Cardinality(Antes(S, Rango(S, i))) = i
  BY HayRango DEF Rango
<1>2. \A i \in 0..(Cardinality(S) - 1) : i <= Rango(S, i)
  BY <1>0, <1>1, AntesCrece
<1>3. \A i, j \in 0..(Cardinality(S) - 1) : i < j => Rango(S, i) < Rango(S, j)
  <2> SUFFICES ASSUME NEW i \in 0..(Cardinality(S) - 1), NEW j \in 0..(Cardinality(S) - 1), i < j,
                      ~(Rango(S, i) < Rango(S, j))
               PROVE  FALSE
    OBVIOUS
  <2>1. Rango(S, j) <= Rango(S, i) /\ Rango(S, i) \in 0..N /\ Rango(S, j) \in 0..N
    BY <1>0, <1>1
  <2>2. Cardinality(Antes(S, Rango(S, j))) <= Cardinality(Antes(S, Rango(S, i)))
    BY <2>1, AntesCrece
  <2> QED BY <1>0, <1>1, <2>2
<1>4. ASSUME NEW n \in S
      PROVE  /\ Cardinality(Antes(S, n)) \in 0..(Cardinality(S) - 1)
             /\ Rango(S, Cardinality(Antes(S, n))) = n
  <2> DEFINE i == Cardinality(Antes(S, n))
             r == Rango(S, i)
  <2>1. i \in Nat /\ i < Cardinality(S)
    BY <1>0, AntesCrece
  <2> HIDE DEF i
  <2>2. i \in 0..(Cardinality(S) - 1)
    BY <1>0, <2>1
  <2>3. r \in S /\ Cardinality(Antes(S, r)) = i
    BY <1>1, <2>2
  <2> HIDE DEF r
  <2>4. r \in 0..N /\ n \in 0..N /\ Cardinality(Antes(S, n)) = i
    BY <1>0, <2>3 DEF i
  <2>5. ~(r < n) /\ ~(n < r)
    BY <2>1, <2>3, <2>4, AntesCrece
  <2>6. r = n
    BY <1>0, <2>4, <2>5
  <2> QED BY <2>2, <2>6 DEF i, r
<1> QED BY <1>0, <1>1, <1>2, <1>3, <1>4

\* The string at d ends at the first NUL from d on, or with the block.
LEMMA LargoEs ==
  ASSUME NEW b, NEW d \in Direcciones
  PROVE  /\ Largo(b, d) \in Nat /\ d + Largo(b, d) \in Direcciones
         /\ b[d + Largo(b, d)] = NUL \/ d + Largo(b, d) = N * T
         /\ \A x \in Direcciones : d <= x /\ x < d + Largo(b, d) => b[x] # NUL
<1> DEFINE S == {x \in Direcciones : x >= d /\ (b[x] = NUL \/ x = N * T)}
<1>1. N \in Nat /\ N * T \in Nat
  BY TablaBienFormada, PorT
<1>2. N * T \in Direcciones /\ d <= N * T /\ d \in Nat /\ \A x \in Direcciones : x \in Nat
  BY <1>1 DEF Direcciones
<1>3. S \in SUBSET Nat /\ N * T \in S
  BY <1>2
<1>4. PICK n \in S : \A y \in S : n <= y
  <2> HIDE DEF S
  <2> QED BY <1>3, Minimo
<1>5. Min(S) \in S /\ \A y \in S : Min(S) <= y
  <2> HIDE DEF S
  <2> QED BY <1>4 DEF Min
<1>6. Largo(b, d) = Min(S) - d
  BY DEF Largo
<1> DEFINE z == Min(S)
<1>7. z \in Direcciones /\ z \in Nat /\ z >= d /\ (b[z] = NUL \/ z = N * T)
  BY <1>2, <1>5
<1>8. \A x \in Direcciones : d <= x /\ x < z => b[x] # NUL
  <2> SUFFICES ASSUME NEW x \in Direcciones, d <= x, x < z, b[x] = NUL PROVE FALSE
    OBVIOUS
  <2>1. x \in S
    BY <1>2
  <2>2. z <= x
    BY <1>5, <2>1
  <2> HIDE DEF z, S
  <2> QED BY <1>2, <1>7, <2>2
<1> HIDE DEF z, S
<1>9. Largo(b, d) = z - d /\ d + (z - d) = z /\ z - d \in Nat
  <2>1. Largo(b, d) = z - d
    BY <1>6 DEF z
  <2> QED BY <1>2, <1>7, <2>1
<1> QED BY <1>7, <1>8, <1>9

\* Reading L bytes from d.
LEMMA BytesEs ==
  ASSUME NEW b \in [Direcciones -> Byte], NEW d \in Nat, NEW L \in Nat, d + L <= N * T + 1
  PROVE  Bytes(b, d, L) \in Seq(Byte) /\ Len(Bytes(b, d, L)) = L
         /\ \A j \in 1..L : Bytes(b, d, L)[j] = b[d + j - 1]
<1>1. N * T \in Nat
  BY TablaBienFormada, PorT
<1>2. \A j \in 1..L : d + j - 1 \in Direcciones
  BY <1>1 DEF Direcciones
<1>3. \A j \in 1..L : b[d + j - 1] \in Byte
  BY <1>2
<1> QED BY <1>3 DEF Bytes

Ocupadas(m) == Entradas \ Libres(m)

\* The bytes after the string of entry n moves to entry i.
Movida(b, i, n) == strcpy(b, i * T, Bytes(b, n * T, Largo(b, n * T)))

\* Every entry lies in the block.
LEMMA EntradaEnBloque ==
  ASSUME NEW n \in Entradas
  PROVE  n * T \in Direcciones /\ n * T \in Nat /\ n * T + T <= N * T /\ N * T \in Nat
<1>1. n \in Nat /\ N \in Nat /\ n < N /\ T \in Nat
  BY TablaBienFormada DEF Entradas
<1>2. n * T \in Nat /\ N * T \in Nat /\ n * T + T <= N * T
  BY <1>1, PorT, Producto
<1> QED BY <1>1, <1>2 DEF Direcciones

\* The string that strcpy() reads from an entry.
LEMMA CadenaEs ==
  ASSUME NEW b \in [Direcciones -> Byte], NEW n \in Entradas
  PROVE  LET s == Bytes(b, n * T, Largo(b, n * T))
         IN  s \in Seq(Byte) /\ Len(s) = Largo(b, n * T)
             /\ \A j \in 1..Len(s) : s[j] = b[n * T + j - 1]
<1> DEFINE d == n * T
           L == Largo(b, d)
<1>1. d \in Direcciones /\ d \in Nat /\ N * T \in Nat
  BY EntradaEnBloque
<1> HIDE DEF d
<1>2. L \in Nat /\ d + L \in Direcciones
  BY <1>1, LargoEs
<1> HIDE DEF L
<1>3. d + L <= N * T + 1
  BY <1>1, <1>2 DEF Direcciones
<1>4. Bytes(b, d, L) \in Seq(Byte) /\ Len(Bytes(b, d, L)) = L
      /\ \A j \in 1..L : Bytes(b, d, L)[j] = b[d + j - 1]
  BY <1>1, <1>2, <1>3, BytesEs
<1> QED BY <1>4 DEF d, L

\* p is m compacted; f is the block after each record.
Compactada(m, p, f) ==
  LET S == Ocupadas(m)
  IN  /\ f \in [0..Cardinality(S) -> [Direcciones -> Byte]] /\ f[0] = m.bytes
      /\ \A i \in 1..Cardinality(S) : f[i] = Movida(f[i - 1], i - 1, Rango(S, i - 1))
      /\ p \in Memoria /\ p.bytes = f[Cardinality(S)]
      /\ p.numero = m.numero /\ p.activo = m.activo /\ p.contador = m.contador
      /\ p.resp = m.resp /\ p.fallo = m.fallo
      /\ \A x \in Entradas :
           p.tabla[x] = IF x < Cardinality(S) THEN m.tabla[Rango(S, x)] ELSE Libre

\* That is what compactarEntradas does.
LEMMA CompactarForma ==
  ASSUME NEW m \in Memoria
  PROVE  \E f : Compactada(m, compactarEntradas(m), f)
<1> DEFINE S == Ocupadas(m)
           C == Cardinality(S)
           B == [Direcciones -> Byte]
           g == [i \in 1..C |-> [b \in B |-> Movida(b, i - 1, Rango(S, i - 1))]]
           E(f) == [i \in 0..C |->
                      IF i = 0 THEN m.bytes
                      ELSE LET b == f[i - 1]
                               desde == Rango(S, i - 1) * T
                           IN  strcpy(b, (i - 1) * T, Bytes(b, desde, Largo(b, desde)))]
           c == CHOOSE f : f = E(f)
           t == [x \in Entradas |-> IF x < C THEN m.tabla[Rango(S, x)] ELSE Libre]
           p == compactarEntradas(m)
<1>1. p = [m EXCEPT !.tabla = t, !.bytes = c[C]]
  BY DEF compactarEntradas, Ocupadas, Rango, Antes
<1>2. S \in SUBSET Entradas /\ \A x \in S : m.tabla[x] # Libre
  BY DEF Ocupadas, Libres
<1> HIDE DEF S, p
<1>3. /\ C \in 0..N /\ C \in Nat /\ N \in Nat
      /\ \A i \in 0..(C - 1) : Rango(S, i) \in S /\ Rango(S, i) \in Entradas
  BY <1>2, Rangos, TablaBienFormada
<1>4. \A i \in 1..C, b \in B : Movida(b, i - 1, Rango(S, i - 1)) \in B
  <2> SUFFICES ASSUME NEW i \in 1..C, NEW b \in B PROVE Movida(b, i - 1, Rango(S, i - 1)) \in B
    OBVIOUS
  <2> DEFINE n == Rango(S, i - 1)
  <2>1. i - 1 \in 0..(C - 1) /\ i - 1 \in Nat
    BY <1>3
  <2>2. n \in Entradas /\ (i - 1) * T \in Nat
    BY <1>3, <2>1, PorT
  <2> HIDE DEF n
  <2>3. Bytes(b, n * T, Largo(b, n * T)) \in Seq(Byte)
    BY <2>2, CadenaEs
  <2> QED BY <2>2, <2>3, Copiar DEF Movida, n
<1> HIDE DEF C
<1>5. Pasos(g, C, B) /\ \A i \in 1..C, b \in B : g[i][b] = Movida(b, i - 1, Rango(S, i - 1))
  <2> HIDE DEF B
  <2> QED BY <1>4 DEF Pasos
<1> HIDE DEF g
<1>6. PICK f : Itera(f, C, B, m.bytes, g)
  <2>1. m.bytes \in B
    BY DEF Memoria
  <2> HIDE DEF B
  <2> QED BY <1>3, <1>5, <2>1, Recursion
<1>7. /\ f \in [0..C -> B] /\ f[0] = m.bytes
      /\ \A i \in 1..C : f[i] = Movida(f[i - 1], i - 1, Rango(S, i - 1))
  <2>1. \A i \in 1..C : i - 1 \in 0..C
    BY <1>3
  <2> HIDE DEF B
  <2> QED BY <1>5, <1>6, <2>1 DEF Itera
<1>8. f = E(f)
  <2>1. \A i \in 0..C : f[i] = IF i = 0 THEN m.bytes ELSE Movida(f[i - 1], i - 1, Rango(S, i - 1))
    BY <1>3, <1>7
  <2> HIDE DEF B
  <2> QED BY <1>7, <2>1 DEF Movida
<1>9. c = E(c)
  BY <1>8
<1> HIDE DEF c
<1>10. c = f
  <2>1. \A i \in 1..C : c[i - 1] = f[i - 1] => c[i] = f[i]
    <3>1. \A i \in 1..C : i \in 0..C /\ i # 0
      BY <1>3
    <3> QED BY <1>8, <1>9, <3>1
  <2>2. c[0] = m.bytes /\ f[0] = m.bytes
    BY <1>3, <1>7, <1>9
  <2>3. c = [i \in 0..C |-> c[i]] /\ f = [i \in 0..C |-> f[i]]
    BY <1>8, <1>9
  <2>4. Paralelas(c, f, C)
    BY <2>1, <2>2, <2>3 DEF Paralelas
  <2> QED BY <1>3, <2>4, Unica
<1>11. t \in [Entradas -> Registros \cup {Libre}]
  <2> SUFFICES ASSUME NEW x \in Entradas PROVE t[x] \in Registros \cup {Libre}
    OBVIOUS
  <2>1. x < C => x \in 0..(C - 1)
    BY <1>3, TablaBienFormada DEF Entradas
  <2>2. x < C => m.tabla[Rango(S, x)] \in Registros \cup {Libre}
    BY <1>3, <2>1 DEF Memoria, C
  <2> QED BY <2>2
<1>12. f[C] \in [Direcciones -> Byte]
  <2>1. C \in 0..C
    BY <1>3
  <2> QED BY <1>7, <2>1
<1>13. /\ p \in Memoria /\ p.tabla = t /\ p.bytes = f[C] /\ p.numero = m.numero /\ p.activo = m.activo
       /\ p.contador = m.contador /\ p.resp = m.resp /\ p.fallo = m.fallo
  <2> HIDE DEF t
  <2> QED BY <1>1, <1>10, <1>11, <1>12 DEF Memoria
<1>14. \A x \in Entradas : p.tabla[x] = IF x < C THEN m.tabla[Rango(S, x)] ELSE Libre
  BY <1>13
<1> HIDE DEF t
<1>15. Compactada(m, p, f)
  BY <1>7, <1>13, <1>14 DEF Compactada, S, C
<1> QED BY <1>15 DEF p

\* A compaction does not disturb the table.
LEMMA CompactarBuena ==
  ASSUME NEW A, NEW m, Buena(m, A)
  PROVE  Buena(compactarEntradas(m), A)
<1> DEFINE S == Ocupadas(m)
           C == Cardinality(S)
           p == compactarEntradas(m)
<1> SUFFICES Buena(p, A)
  OBVIOUS
<1>1. PICK f : Compactada(m, p, f)
  BY CompactarForma DEF Buena
<1> HIDE DEF p
<1>2. p \in Memoria /\ \A x \in Entradas : p.tabla[x] = IF x < C THEN m.tabla[Rango(S, x)] ELSE Libre
  BY <1>1 DEF Compactada
<1>3. S \in SUBSET Entradas /\ \A x \in S : m.tabla[x] # Libre
  BY DEF Ocupadas, Libres
<1> HIDE DEF S
<1>4. /\ C \in 0..N /\ \A x \in Entradas : x \in Nat
      /\ \A i \in 0..(C - 1) : Rango(S, i) \in S /\ Rango(S, i) \in Entradas /\ Rango(S, i) \in Nat
      /\ \A i, j \in 0..(C - 1) : i < j => Rango(S, i) < Rango(S, j)
  <2>1. \A x \in Entradas : x \in Nat
    BY TablaBienFormada DEF Entradas
  <2> QED BY <1>3, <2>1, Rangos
<1> HIDE DEF C
<1>5. \A x \in Entradas : p.tabla[x] # Libre => x \in 0..(C - 1) /\ p.tabla[x] = m.tabla[Rango(S, x)]
  BY <1>2, <1>4, TablaBienFormada DEF Entradas
<1>6. Asignada(p, A)
  <2> SUFFICES ASSUME NEW x \in Entradas, p.tabla[x] # Libre PROVE p.tabla[x].clave \in A
    BY DEF Asignada
  <2>1. p.tabla[x] = m.tabla[Rango(S, x)] /\ Rango(S, x) \in Entradas /\ m.tabla[Rango(S, x)] # Libre
    BY <1>3, <1>4, <1>5
  <2> QED BY <2>1 DEF Buena, Asignada
<1>7. Corrida(p)
  <2> SUFFICES ASSUME NEW a \in Entradas, NEW b \in Entradas, a < b,
                      p.tabla[a] # Libre, p.tabla[b] # Libre, p.tabla[a].clave = p.tabla[b].clave
               PROVE  /\ p.tabla[a].tam = T
                      /\ \A x \in a..b : p.tabla[x] # Libre /\ p.tabla[x].clave = p.tabla[a].clave
    BY DEF Corrida
  <2>1. /\ a \in 0..(C - 1) /\ b \in 0..(C - 1)
        /\ p.tabla[a] = m.tabla[Rango(S, a)] /\ p.tabla[b] = m.tabla[Rango(S, b)]
    BY <1>5
  <2>2. /\ m.tabla[Rango(S, a)].tam = T
        /\ \A y \in Rango(S, a)..Rango(S, b) : m.tabla[y].clave = m.tabla[Rango(S, a)].clave
    BY <1>3, <1>4, <2>1 DEF Buena, Corrida
  <2>3. ASSUME NEW x \in a..b PROVE p.tabla[x] # Libre /\ p.tabla[x].clave = p.tabla[a].clave
    <3>1. x \in 0..(C - 1) /\ x \in Entradas /\ x < C
      BY <1>4, <2>1, TablaBienFormada DEF Entradas
    <3>2. p.tabla[x] = m.tabla[Rango(S, x)] /\ m.tabla[Rango(S, x)] # Libre
      BY <1>2, <1>3, <1>4, <3>1
    <3>3. (x = a \/ a < x) /\ (x = b \/ x < b)
      BY <1>4
    <3>4. Rango(S, a) <= Rango(S, x) /\ Rango(S, x) <= Rango(S, b)
      BY <1>4, <2>1, <3>1, <3>3
    <3>5. Rango(S, x) \in Rango(S, a)..Rango(S, b)
      BY <1>4, <2>1, <3>1, <3>4
    <3> QED BY <2>1, <2>2, <3>2, <3>5
  <2> QED BY <2>1, <2>2, <2>3
<1> QED BY <1>2, <1>6, <1>7 DEF Buena

(***************************************************************************)
(* Files and recovery.                                                     *)
(***************************************************************************)
\* Where the value of a key is, and that the block has it.
LEMMA ValorEs ==
  ASSUME NEW m \in Memoria, NEW k, NEW lo, NEW hi, Tramo(m, k, lo, hi)
  PROVE  LET L == TamanioTotal(m, k)
         IN  /\ obtenerValorCompleto(m, k) = Bytes(m.bytes, lo * T, L)
             /\ L \in Nat /\ L = (hi - lo) * T + m.tabla[hi].tam
             /\ lo * T \in Nat /\ lo * T + L <= N * T /\ lo * T + L <= hi * T + T
             /\ obtenerValorCompleto(m, k) \in Seq(Byte)
             /\ Len(obtenerValorCompleto(m, k)) = L
             /\ \A j \in 1..L : obtenerValorCompleto(m, k)[j] = m.bytes[lo * T + j - 1]
<1> DEFINE L == TamanioTotal(m, k)
           S == obtenerIndicesDeClave(m, k)
           tam == m.tabla[hi].tam
<1>1. L = (hi - lo) * T + tam /\ tam \in 0..T /\ L \in Nat
  BY TamanioTramo, TamanioNat
<1>2. lo \in Entradas /\ hi \in Entradas /\ lo <= hi /\ S = lo..hi
  BY DEF Tramo
<1>3. lo \in Nat /\ hi \in Nat /\ T \in Nat
  BY <1>2, TablaBienFormada DEF Entradas
<1>4. Min(S) = lo
  <2>1. S \in SUBSET Entradas /\ S # {} /\ lo \in S
    BY <1>2, <1>3 DEF obtenerIndicesDeClave
  <2> HIDE DEF S
  <2>2. Min(S) \in S /\ Min(S) <= lo
    BY <2>1, MinimoMaximo
  <2> QED BY <1>2, <1>3, <2>2
<1> HIDE DEF L, S, tam
<1>5. lo * T \in Nat /\ hi * T \in Nat /\ hi * T + T <= N * T /\ N * T \in Nat
  BY <1>2, EntradaEnBloque
<1>6. (hi - lo) * T = hi * T - lo * T
  BY <1>3, Producto
<1>7. lo * T + L <= hi * T + T /\ lo * T + L <= N * T
  BY <1>1, <1>3, <1>5, <1>6
<1>8. obtenerValorCompleto(m, k) = Bytes(m.bytes, lo * T, L)
  BY <1>4 DEF obtenerValorCompleto, S, L
<1>9. /\ Bytes(m.bytes, lo * T, L) \in Seq(Byte) /\ Len(Bytes(m.bytes, lo * T, L)) = L
      /\ \A j \in 1..L : Bytes(m.bytes, lo * T, L)[j] = m.bytes[lo * T + j - 1]
  <2>1. m.bytes \in [Direcciones -> Byte]
    BY DEF Memoria
  <2>2. lo * T + L <= N * T + 1
    BY <1>1, <1>5, <1>7
  <2> QED BY <1>1, <1>5, <2>1, <2>2, BytesEs
<1> QED BY <1>1, <1>5, <1>7, <1>8, <1>9 DEF L, tam

\* What STORE writes is a sequence of bytes.
LEMMA GrabadoTipo ==
  ASSUME NEW A, NEW m, Buena(m, A), NEW k
  PROVE  Grabado(m, k) \in Seq(Byte)
<1>1. CASE Guardada(m, k)
  <2> DEFINE S == obtenerIndicesDeClave(m, k)
  <2>1. Tramo(m, k, Min(S), Max(S))
    BY <1>1, ClaveTramo
  <2>2. obtenerValorCompleto(m, k) \in Seq(Byte)
    BY <2>1, ValorEs DEF Buena
  <2> QED BY <1>1, <2>2 DEF Grabado
<1>2. CASE ~Guardada(m, k)
  BY <1>2 DEF Grabado
<1> QED BY <1>1, <1>2

\* s up to its first NUL.
LEMMA HastaNULEs ==
  ASSUME NEW s \in Seq(Byte)
  PROVE  LET v == HastaNUL(s)
         IN  /\ v \in Seq(Byte) /\ Len(v) <= Len(s) /\ \A j \in 1..Len(v) : v[j] = s[j] /\ s[j] # NUL
             /\ Len(v) = Len(s) \/ s[Len(v) + 1] = NUL
<1> DEFINE I == {i \in 1..Len(s) : s[i] = NUL}
           i == IF I # {} THEN Min(I) ELSE 0
<1>1. HastaNUL(s) = IF i = 0 THEN s ELSE SubSeq(s, 1, i - 1)
  BY DEF HastaNUL, SelectInSeq
<1>2. Len(s) \in Nat
  OBVIOUS
<1>3. \/ i = 0 /\ \A j \in 1..Len(s) : s[j] # NUL
      \/ i \in 1..Len(s) /\ s[i] = NUL /\ \A j \in 1..Len(s) : j < i => s[j] # NUL
  <2>1. CASE I # {}
    <3>1. I \in SUBSET Nat
      OBVIOUS
    <3>2. PICK x \in I : \A y \in I : x <= y
      <4> HIDE DEF I
      <4> QED BY <2>1, <3>1, Minimo
    <3>3. Min(I) \in I /\ \A y \in I : Min(I) <= y
      <4> HIDE DEF I
      <4> QED BY <3>2 DEF Min
    <3>4. i \in I /\ \A y \in I : i <= y
      BY <2>1, <3>3
    <3> HIDE DEF i
    <3>5. \A j \in 1..Len(s) : j < i => s[j] # NUL
      BY <1>2, <3>4
    <3> QED BY <3>4, <3>5
  <2>2. CASE I = {}
    BY <2>2
  <2> QED BY <2>1, <2>2
<1> HIDE DEF i
<1>4. CASE i = 0 /\ \A j \in 1..Len(s) : s[j] # NUL
  BY <1>1, <1>2, <1>4
<1>5. CASE i \in 1..Len(s) /\ s[i] = NUL /\ \A j \in 1..Len(s) : j < i => s[j] # NUL
  <2>1. HastaNUL(s) = SubSeq(s, 1, i - 1)
    BY <1>1, <1>2, <1>5
  <2> DEFINE z == i - 1
  <2>2. z \in Nat /\ z < Len(s) /\ s[z + 1] = NUL /\ \A j \in 1..z : j \in 1..Len(s) /\ s[j] # NUL
    BY <1>2, <1>5
  <2> HIDE DEF z
  <2>3. SubSeq(s, 1, z) \in Seq(Byte) /\ Len(SubSeq(s, 1, z)) = z
        /\ \A j \in 1..z : SubSeq(s, 1, z)[j] = s[j]
    BY <1>2, <2>2
  <2>4. HastaNUL(s) = SubSeq(s, 1, z)
    BY <2>1 DEF z
  <2> QED BY <1>2, <2>2, <2>3, <2>4
<1> QED BY <1>3, <1>4, <1>5

\* What is read of a file: its string, or the start of it.
LEMMA LeidoEs ==
  ASSUME NEW s \in Seq(Byte)
  PROVE  LET v == HastaNUL(s)
         IN  Leido(s) \in Seq(Byte)
             /\ Leido(s) = IF Len(v) <= PACKAGESIZE THEN v ELSE SubSeq(v, 1, PACKAGESIZE)
<1> DEFINE c == Menor(Len(s), PACKAGESIZE)
           q == SubSeq(s, 1, c)
           v == HastaNUL(s)
           w == HastaNUL(q)
<1>1. /\ Len(s) \in Nat /\ PACKAGESIZE \in Nat /\ c \in Nat /\ c <= Len(s) /\ c <= PACKAGESIZE
      /\ c = Len(s) \/ c = PACKAGESIZE
  BY BloqueDeLectura DEF Menor
<1>2. Leido(s) = w
  BY DEF Leido
<1> HIDE DEF c
<1>3. q \in Seq(Byte) /\ Len(q) = c /\ \A j \in 1..c : q[j] = s[j]
  BY <1>1
<1> HIDE DEF q
<1>4. /\ v \in Seq(Byte) /\ Len(v) <= Len(s) /\ \A j \in 1..Len(v) : v[j] = s[j] /\ s[j] # NUL
      /\ Len(v) = Len(s) \/ s[Len(v) + 1] = NUL
  BY HastaNULEs
<1>5. /\ w \in Seq(Byte) /\ Len(w) <= c /\ \A j \in 1..Len(w) : w[j] = q[j] /\ q[j] # NUL
      /\ Len(w) = c \/ q[Len(w) + 1] = NUL
  BY <1>3, HastaNULEs
<1> HIDE DEF v, w
<1>6. Len(v) \in Nat /\ Len(w) \in Nat
  BY <1>4, <1>5
<1>7. \A j \in 1..Len(w) : w[j] = s[j] /\ s[j] # NUL
  BY <1>1, <1>3, <1>5, <1>6
<1>8. Len(w) < c => Len(w) + 1 \in 1..c /\ s[Len(w) + 1] = NUL
  BY <1>1, <1>3, <1>5, <1>6
<1>9. ~(Len(w) < c /\ Len(w) < Len(v))
  <2> SUFFICES ASSUME Len(w) < c, Len(w) < Len(v) PROVE FALSE
    OBVIOUS
  <2>1. Len(w) + 1 \in 1..Len(v)
    BY <1>6
  <2> QED BY <1>4, <1>8, <2>1
<1>10. ~(Len(v) < Len(w))
  <2> SUFFICES ASSUME Len(v) < Len(w) PROVE FALSE
    OBVIOUS
  <2>1. Len(v) + 1 \in 1..Len(w) /\ Len(v) # Len(s)
    BY <1>1, <1>5, <1>6
  <2> QED BY <1>4, <1>7, <2>1
<1>11. CASE Len(v) <= PACKAGESIZE
  <2>1. Len(w) = Len(v)
    BY <1>1, <1>4, <1>5, <1>6, <1>9, <1>10, <1>11
  <2>2. w = v
    BY <1>4, <1>5, <1>7, <2>1
  <2> QED BY <1>2, <1>4, <1>11, <2>2 DEF v
<1>12. CASE Len(v) > PACKAGESIZE
  <2>1. Len(w) = PACKAGESIZE
    BY <1>1, <1>4, <1>5, <1>6, <1>9, <1>12
  <2> DEFINE u == SubSeq(v, 1, PACKAGESIZE)
  <2>2. u \in Seq(Byte) /\ Len(u) = PACKAGESIZE /\ \A j \in 1..PACKAGESIZE : u[j] = v[j]
    BY <1>1, <1>4, <1>6, <1>12
  <2>3. \A j \in 1..PACKAGESIZE : j \in 1..Len(v) /\ w[j] = v[j]
    BY <1>1, <1>4, <1>6, <1>7, <1>12, <2>1
  <2> HIDE DEF u
  <2>4. w = u
    BY <1>5, <2>1, <2>2, <2>3
  <2> QED BY <1>1, <1>2, <1>5, <1>6, <1>12, <2>4 DEF u, v
<1> QED BY <1>1, <1>6, <1>11, <1>12

\* The files that the model can meet.
Archivos == [Claves -> Seq(Byte) \cup {SinArchivo}]

\* h is the memory after each key of orden.
Recuperada(orden, f, A, h) ==
  /\ h \in [0..Len(orden) -> {m \in Memoria : Buena(m, A)}] /\ h[0] = MemoriaInicial
  /\ \A j \in 1..Len(orden) : h[j] = recuperarClave(h[j - 1], orden[j], f)

\* A process that starts has a good table.
LEMMA InicialBuena ==
  ASSUME NEW A
  PROVE  Buena(MemoriaInicial, A)
<1>1. MemoriaInicial \in Memoria /\ \A n \in Entradas : MemoriaInicial.tabla[n] = Libre
  BY TablaBienFormada DEF MemoriaInicial, Memoria, Byte
<1> QED BY <1>1 DEF Buena, Asignada, Corrida

\* The recovery of a key does not disturb it.
LEMMA RecuperarBuena ==
  ASSUME NEW A \in SUBSET Claves, NEW k \in A, NEW m, Buena(m, A), NEW f \in Archivos
  PROVE  Buena(recuperarClave(m, k, f), A)
<1>1. CASE m.fallo # "no" \/ f[k] = SinArchivo
  BY <1>1 DEF recuperarClave
<1>2. CASE ~(m.fallo # "no" \/ f[k] = SinArchivo)
  <2>1. f[k] \in Seq(Byte)
    BY <1>2 DEF Archivos
  <2>2. Leido(f[k]) \in Seq(Byte)
    BY <2>1, LeidoEs
  <2>3. Buena(guardarClaveValor(m, k, Leido(f[k])), A)
    BY <1>2, <2>2, GuardarBuena
  <2> QED BY <1>2, <2>3 DEF recuperarClave
<1> QED BY <1>1, <1>2

\* The keys arrive one by one, each once.
LEMMA OrdenEs ==
  ASSUME NEW A, IsFiniteSet(A), NEW orden \in SetToSeqs(A)
  PROVE  /\ orden \in Seq(A) /\ Len(orden) = Cardinality(A) /\ Len(orden) \in Nat
         /\ \A i, j \in 1..Len(orden) : i # j => orden[i] # orden[j]
<1>1. Cardinality(A) \in Nat
  BY FS_CardinalityType
<1>2. orden \in [1..Cardinality(A) -> A]
      /\ \A i, j \in 1..Cardinality(A) : i # j => orden[i] # orden[j]
  BY DEF SetToSeqs
<1>3. orden \in Seq(A) /\ Len(orden) = Cardinality(A)
  BY <1>1, <1>2
<1> QED BY <1>1, <1>2, <1>3

\* The recovery is that sequence of memories.
LEMMA RecuperarForma ==
  ASSUME NEW A \in SUBSET Claves, IsFiniteSet(A), NEW orden \in SetToSeqs(A), NEW f \in Archivos
  PROVE  \E h : Recuperada(orden, f, A, h) /\ obtenerClavesARecuperar(orden, f) = h[Len(orden)]
<1> DEFINE M == {m \in Memoria : Buena(m, A)}
           n == Len(orden)
           g == [j \in 1..n |-> [m \in M |-> recuperarClave(m, orden[j], f)]]
           E(x) == [j \in 0..n |-> IF j = 0 THEN MemoriaInicial
                                   ELSE recuperarClave(x[j - 1], orden[j], f)]
           c == CHOOSE x : x = E(x)
<1>1. obtenerClavesARecuperar(orden, f) = c[n]
  BY DEF obtenerClavesARecuperar
<1>2. n \in Nat /\ \A j \in 1..n : orden[j] \in A
  BY OrdenEs
<1> HIDE DEF n
<1>3. MemoriaInicial \in M
  BY InicialBuena DEF Buena
<1>4. \A j \in 1..n, m \in M : recuperarClave(m, orden[j], f) \in M
  BY <1>2, RecuperarBuena DEF Buena
<1> HIDE DEF M
<1>5. Pasos(g, n, M) /\ \A j \in 1..n, m \in M : g[j][m] = recuperarClave(m, orden[j], f)
  BY <1>4 DEF Pasos
<1> HIDE DEF g
<1>6. PICK h : Itera(h, n, M, MemoriaInicial, g)
  BY <1>2, <1>3, <1>5, Recursion
<1>7. /\ h \in [0..n -> M] /\ h[0] = MemoriaInicial
      /\ \A j \in 1..n : h[j] = recuperarClave(h[j - 1], orden[j], f)
  <2>1. \A j \in 1..n : j - 1 \in 0..n
    BY <1>2
  <2> QED BY <1>5, <1>6, <2>1 DEF Itera
<1>8. h = E(h)
  <2>1. \A j \in 0..n : h[j] = IF j = 0 THEN MemoriaInicial ELSE recuperarClave(h[j - 1], orden[j], f)
    BY <1>2, <1>7
  <2> QED BY <1>7, <2>1
<1>9. c = E(c)
  BY <1>8
<1> HIDE DEF c
<1>10. c = h
  <2>1. \A j \in 1..n : c[j - 1] = h[j - 1] => c[j] = h[j]
    <3>1. \A j \in 1..n : j \in 0..n /\ j # 0
      BY <1>2
    <3> QED BY <1>8, <1>9, <3>1
  <2>2. c[0] = MemoriaInicial /\ h[0] = MemoriaInicial
    BY <1>2, <1>7, <1>9
  <2>3. c = [j \in 0..n |-> c[j]] /\ h = [j \in 0..n |-> h[j]]
    BY <1>8, <1>9
  <2>4. Paralelas(c, h, n)
    BY <2>1, <2>2, <2>3 DEF Paralelas
  <2> QED BY <1>2, <2>4, Unica
<1> QED BY <1>1, <1>7, <1>10 DEF Recuperada, n, M

\* The recovery of all the keys leaves a good table.
LEMMA TodasBuenas ==
  ASSUME NEW A \in SUBSET Claves, IsFiniteSet(A), NEW orden \in SetToSeqs(A), NEW f \in Archivos
  PROVE  Buena(obtenerClavesARecuperar(orden, f), A)
<1>1. PICK h : Recuperada(orden, f, A, h) /\ obtenerClavesARecuperar(orden, f) = h[Len(orden)]
  BY RecuperarForma
<1>2. Len(orden) \in 0..Len(orden)
  BY OrdenEs
<1> QED BY <1>1, <1>2 DEF Recuperada

(***************************************************************************)
(* The invariant.                                                          *)
(***************************************************************************)
\* What every step preserves.
IInv ==
  /\ TypeOK
  /\ IsFiniteSet(asignadas)
  /\ Corrida(inst)

\* What the invariant says, in the form in which the lemmas use it.
LEMMA IInvBuena ==
  ASSUME IInv
  PROVE  Buena(inst, asignadas) /\ asignadas \in SUBSET Claves /\ archivo \in Archivos
<1>1. Asignada(inst, asignadas)
  BY DEF IInv, TypeOK, Asignada, Libres
<1> QED BY <1>1 DEF IInv, TypeOK, Buena, Archivos

\* Receiving a message only counts it.
LEMMA RecibirBuena ==
  ASSUME NEW A, NEW m, Buena(m, A)
  PROVE  LET p == recibirSentencia(m)
         IN  /\ Buena(p, A) /\ p.tabla = m.tabla /\ p.bytes = m.bytes /\ p.fallo = m.fallo
             /\ p.numero = m.numero /\ p.activo = m.activo /\ p.resp = m.resp
<1> DEFINE p == recibirSentencia(m)
<1>1. m \in Memoria
  BY DEF Buena
<1>2. /\ p \in Memoria /\ p.tabla = m.tabla /\ p.bytes = m.bytes /\ p.fallo = m.fallo
      /\ p.numero = m.numero /\ p.activo = m.activo /\ p.resp = m.resp
  BY <1>1 DEF recibirSentencia, SiguienteOperacion, Memoria
<1> HIDE DEF p
<1>3. Buena(p, A)
  BY <1>2, SinTabla
<1> QED BY <1>2, <1>3 DEF p

\* Sending the answer may only free a pointer nobody set.
LEMMA EnviarBuena ==
  ASSUME NEW A, NEW m, Buena(m, A), NEW w, NEW p \in enviarResultadoSentencia(m, w)
  PROVE  Buena(p, A) /\ p.tabla = m.tabla /\ (p = m \/ p.fallo = "basura")
<1>1. p = m \/ p = Romper(m, "basura")
  BY DEF enviarResultadoSentencia
<1>2. "basura" \in Fallos
  BY DEF Fallos
<1> QED BY <1>1, <1>2, RomperBuena

\* So may a string that runs past its block.
LEMMA DesbordeBuena ==
  ASSUME NEW A, NEW m, Buena(m, A), NEW c, NEW p \in ConDesborde(m, c)
  PROVE  /\ Buena(p, A) /\ p.tabla = m.tabla /\ p.bytes = m.bytes /\ p.resp = m.resp
         /\ p.activo = m.activo /\ p.numero = m.numero
         /\ p = m \/ (c /\ p.fallo = "desborde")
<1>1. p = m \/ (c /\ p = Romper(m, "desborde"))
  BY DEF ConDesborde
<1>2. m \in Memoria
  BY DEF Buena
<1>3. LET q == Romper(m, "desborde")
      IN  /\ q.tabla = m.tabla /\ q.bytes = m.bytes /\ q.resp = m.resp /\ q.fallo = "desborde"
          /\ q.activo = m.activo /\ q.numero = m.numero
  BY <1>2 DEF Romper, Memoria
<1>4. "desborde" \in Fallos
  BY DEF Fallos
<1>5. Buena(Romper(m, "desborde"), A)
  BY <1>4, RomperBuena
<1> QED BY <1>1, <1>3, <1>5

\* One key more is no harm.
LEMMA MasKeys ==
  ASSUME NEW A, NEW k, NEW m, Buena(m, A)
  PROVE  Buena(m, A \cup {k})
BY DEF Buena, Asignada

\* The invariant holds at the start.
LEMMA IInvInicial == Init => IInv
<1> SUFFICES ASSUME Init PROVE IInv
  OBVIOUS
<1>1. Buena(MemoriaInicial, {})
  BY InicialBuena
<1>2. IsFiniteSet({})
  BY FS_EmptySet
<1>3. 0 \in 0..MaxOperaciones /\ [k \in Claves |-> SinArchivo] \in [Claves -> Seq(Byte) \cup {SinArchivo}]
  BY TablaBienFormada
<1>4. \A n \in Entradas \ Libres(inst) : FALSE
  BY DEF Init, MemoriaInicial, Libres
<1> QED BY <1>1, <1>2, <1>3, <1>4 DEF Init, IInv, TypeOK, Buena

\* What each action owes.
Cumple ==
  /\ asignadas' \in SUBSET Claves /\ IsFiniteSet(asignadas')
  /\ soloAtomicas' \in BOOLEAN /\ soloCadenas' \in BOOLEAN
  /\ archivo' \in Archivos /\ Buena(inst', asignadas')

\* Every step preserves it.
LEMMA IInvPaso == IInv /\ [Next]_vars => IInv'
<1> SUFFICES ASSUME IInv, [Next]_vars PROVE IInv'
  OBVIOUS
<1>1. /\ Buena(inst, asignadas) /\ asignadas \in SUBSET Claves /\ archivo \in Archivos
      /\ IsFiniteSet(asignadas) /\ soloAtomicas \in BOOLEAN /\ soloCadenas \in BOOLEAN
  BY IInvBuena DEF IInv, TypeOK
<1>2. ASSUME NEW k \in Claves, NEW L \in Largos, SET_(k, L) PROVE Cumple
  <2> DEFINE A == asignadas \cup {k}
             m == recibirSentencia(inst)
             v == Valor(k, L)
             p == guardarClaveValor(m, k, v)
  <2>1. A \in SUBSET Claves /\ k \in A /\ Buena(inst, A) /\ IsFiniteSet(A)
    BY <1>1, MasKeys, FS_AddElement
  <2>2. Buena(m, A) /\ m.fallo = "no"
    BY <1>2, <2>1, RecibirBuena DEF SET_, Sigue
  <2>3. v \in Seq(Byte)
    BY TablaBienFormada DEF Valor, Byte
  <2> HIDE DEF A, m, v
  <2>4. Buena(p, A)
    BY <2>1, <2>2, <2>3, GuardarBuena
  <2> HIDE DEF p
  <2>5. /\ \E q \in ConDesborde(p, DesbordaActualizacion(inst, k, L)) :
             inst' \in enviarResultadoSentencia(q, "SET")
        /\ asignadas' = A /\ archivo' = archivo
        /\ soloAtomicas' \in BOOLEAN /\ soloCadenas' \in BOOLEAN
    BY <1>2 DEF SET_, p, m, v, A
  <2>6. Buena(inst', A)
    BY <2>4, <2>5, DesbordeBuena, EnviarBuena
  <2> QED BY <1>1, <2>1, <2>5, <2>6 DEF Cumple
<1>3. ASSUME NEW k \in Claves, STORE_(k) PROVE Cumple
  <2> DEFINE r == IF Guardada(inst, k) THEN "EXITO_I" ELSE "ERROR_I"
             p == [recibirSentencia(inst) EXCEPT !.resp = r]
  <2>1. r \in Respuestas
    BY DEF Respuestas
  <2> HIDE DEF r
  <2>2. p = ConResp(recibirSentencia(inst), r)
    BY DEF ConResp
  <2> HIDE DEF p
  <2>3. Buena(p, asignadas)
    BY <1>1, <2>1, <2>2, RecibirBuena, ConRespBuena
  <2>4. inst' \in enviarResultadoSentencia(p, "STORE")
    BY <1>3 DEF STORE_, p, r
  <2>5. Buena(inst', asignadas)
    BY <2>3, <2>4, EnviarBuena
  <2>6. archivo' \in Archivos
    BY <1>1, <1>3, GrabadoTipo DEF STORE_, Archivos
  <2> QED BY <1>1, <1>3, <2>5, <2>6 DEF Cumple, STORE_, historia
<1>4. ASSUME NEW k \in Claves, OBTENER_VALOR(k) PROVE Cumple
  <2> DEFINE p == IF Guardada(inst, k) THEN recibirSentencia(inst) ELSE Romper(inst, "ausente")
  <2>1. "ausente" \in Fallos
    BY DEF Fallos
  <2>2. Buena(p, asignadas)
    BY <1>1, <2>1, RecibirBuena, RomperBuena
  <2> HIDE DEF p
  <2>3. inst' \in enviarResultadoSentencia(p, "OBTENER_VALOR")
    BY <1>4 DEF OBTENER_VALOR, p
  <2>4. Buena(inst', asignadas)
    BY <2>2, <2>3, EnviarBuena
  <2> QED BY <1>1, <1>4, <2>4 DEF Cumple, OBTENER_VALOR, historia
<1>5. ASSUME COMPACTAR PROVE Cumple
  <2>1. Buena(compactarEntradas(inst), asignadas)
    BY <1>1, CompactarBuena
  <2>2. Buena(inst', asignadas)
    BY <1>5, <2>1, DesbordeBuena, EnviarBuena DEF COMPACTAR
  <2> QED BY <1>1, <1>5, <2>2 DEF Cumple, COMPACTAR, historia
<1>6. ASSUME ejecutarDump PROVE Cumple
  <2>1. inst' = inst \/ inst' = ConResp(inst, "EXITO_I")
    BY <1>6 DEF ejecutarDump, ConResp
  <2>2. "EXITO_I" \in Respuestas
    BY DEF Respuestas
  <2>3. Buena(inst', asignadas)
    BY <1>1, <2>1, <2>2, ConRespBuena
  <2>4. archivo' \in Archivos
    <3>1. \A k \in Claves : Grabado(inst, k) \in Seq(Byte)
      BY <1>1, GrabadoTipo
    <3>2. \A k \in Claves : archivo[k] \in Seq(Byte) \cup {SinArchivo}
      BY <1>1 DEF Archivos
    <3> QED BY <1>6, <3>1, <3>2 DEF ejecutarDump, Archivos
  <2> QED BY <1>1, <1>6, <2>3, <2>4 DEF Cumple, ejecutarDump, historia
<1>7. ASSUME NEW orden \in SetToSeqs(asignadas), Reiniciar(orden) PROVE Cumple
  <2>1. Buena(obtenerClavesARecuperar(orden, archivo), asignadas)
    BY <1>1, TodasBuenas
  <2>2. Buena(inst', asignadas)
    BY <1>7, <2>1, DesbordeBuena DEF Reiniciar, Arrancar
  <2> QED BY <1>1, <1>7, <2>2 DEF Cumple, Reiniciar, Arrancar
<1>8. ASSUME NEW k \in Claves, NEW orden \in SetToSeqs(asignadas), CaerGrabando(k, orden)
      PROVE  Cumple
  <2>1. archivo' \in Archivos
    BY <1>1, <1>8 DEF CaerGrabando, Archivos
  <2>2. Buena(obtenerClavesARecuperar(orden, archivo'), asignadas)
    BY <1>1, <2>1, TodasBuenas
  <2>3. Buena(inst', asignadas)
    BY <1>8, <2>2, DesbordeBuena DEF CaerGrabando, Arrancar
  <2> QED BY <1>1, <1>8, <2>1, <2>3 DEF Cumple, CaerGrabando, Arrancar
<1>9. ASSUME Cumple, algoritmo' \in Algoritmos, pisa' \in BOOLEAN, operaciones' \in 0..MaxOperaciones
      PROVE  IInv'
  <2>1. \A n \in Entradas \ Libres(inst') : inst'.tabla[n].clave \in asignadas'
    BY <1>9 DEF Cumple, Buena, Asignada, Libres
  <2> QED BY <1>9, <2>1 DEF IInv, TypeOK, Cumple, Buena, Archivos
<1>10. CASE Next
  <2>1. Cumple
    BY <1>2, <1>3, <1>4, <1>5, <1>6, <1>7, <1>8, <1>10 DEF Next
  <2>2. Sigue
    BY <1>10 DEF Next, SET_, STORE_, OBTENER_VALOR, COMPACTAR, ejecutarDump, Reiniciar, CaerGrabando
  <2>3. algoritmo' \in Algoritmos /\ pisa' \in BOOLEAN /\ operaciones' \in 0..MaxOperaciones
    BY <2>2, TablaBienFormada DEF Sigue, IInv, TypeOK
  <2> QED BY <1>9, <2>1, <2>3
<1>11. CASE UNCHANGED vars
  BY <1>11 DEF vars, IInv, TypeOK, Libres, Corrida
<1> QED BY <1>10, <1>11

\* IInv is an invariant of the specification.
THEOREM Invariante == Spec => []IInv
BY IInvInicial, IInvPaso, PTL DEF Spec

\* The variables keep their types, and the table only has keys that were assigned.
THEOREM Tipos == Spec => []TypeOK
<1>1. IInv => TypeOK
  BY DEF IInv
<1> QED BY Invariante, <1>1, PTL

\* The entries of a key are consecutive, and all but the last are full.
THEOREM Contiguas == Spec => []ClavesContiguas
<1>1. IInv => ClavesContiguas
  <2> SUFFICES ASSUME IInv, NEW k \in Claves, Guardada(inst, k)
               PROVE  LET S == obtenerIndicesDeClave(inst, k)
                      IN  S = Min(S)..Max(S) /\ \A n \in S \ {Max(S)} : inst.tabla[n].tam = T
    BY DEF ClavesContiguas
  <2> DEFINE S == obtenerIndicesDeClave(inst, k)
             lo == Min(S)
             hi == Max(S)
  <2>1. Tramo(inst, k, lo, hi)
    BY IInvBuena, ClaveTramo
  <2> HIDE DEF S, lo, hi
  <2>2. S = lo..hi /\ lo \in Int /\ hi \in Int /\ \A x \in lo..hi : x < hi => inst.tabla[x].tam = T
    BY <2>1, TablaBienFormada DEF Tramo, S, Entradas
  <2>3. \A n \in S \ {hi} : inst.tabla[n].tam = T
    BY <2>2
  <2> QED BY <2>2, <2>3 DEF S, lo, hi
<1> QED BY Invariante, <1>1, PTL

(***************************************************************************)
(* While every value takes one entry.                                      *)
(***************************************************************************)
\* A table of values of one entry: it fills from the start, and once it is full it
\* stays full.
Densa(m) ==
  /\ \A n \in Entradas : m.tabla[n] # Libre => m.tabla[n].atomica /\ m.tabla[n].tam \in 1..T
  /\ \A a, b \in Entradas :
       a # b /\ m.tabla[a] # Libre /\ m.tabla[b] # Libre => m.tabla[a].clave # m.tabla[b].clave
  /\ m.activo => \A n \in Entradas : m.tabla[n] # Libre
  /\ ~m.activo => \A n \in Entradas : m.tabla[n] # Libre <=> n < m.numero

Intacta(m) == m.fallo \in {"no", "ausente", "basura", "desborde"}

\* The values of one entry.
LEMMA UnaEntrada ==
  ASSUME NEW L \in Nat
  PROVE  /\ L \in 1..T => cantidadDeEntradasRequeridasParaValor(L) = 1
         /\ cantidadDeEntradasRequeridasParaValor(L) = 1 => L \in 1..T
<1> DEFINE need == cantidadDeEntradasRequeridasParaValor(L)
<1>1. need \in Nat /\ L <= need * T /\ need * T < L + T /\ T \in Nat /\ T >= 1
  BY Requeridas, TablaBienFormada
<1> HIDE DEF need
<1>2. 1 * T = T /\ need * T \in Int /\ 0 * T = 0
  BY <1>1, Producto
<1>3. ASSUME L \in 1..T PROVE need = 1
  <2>1. need # 0
    BY <1>1, <1>2, <1>3
  <2>2. ~(need > 1)
    <3> SUFFICES ASSUME need > 1 PROVE FALSE
      OBVIOUS
    <3>1. 1 * T + T <= need * T
      BY <1>1, Producto
    <3> QED BY <1>1, <1>2, <1>3, <3>1
  <2> QED BY <1>1, <2>1, <2>2
<1>4. ASSUME need = 1 PROVE L \in 1..T
  BY <1>1, <1>2, <1>4
<1> QED BY <1>3, <1>4 DEF need

\* What does not touch the table, reemplazoActivo or numeroEntrada leaves it dense.
LEMMA DensaIgual ==
  ASSUME NEW m, Densa(m), NEW p, p.tabla = m.tabla, p.activo = m.activo, p.numero = m.numero
  PROVE  Densa(p)
BY DEF Densa

\* A key of a dense table has one entry.
LEMMA DensaTramo ==
  ASSUME NEW m \in Memoria, Densa(m), NEW n \in Entradas, m.tabla[n] # Libre
  PROVE  Tramo(m, m.tabla[n].clave, n, n)
<1>1. n \in Nat
  BY TablaBienFormada DEF Entradas
<1>2. obtenerIndicesDeClave(m, m.tabla[n].clave) = {n}
  BY DEF Densa, obtenerIndicesDeClave
<1>3. \A x : x \in n..n <=> x = n
  BY <1>1
<1>4. obtenerIndicesDeClave(m, m.tabla[n].clave) = n..n /\ \A x \in n..n : ~(x < n)
  BY <1>1, <1>2, <1>3
<1> QED BY <1>1, <1>4 DEF Tramo

\* A value put at the first free entry, or over another one, keeps the table dense.
LEMMA DensaPone ==
  ASSUME NEW A \in SUBSET Claves, NEW k \in A, NEW m, Buena(m, A), Densa(m), ~Guardada(m, k),
         NEW v \in Seq(Byte), Len(v) \in 1..T, NEW n \in Entradas, NEW z \in Nat,
         IF m.activo THEN TRUE ELSE n = m.numero /\ z = n + 1
  PROVE  LET p == AvanzarNumero(PonerAtomica(m, k, v, n), z)
         IN  Densa(p) /\ p.fallo = m.fallo
<1> DEFINE q == PonerAtomica(m, k, v, n)
           p == AvanzarNumero(q, z)
           r == Registro(m, k, Len(v), TRUE)
<1> SUFFICES Densa(p) /\ p.fallo = m.fallo
  OBVIOUS
<1>0. m \in Memoria /\ m.activo \in BOOLEAN
  BY DEF Buena, Memoria
<1>1. Buena(q, A) /\ PuestaEn(m, k, v, n, q)
  BY PonerBuena, TablaBienFormada
<1> HIDE DEF q
<1>2. p.tabla = q.tabla /\ p.fallo = q.fallo /\ p.activo = q.activo /\ p.numero = Menor(z, N)
  BY <1>1, AvanzarBuena
<1> HIDE DEF p
<1>3. \A x \in Entradas \ {n} : m.tabla[x] # Libre => m.tabla[n] = Libre \/ m.tabla[x].clave # m.tabla[n].clave
  BY DEF Densa
<1>5. p.tabla[n] = r /\ r.atomica /\ r.tam = Len(v) /\ r.clave = k
  BY <1>1, <1>2 DEF PuestaEn, Registro
<1> HIDE DEF r
<1>6. p.tabla[n] # Libre
  <2>1. k \in Claves /\ Len(v) \in 0..T /\ m.contador \in Nat
    BY <1>0, TablaBienFormada DEF Memoria
  <2>2. r \in Registros
    BY <2>1 DEF r, Registro, Registros
  <2> QED BY <1>5, <2>2, CentinelasDistintos
<1>7. \A x \in Entradas \ {n} : m.tabla[x] # Libre => m.tabla[x].clave # k
  BY DEF Guardada, obtenerIndicesDeClave
<1>8. p.activo = m.activo /\ p.fallo = m.fallo
  BY <1>1, <1>2 DEF PuestaEn
<1>4. \A x \in Entradas \ {n} : p.tabla[x] = m.tabla[x]
  <2> SUFFICES ASSUME NEW x \in Entradas \ {n} PROVE q.tabla[x] = m.tabla[x]
    BY <1>2
  <2>1. /\ q.tabla[x] = m.tabla[x] \/ q.tabla[x] = Libre
        /\ q.tabla[x] = m.tabla[x] \/ (m.tabla[n] # Libre /\ m.tabla[x].clave = m.tabla[n].clave)
    BY <1>1 DEF PuestaEn
  <2> QED BY <1>3, <2>1
<1>9. CASE m.activo
  BY <1>4, <1>5, <1>6, <1>7, <1>8, <1>9 DEF Densa
<1>10. CASE ~m.activo
  <2>1. /\ Menor(z, N) = n + 1 /\ n \in Nat /\ n = m.numero
        /\ \A x \in Entradas : x \in Nat /\ (x < n + 1 <=> x < n \/ x = n)
    BY <1>10, TablaBienFormada DEF Menor, Entradas
  <2>2. \A x \in Entradas : p.tabla[x] # Libre <=> x < p.numero
    BY <1>2, <1>4, <1>6, <1>10, <2>1 DEF Densa
  <2> QED BY <1>4, <1>5, <1>6, <1>7, <1>8, <1>10, <2>2 DEF Densa
<1> QED BY <1>0, <1>8, <1>9, <1>10

\* The replacement, in a full table.
LEMMA DensaReemplaza ==
  ASSUME NEW A \in SUBSET Claves, NEW k \in A, NEW m, Buena(m, A), Densa(m), m.activo,
         ~Guardada(m, k), NEW v \in Seq(Byte), Len(v) \in 1..T, NEW n \in Entradas
  PROVE  LET p == guardarIndiceAtomicoEnTabla(m, k, v, n)
         IN  Densa(p) /\ p.fallo = m.fallo
<1> DEFINE z == (IF algoritmo = "CIRC" THEN n ELSE m.numero) + 1
           p == AvanzarNumero(PonerAtomica(m, k, v, n), z)
<1>1. m.tabla[n] # Libre /\ m \in Memoria /\ n \in Nat /\ ~(n >= N)
  BY TablaBienFormada DEF Densa, Buena, Entradas
<1>2. TamanioTotal(m, m.tabla[n].clave) = m.tabla[n].tam
  <2>1. Tramo(m, m.tabla[n].clave, n, n)
    BY <1>1, DensaTramo
  <2>2. /\ TamanioTotal(m, m.tabla[n].clave) = (n - n) * T + m.tabla[n].tam
        /\ m.tabla[n].tam \in 0..T
    BY <1>1, <2>1, TamanioTramo
  <2>3. n - n = 0 /\ 0 * T = 0
    BY <1>1, TablaBienFormada
  <2> QED BY <2>2, <2>3
<1>3. m.tabla[n].tam \in 1..T /\ m.tabla[n].tam \in Nat
  BY <1>1 DEF Densa
<1>4. cantidadDeEntradasRequeridasParaValor(TamanioTotal(m, m.tabla[n].clave)) = 1
  BY <1>2, <1>3, UnaEntrada
<1>5. guardarIndiceAtomicoEnTabla(m, k, v, n) = p
  BY <1>1, <1>4 DEF guardarIndiceAtomicoEnTabla
<1>6. z \in Nat
  BY <1>1 DEF Memoria
<1> HIDE DEF z
<1>7. Densa(p) /\ p.fallo = m.fallo
  BY <1>6, DensaPone
<1> QED BY <1>5, <1>7

\* So does GuardarAtomica, which does not fail.
LEMMA DensaAtomica ==
  ASSUME NEW A \in SUBSET Claves, NEW k \in A, NEW m, Buena(m, A), Densa(m),
         ~Guardada(m, k), NEW v \in Seq(Byte), Len(v) \in 1..T
  PROVE  LET p == GuardarAtomica(m, k, v)
         IN  Densa(p) /\ p.fallo = m.fallo
<1> DEFINE p == GuardarAtomica(m, k, v)
<1> SUFFICES Densa(p) /\ p.fallo = m.fallo
  OBVIOUS
<1>0. m \in Memoria /\ m.activo \in BOOLEAN /\ m.numero \in 0..N /\ N \in Nat /\ N >= 1
  BY TablaBienFormada DEF Buena, Memoria
<1>1. CASE m.numero < N
  <2>1. p = guardarIndiceAtomicoEnTabla(m, k, v, m.numero) /\ m.numero \in Entradas
    BY <1>0, <1>1 DEF GuardarAtomica, Entradas
  <2> HIDE DEF p
  <2>2. CASE m.activo
    BY <2>1, <2>2, DensaReemplaza
  <2>3. CASE ~m.activo
    <3>1. p = AvanzarNumero(PonerAtomica(m, k, v, m.numero), m.numero + 1) /\ m.numero + 1 \in Nat
      BY <1>0, <1>1, <2>1, <2>3 DEF guardarIndiceAtomicoEnTabla
    <3> QED BY <2>1, <2>3, <3>1, DensaPone
  <2> QED BY <1>0, <2>2, <2>3
<1>2. CASE ~(m.numero < N)
  <2>1. \A n \in Entradas : m.tabla[n] # Libre /\ m.tabla[n].atomica
    <3>1. \A n \in Entradas : n < m.numero
      BY <1>0, <1>2 DEF Entradas
    <3> QED BY <3>1 DEF Densa
  <2>2. Libres(m) = {} /\ Atomicas(m) = Entradas /\ Entradas # {} /\ 0 \in Entradas
    BY <1>0, <2>1 DEF Libres, Atomicas, Entradas
  <2>3. p = aplicarAlgoritmoDeReemplazo(m, k, v)
    BY <1>2, <2>2 DEF GuardarAtomica
  <2> HIDE DEF p
  <2> DEFINE q == Con(m, TRUE, m.numero)
             q0 == Con(m, TRUE, 0)
  <2>4. /\ Buena(q, A) /\ Buena(q0, A) /\ q.activo /\ q0.activo /\ q.tabla = m.tabla
        /\ q0.tabla = m.tabla /\ q.fallo = m.fallo /\ q0.fallo = m.fallo
    <3>1. TRUE \in BOOLEAN /\ 0 \in 0..N
      BY <1>0
    <3>2. \A nu \in 0..N :
            LET c == Con(m, TRUE, nu)
            IN  Buena(c, A) /\ c.activo = TRUE /\ c.tabla = m.tabla /\ c.fallo = m.fallo
      <4>1. \A ac \in BOOLEAN, nu \in 0..N :
              LET c == Con(m, ac, nu)
              IN  Buena(c, A) /\ c.activo = ac /\ c.tabla = m.tabla /\ c.fallo = m.fallo
        BY ConBuena
      <4> QED BY <3>1, <4>1, Zenon
    <3> QED BY <1>0, <3>1, <3>2
  <2>5. q = [m EXCEPT !.activo = TRUE] /\ q0 = [[m EXCEPT !.activo = TRUE] EXCEPT !.numero = 0]
    BY <1>0 DEF Con, Memoria
  <2> HIDE DEF q, q0
  <2>6. Densa(q) /\ Densa(q0) /\ ~Guardada(q, k) /\ ~Guardada(q0, k)
    BY <2>1, <2>4 DEF Densa, Guardada, obtenerIndicesDeClave
  <2>7. MenosUsada(m, Entradas) \in Entradas /\ MasGrande(m, Entradas) \in Entradas
    <3>1. Entradas \in SUBSET Entradas
      OBVIOUS
    <3> QED BY <1>0, <2>1, <2>2, <3>1, Elegidas
  <2>8. \E n \in Entradas : \/ p = guardarIndiceAtomicoEnTabla(q, k, v, n)
                            \/ p = guardarIndiceAtomicoEnTabla(q0, k, v, n)
    BY <2>2, <2>3, <2>5, <2>7 DEF aplicarAlgoritmoDeReemplazo
  <2> QED BY <2>4, <2>6, <2>8, DensaReemplaza
<1> QED BY <1>1, <1>2

\* So does a SET of one entry.
LEMMA DensaGuarda ==
  ASSUME NEW A \in SUBSET Claves, NEW k \in A, NEW m, Buena(m, A), Densa(m), m.fallo = "no",
         NEW v \in Seq(Byte), Len(v) \in 1..T
  PROVE  LET p == guardarClaveValor(m, k, v)
         IN  Densa(p) /\ p.fallo = "no"
<1> DEFINE p == guardarClaveValor(m, k, v)
<1> SUFFICES Densa(p) /\ p.fallo = "no"
  OBVIOUS
<1>1. \/ Creceria(m, k, v, p)
      \/ ~Crece(m, k, Len(v)) /\ Guardada(m, k) /\ Actualiza(m, k, v, p)
      \/ EsAtomica(m, k, v, p)
      \/ NoCabe(m, k, p)
      \/ EsDeVarias(m, k, v, p)
  BY GuardarForma
<1> HIDE DEF p
<1>2. "EXITO_I" \in Respuestas /\ "ERROR_I" \in Respuestas
  BY DEF Respuestas
<1>3. cantidadDeEntradasRequeridasParaValor(Len(v)) = 1
  BY UnaEntrada
<1>4. ASSUME NEW q, Buena(q, A), Densa(q), q.fallo = "no", NEW r \in Respuestas, p = ConResp(q, r)
      PROVE  Densa(p) /\ p.fallo = "no"
  BY <1>4, ConRespBuena, DensaIgual
<1>5. CASE Creceria(m, k, v, p) \/ NoCabe(m, k, p)
  BY <1>2, <1>4, <1>5 DEF Creceria, NoCabe
<1>6. CASE EsAtomica(m, k, v, p)
  <2>1. /\ Buena(GuardarAtomica(m, k, v), A) /\ Densa(GuardarAtomica(m, k, v))
        /\ GuardarAtomica(m, k, v).fallo = "no"
    BY <1>6, AtomicaBuena, DensaAtomica, TablaBienFormada DEF EsAtomica
  <2> QED BY <1>2, <1>4, <1>6, <2>1 DEF EsAtomica
<1>7. CASE EsDeVarias(m, k, v, p)
  BY <1>3, <1>7 DEF EsDeVarias
<1>8. CASE Actualiza(m, k, v, p)
  <2>1. PICK lo \in Entradas, hi \in Entradas, q \in Memoria :
          /\ Tramo(m, k, lo, hi) /\ Actualizada(m, k, v, lo, hi, q) /\ p = ConResp(q, "EXITO_I")
    BY <1>8 DEF Actualiza
  <2>2. Buena(q, A)
    BY <2>1, ActualizarBuena
  <2>3. m \in Memoria /\ lo \in Nat /\ hi \in Nat /\ lo <= hi
    BY <2>1, TablaBienFormada DEF Buena, Tramo, Entradas
  <2>4. lo = hi /\ m.tabla[lo] # Libre /\ m.tabla[lo] \in Registros
    <3>1. lo \in obtenerIndicesDeClave(m, k) /\ hi \in obtenerIndicesDeClave(m, k)
      BY <2>1, <2>3 DEF Tramo
    <3> QED BY <2>3, <3>1 DEF obtenerIndicesDeClave, Densa, Memoria
  <2>5. /\ q.activo = m.activo /\ q.numero = m.numero /\ q.fallo = m.fallo
        /\ \A x \in Entradas : x # lo => q.tabla[x] = m.tabla[x]
        /\ q.tabla[lo] = [m.tabla[lo] EXCEPT !.tam = TamanioDeEntrada(Len(v), lo - lo),
                                             !.op = m.contador]
    <3>1. \A x : x \in lo..hi <=> x = lo
      BY <2>3, <2>4
    <3>2. lo - lo < 1
      BY <2>3
    <3> QED BY <1>3, <2>1, <3>1, <3>2 DEF Actualizada
  <2>6. TamanioDeEntrada(Len(v), lo - lo) \in 1..T
    <3>1. lo - lo = 0 /\ 0 \in Nat /\ 0 < 1 /\ Len(v) \in Nat
      BY <2>3
    <3> QED BY <1>3, <3>1, TamanioDe
  <2> DEFINE tam == TamanioDeEntrada(Len(v), lo - lo)
  <2> HIDE DEF tam
  <2>7. tam \in 1..T /\ q.tabla[lo] = [m.tabla[lo] EXCEPT !.tam = tam, !.op = m.contador]
    BY <2>5, <2>6 DEF tam
  <2>8. q.tabla[lo].tam = tam /\ q.tabla[lo].atomica = m.tabla[lo].atomica
        /\ q.tabla[lo].clave = m.tabla[lo].clave /\ q.tabla[lo] # Libre
    <3>1. m.contador \in Nat /\ tam \in 0..T
      BY <2>3, <2>7, TablaBienFormada DEF Memoria
    <3>2. q.tabla[lo] \in Registros
      BY <2>4, <2>7, <3>1 DEF Registros
    <3> QED BY <2>4, <2>7, <3>2, CentinelasDistintos DEF Registros
  <2> HIDE DEF tam
  <2>9. Densa(q)
    <3>1. \A x \in Entradas : /\ q.tabla[x] # Libre <=> m.tabla[x] # Libre
                              /\ m.tabla[x] # Libre => /\ q.tabla[x].clave = m.tabla[x].clave
                                                       /\ q.tabla[x].atomica = m.tabla[x].atomica
                                                       /\ q.tabla[x].tam \in 1..T
      BY <2>4, <2>5, <2>7, <2>8 DEF Densa
    <3> QED BY <2>5, <3>1 DEF Densa
  <2> QED BY <1>2, <1>4, <2>1, <2>2, <2>5, <2>9
<1> QED BY <1>1, <1>5, <1>6, <1>7, <1>8

\* So does a compaction, which moves nothing.
LEMMA DensaCompacta ==
  ASSUME NEW m \in Memoria, Densa(m)
  PROVE  Densa(compactarEntradas(m))
<1> DEFINE S == Ocupadas(m)
           C == Cardinality(S)
           p == compactarEntradas(m)
<1> SUFFICES Densa(p)
  OBVIOUS
<1>1. PICK f : Compactada(m, p, f)
  BY CompactarForma
<1> HIDE DEF p
<1>2. /\ \A x \in Entradas : p.tabla[x] = IF x < C THEN m.tabla[Rango(S, x)] ELSE Libre
      /\ p.numero = m.numero /\ p.activo = m.activo
  BY <1>1 DEF Compactada
<1>3. S \in SUBSET Entradas /\ \A x \in Entradas : x \in S <=> m.tabla[x] # Libre
  BY DEF Ocupadas, Libres
<1>5. m.numero \in 0..N /\ N \in Nat /\ N >= 1 /\ m.activo \in BOOLEAN /\ \A x \in Entradas : x \in Nat /\ x < N
  BY TablaBienFormada DEF Memoria, Entradas
<1> HIDE DEF S
<1>4. /\ C \in 0..N
      /\ \A i \in 0..(C - 1) : Rango(S, i) \in S /\ Rango(S, i) \in Nat
      /\ \A i, j \in 0..(C - 1) : i < j => Rango(S, i) < Rango(S, j)
  BY <1>3, <1>5, Rangos
<1>6. C = IF m.activo THEN N ELSE m.numero
  <2> DEFINE z == IF m.activo THEN N ELSE m.numero
  <2>1. S = 0..(z - 1)
    <3>1. \A x \in Entradas : x \in S <=> x < z
      BY <1>3, <1>5 DEF Densa
    <3>2. z \in Nat /\ z <= N
      BY <1>5
    <3> HIDE DEF z
    <3>3. \A x : x \in 0..(z - 1) <=> x \in Entradas /\ x < z
      BY <1>5, <3>2 DEF Entradas
    <3> QED BY <1>3, <3>1, <3>3
  <2>2. 0 \in Int /\ z - 1 \in Int /\ z \in Nat
    BY <1>5
  <2>3. Cardinality(0..(z - 1)) = IF 0 > z - 1 THEN 0 ELSE (z - 1) - 0 + 1
    BY <2>2, FS_Interval
  <2> HIDE DEF z
  <2>4. C = z
    BY <2>1, <2>2, <2>3
  <2> QED BY <2>4 DEF z
<1> HIDE DEF C
<1>7. \A x \in Entradas : x < C => x \in 0..(C - 1)
  BY <1>4, <1>5
<1>8. \A x \in Entradas : /\ p.tabla[x] # Libre <=> x < C
                          /\ x < C => Rango(S, x) \in Entradas /\ m.tabla[Rango(S, x)] # Libre
  BY <1>2, <1>3, <1>4, <1>7
<1>9. \A n \in Entradas : p.tabla[n] # Libre => p.tabla[n].atomica /\ p.tabla[n].tam \in 1..T
  BY <1>2, <1>8 DEF Densa
<1>10. ASSUME NEW a \in Entradas, NEW b \in Entradas, a # b, p.tabla[a] # Libre, p.tabla[b] # Libre
       PROVE  p.tabla[a].clave # p.tabla[b].clave
  <2>1. a \in 0..(C - 1) /\ b \in 0..(C - 1) /\ (a < b \/ b < a)
    BY <1>5, <1>7, <1>8, <1>10
  <2>2. Rango(S, a) # Rango(S, b)
    BY <1>4, <2>1
  <2> QED BY <1>2, <1>8, <1>10, <2>2 DEF Densa
<1>11. \A n \in Entradas : p.activo => p.tabla[n] # Libre
  BY <1>2, <1>5, <1>6, <1>8
<1>12. ~p.activo => \A n \in Entradas : p.tabla[n] # Libre <=> n < p.numero
  BY <1>2, <1>5, <1>6, <1>8
<1> QED BY <1>9, <1>10, <1>11, <1>12 DEF Densa

\* So does a recovery from files of one entry.
LEMMA DensaRecupera ==
  ASSUME NEW A \in SUBSET Claves, IsFiniteSet(A), NEW orden \in SetToSeqs(A), NEW f \in Archivos,
         \A k \in A : f[k] # SinArchivo
           => cantidadDeEntradasRequeridasParaValor(Len(Leido(f[k]))) = 1
  PROVE  LET p == obtenerClavesARecuperar(orden, f)
         IN  Densa(p) /\ p.fallo = "no"
<1>1. PICK h : Recuperada(orden, f, A, h) /\ obtenerClavesARecuperar(orden, f) = h[Len(orden)]
  BY RecuperarForma
<1>2. Len(orden) \in Nat /\ \A j \in 1..Len(orden) : orden[j] \in A
  BY OrdenEs
<1> DEFINE n == Len(orden)
           P == {j \in 0..n : Densa(h[j]) /\ h[j].fallo = "no"}
<1>3. 0 \in P
  <2>1. h[0] = MemoriaInicial
    BY <1>1 DEF Recuperada
  <2>2. Densa(MemoriaInicial) /\ MemoriaInicial.fallo = "no"
    BY TablaBienFormada DEF MemoriaInicial, Densa, Entradas
  <2> QED BY <1>2, <2>1, <2>2
<1>4. ASSUME NEW j \in 0..(n - 1), j \in P PROVE j + 1 \in P
  <2>1. j + 1 \in 1..n /\ (j + 1) - 1 = j /\ j \in 0..n /\ j + 1 \in 0..n
    BY <1>2
  <2>2. /\ Buena(h[j], A) /\ Densa(h[j]) /\ h[j].fallo = "no"
        /\ h[j + 1] = recuperarClave(h[j], orden[j + 1], f) /\ orden[j + 1] \in A
    BY <1>1, <1>2, <1>4, <2>1 DEF Recuperada
  <2> DEFINE m == h[j]
             k == orden[j + 1]
             q == h[j + 1]
  <2> HIDE DEF m, k, q, n
  <2>3. Buena(m, A) /\ Densa(m) /\ m.fallo = "no" /\ q = recuperarClave(m, k, f) /\ k \in A
    BY <2>2 DEF m, k, q
  <2>4. Densa(q) /\ q.fallo = "no"
    <3>1. CASE f[k] = SinArchivo
      BY <2>3, <3>1 DEF recuperarClave
    <3>2. CASE f[k] # SinArchivo
      <4>1. f[k] \in Seq(Byte)
        BY <2>3, <3>2 DEF Archivos
      <4>2. Leido(f[k]) \in Seq(Byte)
        BY <4>1, LeidoEs
      <4>3. Len(Leido(f[k])) \in 1..T
        <5>1. Len(Leido(f[k])) \in Nat
          BY <4>2
        <5> QED BY <2>3, <3>2, <5>1, UnaEntrada
      <4>4. q = guardarClaveValor(m, k, Leido(f[k]))
        BY <2>3, <3>2 DEF recuperarClave
      <4> QED BY <2>3, <4>2, <4>3, <4>4, DensaGuarda
    <3> QED BY <3>1, <3>2
  <2> QED BY <2>1, <2>4 DEF q, n
<1> HIDE DEF P
<1>5. 0..n \subseteq P
  BY <1>2, <1>3, <1>4, Induccion
<1>6. n \in P
  BY <1>2, <1>5
<1> QED BY <1>1, <1>6 DEF P

\* While every value takes one entry, the table is dense and the process has not failed.
DInv == soloAtomicas => Densa(inst) /\ Intacta(inst)

\* It holds at the start.
LEMMA DInvInicial == Init => DInv
<1> SUFFICES ASSUME Init PROVE Densa(inst) /\ Intacta(inst)
  BY DEF DInv
<1> QED BY TablaBienFormada DEF Init, MemoriaInicial, Densa, Intacta, Entradas

\* Every step preserves it.
LEMMA DInvPaso == IInv /\ IInv' /\ DInv /\ [Next]_vars => DInv'
<1> SUFFICES ASSUME IInv, IInv', DInv, [Next]_vars, soloAtomicas' PROVE Densa(inst') /\ Intacta(inst')
  BY DEF DInv
<1>0. /\ Buena(inst, asignadas) /\ asignadas \in SUBSET Claves /\ archivo \in Archivos
      /\ IsFiniteSet(asignadas) /\ inst \in Memoria
  BY IInvBuena DEF IInv, TypeOK
<1>1. /\ archivo' \in Archivos /\ Buena(inst', asignadas')
  <2>1. Asignada(inst', asignadas')
    BY DEF IInv, TypeOK, Asignada, Libres
  <2> QED BY <2>1 DEF IInv, TypeOK, Buena, Archivos
\* What the answer adds: nothing, or the fault "basura".
<1>2. ASSUME NEW p, Densa(p), Intacta(p), Buena(p, asignadas), NEW w,
             inst' \in enviarResultadoSentencia(p, w)
      PROVE  Densa(inst') /\ Intacta(inst')
  <2>1. p \in Memoria
    BY <1>2 DEF Buena
  <2>2. inst' = p \/ (inst'.fallo = "basura" /\ inst'.tabla = p.tabla
                      /\ inst'.activo = p.activo /\ inst'.numero = p.numero)
    BY <1>2, <2>1 DEF enviarResultadoSentencia, Romper, Memoria
  <2> QED BY <1>2, <2>2, DensaIgual DEF Intacta
<1>3. ASSUME NEW k \in Claves, NEW L \in Largos, SET_(k, L) PROVE Densa(inst') /\ Intacta(inst')
  <2> DEFINE A == asignadas \cup {k}
             m == recibirSentencia(inst)
             v == Valor(k, L)
             p == guardarClaveValor(m, k, v)
  <2>1. A \in SUBSET Claves /\ k \in A /\ Buena(inst, A)
    BY <1>0, MasKeys
  <2>2. /\ Buena(m, A) /\ m.fallo = "no" /\ m.tabla = inst.tabla /\ m.activo = inst.activo
        /\ m.numero = inst.numero
    BY <1>3, <2>1, RecibirBuena DEF SET_, Sigue
  <2>3. v \in Seq(Byte) /\ Len(v) = L
    BY TablaBienFormada DEF Valor, Byte
  <2>4. soloAtomicas /\ L \in 1..T
    <3>1. soloAtomicas /\ L <= T
      BY <1>3, Zenon DEF SET_
    <3> QED BY <3>1, TablaBienFormada
  <2> HIDE DEF A, m, v
  <2>5. Densa(m)
    BY <2>2, <2>4, DensaIgual DEF DInv
  <2>6. Densa(p) /\ p.fallo = "no"
    BY <2>1, <2>2, <2>3, <2>4, <2>5, DensaGuarda
  <2>10. Buena(p, A)
    BY <2>1, <2>2, <2>3, GuardarBuena
  <2> HIDE DEF p
  <2>7. \E q \in ConDesborde(p, DesbordaActualizacion(inst, k, L)) :
          inst' \in enviarResultadoSentencia(q, "SET")
    BY <1>3 DEF SET_, p, m, v
  <2>8. inst' \in ConDesborde(p, DesbordaActualizacion(inst, k, L))
    BY <2>7 DEF enviarResultadoSentencia
  <2>9. inst'.tabla = p.tabla /\ inst'.activo = p.activo /\ inst'.numero = p.numero
        /\ (inst' = p \/ inst'.fallo = "desborde")
    BY <2>8, <2>10, DesbordeBuena
  <2> QED BY <2>6, <2>9, DensaIgual DEF Intacta
<1>4. ASSUME NEW k \in Claves, STORE_(k) PROVE Densa(inst') /\ Intacta(inst')
  <2> DEFINE r == IF Guardada(inst, k) THEN "EXITO_I" ELSE "ERROR_I"
             p == ConResp(recibirSentencia(inst), r)
  <2>1. r \in Respuestas
    BY DEF Respuestas
  <2>2. inst' \in enviarResultadoSentencia(p, "STORE") /\ soloAtomicas
    BY <1>4 DEF STORE_, ConResp, historia
  <2> HIDE DEF r
  <2>3. /\ Buena(p, asignadas) /\ p.tabla = inst.tabla /\ p.activo = inst.activo
        /\ p.numero = inst.numero /\ p.fallo = inst.fallo
    <3> DEFINE m == recibirSentencia(inst)
    <3>1. /\ Buena(m, asignadas) /\ m.tabla = inst.tabla /\ m.activo = inst.activo
          /\ m.numero = inst.numero /\ m.fallo = inst.fallo
      BY <1>0, RecibirBuena
    <3> HIDE DEF m
    <3>2. LET q == ConResp(m, r)
          IN  /\ Buena(q, asignadas) /\ q.tabla = m.tabla /\ q.fallo = m.fallo
              /\ q.numero = m.numero /\ q.activo = m.activo
      BY <2>1, <3>1, ConRespBuena
    <3> QED BY <3>1, <3>2 DEF m
  <2> HIDE DEF p
  <2>4. Densa(p) /\ Intacta(p)
    BY <2>2, <2>3, DensaIgual DEF DInv, Intacta
  <2> QED BY <1>2, <2>2, <2>3, <2>4
<1>5. ASSUME NEW k \in Claves, OBTENER_VALOR(k) PROVE Densa(inst') /\ Intacta(inst')
  <2> DEFINE p == IF Guardada(inst, k) THEN recibirSentencia(inst) ELSE Romper(inst, "ausente")
  <2>1. "ausente" \in Fallos
    BY DEF Fallos
  <2>2. inst' \in enviarResultadoSentencia(p, "OBTENER_VALOR") /\ soloAtomicas
    BY <1>5 DEF OBTENER_VALOR, historia
  <2>3. /\ Buena(p, asignadas) /\ p.tabla = inst.tabla /\ p.activo = inst.activo
        /\ p.numero = inst.numero /\ p.fallo \in {inst.fallo, "ausente"}
    <3>1. CASE Guardada(inst, k)
      BY <1>0, <3>1, RecibirBuena
    <3>2. CASE ~Guardada(inst, k)
      BY <1>0, <2>1, <3>2, RomperBuena DEF Romper, Memoria
    <3> QED BY <3>1, <3>2
  <2> HIDE DEF p
  <2>4. Densa(p) /\ Intacta(p)
    BY <2>2, <2>3, DensaIgual DEF DInv, Intacta
  <2> QED BY <1>2, <2>2, <2>3, <2>4
<1>6. ASSUME COMPACTAR PROVE Densa(inst') /\ Intacta(inst')
  <2> DEFINE p == compactarEntradas(inst)
  <2>1. /\ soloAtomicas
        /\ \E q \in ConDesborde(p, DesbordaCompactacion(inst)) :
             inst' \in enviarResultadoSentencia(q, "COMPACTAR")
    BY <1>6 DEF COMPACTAR, historia
  <2>2. Densa(p) /\ Buena(p, asignadas)
    BY <1>0, <2>1, DensaCompacta, CompactarBuena DEF DInv
  <2>3. p.fallo = inst.fallo
    <3>1. PICK f : Compactada(inst, p, f)
      BY <1>0, CompactarForma
    <3> QED BY <3>1 DEF Compactada
  <2> HIDE DEF p
  <2>4. Intacta(p)
    BY <2>1, <2>3 DEF DInv, Intacta
  <2>5. PICK q \in ConDesborde(p, DesbordaCompactacion(inst)) :
          inst' \in enviarResultadoSentencia(q, "COMPACTAR")
    BY <2>1
  <2>6. Densa(q) /\ Intacta(q) /\ Buena(q, asignadas)
    BY <2>2, <2>4, DesbordeBuena, DensaIgual DEF Intacta
  <2> QED BY <1>2, <2>5, <2>6
<1>7. ASSUME ejecutarDump PROVE Densa(inst') /\ Intacta(inst')
  <2>1. (inst' = inst \/ inst' = ConResp(inst, "EXITO_I")) /\ soloAtomicas
    BY <1>7 DEF ejecutarDump, ConResp, historia
  <2>2. "EXITO_I" \in Respuestas
    BY DEF Respuestas
  <2>3. inst'.tabla = inst.tabla /\ inst'.activo = inst.activo
        /\ inst'.numero = inst.numero /\ inst'.fallo = inst.fallo
    BY <1>0, <2>1, <2>2, ConRespBuena
  <2> QED BY <2>1, <2>3, DensaIgual DEF DInv, Intacta
<1>8. ASSUME NEW orden \in SetToSeqs(asignadas), NEW f \in Archivos, ArchivosAtomicos(f),
             NEW c, inst' \in ConDesborde(obtenerClavesARecuperar(orden, f), c)
      PROVE  Densa(inst') /\ Intacta(inst')
  <2> DEFINE p == obtenerClavesARecuperar(orden, f)
  <2>1. Densa(p) /\ p.fallo = "no" /\ Buena(p, asignadas)
    BY <1>0, <1>8, DensaRecupera, TodasBuenas DEF ArchivosAtomicos
  <2> HIDE DEF p
  <2>2. inst' \in ConDesborde(p, c)
    BY <1>8 DEF p
  <2> QED BY <2>1, <2>2, DesbordeBuena, DensaIgual DEF Intacta
<1>9. ASSUME NEW orden \in SetToSeqs(asignadas), Reiniciar(orden)
      PROVE  Densa(inst') /\ Intacta(inst')
  BY <1>0, <1>8, <1>9 DEF Reiniciar, Arrancar
<1>10. ASSUME NEW k \in Claves, NEW orden \in SetToSeqs(asignadas), CaerGrabando(k, orden)
       PROVE  Densa(inst') /\ Intacta(inst')
  BY <1>1, <1>8, <1>10 DEF CaerGrabando, Arrancar
<1>11. CASE UNCHANGED vars
  BY <1>11 DEF vars, DInv, Densa, Intacta
<1> QED BY <1>3, <1>4, <1>5, <1>6, <1>7, <1>9, <1>10, <1>11 DEF Next

(***************************************************************************)
(* What a SET leaves in the block.                                         *)
(***************************************************************************)
\* The block from d on has room for v; it holds v.
Cabe(d, v) == \A j \in 1..Len(v) : d + j - 1 \in Direcciones
Esta(b, d, v) == \A j \in 1..Len(v) : b[d + j - 1] = v[j]

\* What a copy leaves where it writes, and elsewhere.
LEMMA Copiado ==
  ASSUME NEW b, NEW d \in Nat, NEW s \in Seq(Byte)
  PROVE  /\ Cabe(d, s) => Esta(memcpy(b, d, s), d, s) /\ Esta(strcpy(b, d, s), d, s)
         /\ \A x \in Direcciones : x < d \/ x >= d + Len(s) => memcpy(b, d, s)[x] = b[x]
         /\ \A x \in Direcciones : x < d \/ x > d + Len(s) => strcpy(b, d, s)[x] = b[x]
         /\ d + Len(s) \in Direcciones => strcpy(b, d, s)[d + Len(s)] = NUL
         /\ \A L \in Nat, x \in Direcciones : x < d \/ x >= d + L => memset(b, d, L)[x] = b[x]
<1>0. \A x \in Direcciones : x \in Nat
  BY DEF Direcciones
<1>1. Len(s) \in Nat /\ NUL \in Byte
  BY DEF Byte
<1> DEFINE z == Append(s, NUL)
<1>2. /\ Len(z) = Len(s) + 1 /\ z[Len(s) + 1] = NUL /\ \A j \in 1..Len(s) : z[j] = s[j]
  BY <1>1
<1> HIDE DEF z
<1>3. \A j \in 1..Len(s) : d + j - 1 \in Direcciones => memcpy(b, d, s)[d + j - 1] = s[j]
  <2> SUFFICES ASSUME NEW j \in 1..Len(s), d + j - 1 \in Direcciones
               PROVE  memcpy(b, d, s)[d + j - 1] = s[j]
    OBVIOUS
  <2>1. (d + j - 1) - d + 1 = j /\ d + j - 1 \in d..(d + Len(s) - 1)
    BY <1>1
  <2> QED BY <2>1 DEF memcpy
<1>4. \A j \in 1..Len(z) : d + j - 1 \in Direcciones => memcpy(b, d, z)[d + j - 1] = z[j]
  <2> SUFFICES ASSUME NEW j \in 1..Len(z), d + j - 1 \in Direcciones
               PROVE  memcpy(b, d, z)[d + j - 1] = z[j]
    OBVIOUS
  <2>1. (d + j - 1) - d + 1 = j /\ d + j - 1 \in d..(d + Len(z) - 1)
    BY <1>1, <1>2
  <2> QED BY <2>1 DEF memcpy
<1>5. \A x \in Direcciones : x < d \/ x >= d + Len(s) => memcpy(b, d, s)[x] = b[x]
  BY <1>0, <1>1 DEF memcpy
<1>6. \A x \in Direcciones : x < d \/ x > d + Len(s) => memcpy(b, d, z)[x] = b[x]
  BY <1>0, <1>1, <1>2 DEF memcpy
<1>7. strcpy(b, d, s) = memcpy(b, d, z)
  BY DEF strcpy, z
<1>8. \A j \in 1..Len(s) : d + j - 1 \in Direcciones => memcpy(b, d, z)[d + j - 1] = s[j]
  BY <1>1, <1>2, <1>4
<1>9. d + Len(s) \in Direcciones => memcpy(b, d, z)[d + Len(s)] = NUL
  <2>1. Len(s) + 1 \in 1..Len(z) /\ d + (Len(s) + 1) - 1 = d + Len(s)
    BY <1>1, <1>2
  <2> QED BY <1>2, <1>4, <2>1
<1>10. \A L \in Nat, x \in Direcciones : x < d \/ x >= d + L => memset(b, d, L)[x] = b[x]
  BY <1>0 DEF memset
<1>11. ASSUME Cabe(d, s) PROVE Esta(memcpy(b, d, s), d, s) /\ Esta(strcpy(b, d, s), d, s)
  <2>1. Esta(memcpy(b, d, s), d, s)
    BY <1>3, <1>11 DEF Cabe, Esta
  <2>2. Esta(memcpy(b, d, z), d, s)
    BY <1>8, <1>11 DEF Cabe, Esta
  <2> QED BY <1>7, <2>1, <2>2
<1> QED BY <1>5, <1>6, <1>7, <1>9, <1>10, <1>11

\* A key whose entries add up to v, and are v, has the value v.
LEMMA ValorPuesto ==
  ASSUME NEW p \in Memoria, NEW k, NEW lo, NEW hi, Tramo(p, k, lo, hi), NEW v \in Seq(Byte),
         (hi - lo) * T + p.tabla[hi].tam = Len(v),
         \A j \in 1..Len(v) : p.bytes[lo * T + j - 1] = v[j]
  PROVE  Guardada(p, k) /\ obtenerValorCompleto(p, k) = v
<1>1. Guardada(p, k)
  <2>1. lo \in Nat /\ hi \in Nat /\ lo <= hi /\ obtenerIndicesDeClave(p, k) = lo..hi
    BY TablaBienFormada DEF Tramo, Entradas
  <2>2. lo \in lo..hi
    BY <2>1
  <2> QED BY <2>1, <2>2 DEF Guardada
<1> DEFINE w == obtenerValorCompleto(p, k)
           L == TamanioTotal(p, k)
<1>2. /\ w \in Seq(Byte) /\ Len(w) = L /\ L = (hi - lo) * T + p.tabla[hi].tam
      /\ \A j \in 1..L : w[j] = p.bytes[lo * T + j - 1]
  BY ValorEs
<1> HIDE DEF w, L
<1>3. Len(w) = Len(v) /\ \A j \in 1..Len(v) : w[j] = v[j]
  BY <1>2
<1>4. w = v
  BY <1>2, <1>3
<1> QED BY <1>1, <1>4 DEF w

\* What is left for the last entry of a value.
LEMMA UltimoResto ==
  ASSUME NEW L \in Nat
  PROVE  LET need == cantidadDeEntradasRequeridasParaValor(L)
         IN  L <= (need - 1) * T + T /\ (need - 1) * T \in Int
<1> DEFINE need == cantidadDeEntradasRequeridasParaValor(L)
<1>1. need \in Nat /\ L <= need * T /\ T \in Nat
  BY Requeridas, TablaBienFormada
<1> HIDE DEF need
<1>2. need \in Int /\ 1 \in Int
  BY <1>1
<1>3. (need - 1) * T = need * T - 1 * T /\ need * T \in Int
  BY <1>2, Producto
<1>4. 1 * T = T
  BY <1>1
<1> QED BY <1>1, <1>3, <1>4 DEF need

\* The addresses of a value are in the block.
LEMMA EnBloque ==
  ASSUME NEW lo \in Entradas, NEW hi \in Entradas, lo <= hi, NEW L \in Nat, L <= (hi - lo) * T + T
  PROVE  /\ \A j \in 1..L : lo * T + j - 1 \in Direcciones
         /\ lo * T + L <= hi * T + T /\ lo * T + L \in Direcciones /\ lo * T \in Nat
<1>1. lo * T \in Nat /\ hi * T \in Nat /\ hi * T + T <= N * T /\ N * T \in Nat /\ T \in Nat
  BY EntradaEnBloque, TablaBienFormada
<1>2. (hi - lo) * T = hi * T - lo * T
  BY Producto, TablaBienFormada DEF Entradas
<1> QED BY <1>1, <1>2 DEF Direcciones

\* When guardarClaveValor ends well and the value is not longer than the key's entries, the
\* key has it.
LEMMA GuardaValor ==
  ASSUME NEW A \in SUBSET Claves, NEW k \in A, NEW m, Buena(m, A), m.fallo = "no",
         NEW v \in Seq(Byte), ~Crece(m, k, Len(v)), Len(v) > 0 \/ ~Guardada(m, k),
         guardarClaveValor(m, k, v).fallo = "no", guardarClaveValor(m, k, v).resp = "EXITO_I"
  PROVE  LET p == guardarClaveValor(m, k, v)
         IN  Guardada(p, k) /\ obtenerValorCompleto(p, k) = v
<1> DEFINE p == guardarClaveValor(m, k, v)
           need == cantidadDeEntradasRequeridasParaValor(Len(v))
<1> SUFFICES Guardada(p, k) /\ obtenerValorCompleto(p, k) = v
  OBVIOUS
<1>1. \/ Creceria(m, k, v, p)
      \/ ~Crece(m, k, Len(v)) /\ Guardada(m, k) /\ Actualiza(m, k, v, p)
      \/ EsAtomica(m, k, v, p)
      \/ NoCabe(m, k, p)
      \/ EsDeVarias(m, k, v, p)
  BY GuardarForma
<1>2. Buena(p, A) /\ p.fallo = "no" /\ p.resp = "EXITO_I"
  BY GuardarBuena
<1> HIDE DEF p
<1>3. "EXITO_I" \in Respuestas /\ "ERROR_I" \in Respuestas
  BY DEF Respuestas
<1>4. m \in Memoria /\ p \in Memoria /\ k \in Claves
  BY <1>2 DEF Buena
<1>5. Len(v) \in Nat /\ need \in Nat /\ T \in Nat /\ T >= 1 /\ N \in Nat
  BY Requeridas, TablaBienFormada
<1>6. CASE Creceria(m, k, v, p)
  BY <1>6 DEF Creceria
<1>7. CASE NoCabe(m, k, p)
  BY <1>2, <1>3, <1>7, ConRespBuena DEF NoCabe
\* What is asked of the entries and the bytes of k.
<1>8. ASSUME NEW q \in Memoria, q.tabla = p.tabla, q.bytes = p.bytes,
             NEW lo \in Entradas, NEW hi \in Entradas, lo <= hi,
             \A x \in Entradas : x \in lo..hi <=> q.tabla[x] # Libre /\ q.tabla[x].clave = k,
             \A x \in lo..hi : x < hi => q.tabla[x].tam = T,
             (hi - lo) * T + q.tabla[hi].tam = Len(v),
             \A j \in 1..Len(v) : q.bytes[lo * T + j - 1] = v[j]
      PROVE  Guardada(p, k) /\ obtenerValorCompleto(p, k) = v
  <2>1. obtenerIndicesDeClave(p, k) = lo..hi
    <3>1. \A x \in lo..hi : x \in Entradas
      BY TablaBienFormada DEF Entradas
    <3> QED BY <1>8, <3>1 DEF obtenerIndicesDeClave
  <2>2. Tramo(p, k, lo, hi)
    BY <1>8, <2>1 DEF Tramo
  <2>3. (hi - lo) * T + p.tabla[hi].tam = Len(v) /\ \A j \in 1..Len(v) : p.bytes[lo * T + j - 1] = v[j]
    BY <1>8
  <2> QED BY <1>4, <2>2, <2>3, ValorPuesto
<1>9. CASE EsAtomica(m, k, v, p)
  <2> DEFINE q == GuardarAtomica(m, k, v)
  <2>1. /\ ~Guardada(m, k) /\ Len(v) <= T /\ Buena(q, A)
        /\ q.tabla = p.tabla /\ q.bytes = p.bytes /\ q.fallo = "no"
    <3>1. ~Guardada(m, k) /\ Len(v) <= T /\ p = ConResp(q, "EXITO_I")
      BY <1>9 DEF EsAtomica
    <3>2. Buena(q, A)
      BY <3>1, AtomicaBuena
    <3> HIDE DEF q
    <3> QED BY <1>2, <1>3, <3>1, <3>2, ConRespBuena
  <2>2. PICK ac \in BOOLEAN, nu \in 0..N :
          \/ \E f \in {"fuera", "nulo"} : q = Romper(Con(m, ac, nu), f)
          \/ \E n \in Entradas, z \in Nat : q = AvanzarNumero(PonerAtomica(Con(m, ac, nu), k, v, n), z)
    BY <1>4, AtomicaForma DEF Atomica
  <2> HIDE DEF q
  <2> DEFINE c == Con(m, ac, nu)
  <2>3. Buena(c, A) /\ ~Guardada(c, k) /\ c.tabla = m.tabla /\ c.bytes = m.bytes
    BY <2>1, ConBuena DEF Guardada, obtenerIndicesDeClave
  <2> HIDE DEF c
  <2>4. \A f \in {"fuera", "nulo"} : q # Romper(c, f)
    <3>1. \A f \in {"fuera", "nulo"} : f \in Fallos /\ f # "no"
      BY DEF Fallos
    <3> QED BY <2>1, <2>3, <3>1, RomperBuena
  <2>5. PICK n \in Entradas, z \in Nat : q = AvanzarNumero(PonerAtomica(c, k, v, n), z)
    BY <2>2, <2>4 DEF c
  <2> DEFINE r == PonerAtomica(c, k, v, n)
  <2>6. Buena(r, A) /\ PuestaEn(c, k, v, n, r)
    BY <2>1, <2>3, PonerBuena
  <2> HIDE DEF r
  <2>7. q.tabla = r.tabla /\ q.bytes = r.bytes /\ q \in Memoria
    <3>1. q = AvanzarNumero(r, z)
      BY <2>5 DEF r
    <3>2. q.tabla = r.tabla /\ q.bytes = r.bytes
      BY <2>6, <3>1, AvanzarBuena
    <3> QED BY <2>1, <3>2 DEF Buena
  <2>8. n \in Nat /\ n * T \in Nat /\ \A x : x \in n..n <=> x = n
    BY EntradaEnBloque, TablaBienFormada DEF Entradas
  <2>9. q.tabla[n] # Libre /\ q.tabla[n].clave = k /\ q.tabla[n].tam = Len(v)
    <3> DEFINE g == Registro(c, k, Len(v), TRUE)
    <3>1. g \in Registros /\ g.clave = k /\ g.tam = Len(v)
      <4>1. c.contador \in Nat /\ Len(v) \in 0..T
        BY <1>5, <2>1, <2>3 DEF Buena, Memoria
      <4> QED BY <1>4, <4>1 DEF Registro, Registros
    <3>2. q.tabla[n] = g
      BY <2>6, <2>7 DEF PuestaEn
    <3> HIDE DEF g
    <3> QED BY <3>1, <3>2, CentinelasDistintos
  <2>10. \A x \in Entradas : x # n => ~(q.tabla[x] # Libre /\ q.tabla[x].clave = k)
    <3>1. \A x \in Entradas : x # n => q.tabla[x] = c.tabla[x] \/ q.tabla[x] = Libre
      BY <2>6, <2>7 DEF PuestaEn
    <3> QED BY <2>3, <3>1 DEF Guardada, obtenerIndicesDeClave
  <2>11. \A x \in Entradas : x \in n..n <=> q.tabla[x] # Libre /\ q.tabla[x].clave = k
    BY <2>8, <2>9, <2>10
  <2>12. n <= n /\ (n - n) * T + q.tabla[n].tam = Len(v) /\ Len(v) <= (n - n) * T + T
    <3>1. n - n = 0 /\ 0 * T = 0 /\ n <= n
      BY <1>5, <2>8
    <3> QED BY <1>5, <2>1, <2>9, <3>1
  <2>13. \A j \in 1..Len(v) : q.bytes[n * T + j - 1] = v[j]
    <3>1. \A j \in 1..Len(v) : n * T + j - 1 \in Direcciones
      BY <1>5, <2>12, EnBloque
    <3>2. q.bytes = memcpy(memset(c.bytes, n * T, need * T), n * T, v)
      BY <2>6, <2>7 DEF PuestaEn
    <3> DEFINE d == n * T
               b == memset(c.bytes, d, need * T)
    <3> HIDE DEF b, d
    <3>3. d \in Nat /\ Cabe(d, v) /\ q.bytes = memcpy(b, d, v)
      BY <2>8, <3>1, <3>2 DEF d, b, Cabe
    <3>4. Esta(memcpy(b, d, v), d, v)
      BY <3>3, Copiado
    <3>5. Esta(q.bytes, d, v)
      BY <3>3, <3>4
    <3> QED BY <3>5 DEF d, Esta
  <2>14. \A x \in n..n : ~(x < n)
    BY <2>8
  <2> QED BY <1>8, <2>1, <2>7, <2>11, <2>12, <2>13, <2>14
<1>10. CASE EsDeVarias(m, k, v, p)
  <2>1. need > 1
    BY <1>10 DEF EsDeVarias
  <2>2. PICK q \in Memoria : Poda(m, q) /\ ~Guardada(q, k) /\ p = GuardarNoAtomica(q, k, v)
    BY <1>10 DEF EsDeVarias
  <2>3. need > 0
    BY <1>5, <2>1
  <2>4. \/ p = [q EXCEPT !.resp = "COMPACTAR"]
        \/ p.fallo \in {"fuera", "superpuesta"}
        \/ \E n \in Entradas : Extendida(q, k, v, n, p)
    BY <1>4, <2>2, <2>3, NoAtomicaForma
  <2>5. p # [q EXCEPT !.resp = "COMPACTAR"]
    <3>1. "COMPACTAR" \in Respuestas /\ Buena(q, A)
      BY <2>2, PodaBuena DEF Respuestas
    <3>2. ConResp(q, "COMPACTAR").resp = "COMPACTAR"
      BY <3>1, ConRespBuena
    <3> QED BY <1>2, <3>2 DEF ConResp
  <2>6. PICK n \in Entradas : Extendida(q, k, v, n, p)
    BY <1>2, <2>4, <2>5
  <2> DEFINE hi == n + need - 1
  <2>7. n \in Nat /\ n * T \in Nat /\ n <= hi /\ hi - n = need - 1 /\ hi \in Int
    BY <1>5, <2>3, EntradaEnBloque, TablaBienFormada DEF Entradas
  <2>8. /\ hi \in Entradas /\ n..hi \subseteq Libres(q)
        /\ p.bytes = memcpy(q.bytes, n * T, v)
        /\ \A x \in Entradas : x \notin n..hi => p.tabla[x] = q.tabla[x]
        /\ \A x \in n..hi : p.tabla[x] = Registro(q, k, TamanioDeEntrada(Len(v), x - n), FALSE)
    BY <2>6 DEF Extendida
  <2> HIDE DEF hi
  <2>9. ASSUME NEW x \in n..hi
        PROVE  /\ p.tabla[x] # Libre /\ p.tabla[x].clave = k
               /\ x < hi => p.tabla[x].tam = T
               /\ x = hi => p.tabla[x].tam = Len(v) - (need - 1) * T
    <3>1. /\ x - n \in Nat /\ x - n < need /\ (x < hi => x - n + 1 < need)
          /\ (x = hi => x - n + 1 = need /\ x - n = need - 1)
      BY <1>5, <2>7
    <3> DEFINE tam == TamanioDeEntrada(Len(v), x - n)
    <3>2. /\ tam \in 1..T /\ (x < hi => tam = T)
          /\ (x = hi => tam = Len(v) - (need - 1) * T)
      BY <1>5, <3>1, TamanioDe
    <3> HIDE DEF tam
    <3>3. p.tabla[x] = Registro(q, k, tam, FALSE)
      BY <2>8 DEF tam
    <3>4. tam \in 0..T /\ q.contador \in Nat
      BY <1>5, <3>2 DEF Memoria
    <3>5. p.tabla[x] \in Registros /\ p.tabla[x].clave = k /\ p.tabla[x].tam = tam
      BY <1>4, <3>3, <3>4 DEF Registro, Registros
    <3> QED BY <3>2, <3>5, CentinelasDistintos
  <2>10. \A x \in Entradas : x \in n..hi <=> p.tabla[x] # Libre /\ p.tabla[x].clave = k
    BY <2>2, <2>8, <2>9 DEF Guardada, obtenerIndicesDeClave
  <2>11. hi \in n..hi /\ (hi - n) * T \in Int /\ (need - 1) * T \in Int
    BY <1>5, <2>7, Producto
  <2>12. (hi - n) * T + p.tabla[hi].tam = Len(v)
    <3>1. p.tabla[hi].tam = Len(v) - (need - 1) * T /\ (hi - n) * T = (need - 1) * T
      BY <2>7, <2>9, <2>11
    <3> QED BY <1>5, <2>11, <3>1
  <2>13. Len(v) <= (hi - n) * T + T
    <3>1. Len(v) <= (need - 1) * T + T
      BY <1>5, UltimoResto
    <3> QED BY <2>7, <3>1
  <2>14. \A j \in 1..Len(v) : p.bytes[n * T + j - 1] = v[j]
    <3>1. \A j \in 1..Len(v) : n * T + j - 1 \in Direcciones
      BY <1>5, <2>7, <2>8, <2>13, EnBloque
    <3> DEFINE d == n * T
    <3> HIDE DEF d
    <3>2. d \in Nat /\ Cabe(d, v) /\ p.bytes = memcpy(q.bytes, d, v)
      BY <2>7, <2>8, <3>1 DEF d, Cabe
    <3>3. Esta(p.bytes, d, v)
      BY <3>2, Copiado
    <3> QED BY <3>3 DEF d, Esta
  <2> QED BY <1>4, <1>8, <2>7, <2>8, <2>9, <2>10, <2>12, <2>14
<1>11. CASE Guardada(m, k) /\ Actualiza(m, k, v, p)
  <2>1. PICK lo \in Entradas, h \in Entradas, q \in Memoria :
          /\ Tramo(m, k, lo, h) /\ need <= h - lo + 1
          /\ Actualizada(m, k, v, lo, h, q) /\ p = ConResp(q, "EXITO_I")
    BY <1>11 DEF Actualiza
  <2>2. Buena(q, A)
    BY <2>1, ActualizarBuena
  <2>3. q.tabla = p.tabla /\ q.bytes = p.bytes
    BY <1>3, <2>1, <2>2, ConRespBuena
  <2>4. lo \in Nat /\ h \in Nat /\ h < N /\ lo <= h /\ lo * T \in Nat
    BY <2>1, EntradaEnBloque, TablaBienFormada DEF Tramo, Entradas
  <2>5. need > 0
    <3> SUFFICES ASSUME need = 0 PROVE FALSE
      BY <1>5
    <3>1. Len(v) <= need * T /\ 0 * T = 0
      BY <1>5, Requeridas
    <3> QED BY <1>5, <1>11, <3>1
  <2> DEFINE hi == lo + need - 1
  <2>6. hi \in Entradas /\ lo <= hi /\ hi <= h /\ hi - lo = need - 1 /\ hi \in Int
    <3>1. need <= h - lo + 1
      BY <2>1
    <3> HIDE DEF need
    <3> QED BY <1>5, <2>4, <2>5, <3>1 DEF Entradas
  <2> HIDE DEF hi
  <2>7. /\ q.bytes = strcpy(memset(m.bytes, lo * T, TamanioTotal(m, k)), lo * T, v)
        /\ \A x \in Entradas : x \notin lo..h => q.tabla[x] = m.tabla[x]
        /\ \A x \in lo..h :
             q.tabla[x] = IF x - lo < need
                          THEN [m.tabla[x] EXCEPT !.tam = TamanioDeEntrada(Len(v), x - lo),
                                                  !.op = m.contador]
                          ELSE Libre
    BY <2>1 DEF Actualizada
  <2>8. \A x \in Entradas : x \in lo..h <=> m.tabla[x] # Libre /\ m.tabla[x].clave = k
    BY <2>1 DEF Tramo, obtenerIndicesDeClave
  <2>9. ASSUME NEW x \in lo..hi
        PROVE  /\ q.tabla[x] # Libre /\ q.tabla[x].clave = k
               /\ x < hi => q.tabla[x].tam = T
               /\ x = hi => q.tabla[x].tam = Len(v) - (need - 1) * T
    <3>1. /\ x - lo \in Nat /\ x - lo < need /\ (x < hi => x - lo + 1 < need)
          /\ (x = hi => x - lo + 1 = need /\ x - lo = need - 1) /\ x \in lo..h /\ x \in Entradas
      BY <1>5, <2>4, <2>6 DEF Entradas
    <3> DEFINE tam == TamanioDeEntrada(Len(v), x - lo)
    <3>2. /\ tam \in 1..T /\ (x < hi => tam = T)
          /\ (x = hi => tam = Len(v) - (need - 1) * T)
      BY <1>5, <3>1, TamanioDe
    <3>3. q.tabla[x] = [m.tabla[x] EXCEPT !.tam = tam, !.op = m.contador]
      BY <2>7, <3>1
    <3> HIDE DEF tam
    <3>4. tam \in 0..T /\ m.contador \in Nat /\ m.tabla[x] \in Registros /\ m.tabla[x].clave = k
      BY <1>4, <1>5, <2>8, <3>1, <3>2 DEF Memoria
    <3>5. q.tabla[x] \in Registros /\ q.tabla[x].clave = k /\ q.tabla[x].tam = tam
      BY <3>3, <3>4 DEF Registros
    <3> QED BY <3>2, <3>5, CentinelasDistintos
  <2>10. ASSUME NEW x \in Entradas, x \notin lo..hi PROVE ~(q.tabla[x] # Libre /\ q.tabla[x].clave = k)
    <3>1. CASE x \in lo..h
      <4>1. ~(x - lo < need)
        BY <1>5, <2>4, <2>6, <2>10, <3>1
      <4> QED BY <2>7, <3>1, <4>1
    <3>2. CASE x \notin lo..h
      BY <2>7, <2>8, <3>2
    <3> QED BY <3>1, <3>2
  <2>11. \A x \in Entradas : x \in lo..hi <=> q.tabla[x] # Libre /\ q.tabla[x].clave = k
    BY <2>9, <2>10
  <2>12. hi \in lo..hi /\ (hi - lo) * T \in Int /\ (need - 1) * T \in Int
    BY <1>5, <2>4, <2>6, Producto
  <2>13. (hi - lo) * T + q.tabla[hi].tam = Len(v)
    <3>1. q.tabla[hi].tam = Len(v) - (need - 1) * T /\ (hi - lo) * T = (need - 1) * T
      BY <2>6, <2>9, <2>12
    <3> QED BY <1>5, <2>12, <3>1
  <2>14. Len(v) <= (hi - lo) * T + T
    <3>1. Len(v) <= (need - 1) * T + T
      BY <1>5, UltimoResto
    <3> QED BY <2>6, <3>1
  <2>15. \A j \in 1..Len(v) : q.bytes[lo * T + j - 1] = v[j]
    <3>1. \A j \in 1..Len(v) : lo * T + j - 1 \in Direcciones
      BY <1>5, <2>6, <2>14, EnBloque
    <3> DEFINE d == lo * T
               b == memset(m.bytes, d, TamanioTotal(m, k))
    <3> HIDE DEF b, d
    <3>2. d \in Nat /\ Cabe(d, v) /\ q.bytes = strcpy(b, d, v)
      BY <2>4, <2>7, <3>1 DEF d, b, Cabe
    <3>3. Esta(q.bytes, d, v)
      BY <3>2, Copiado
    <3> QED BY <3>3 DEF d, Esta
  <2> QED BY <1>8, <2>3, <2>6, <2>9, <2>11, <2>13, <2>15
<1> QED BY <1>1, <1>6, <1>7, <1>9, <1>10, <1>11

\* The value of a SET.
LEMMA ValorDado ==
  ASSUME NEW k \in Claves, NEW L \in Largos
  PROVE  LET v == Valor(k, L)
         IN  /\ v \in Seq(Byte) /\ Len(v) = L /\ L \in Nat /\ L > 0
             /\ \A j \in 1..Len(v) : v[j] # NUL
<1>1. L \in Nat /\ L > 0
  BY TablaBienFormada
<1>2. \A j \in 1..L : <<k, j>> \in Byte /\ <<k, j>> # NUL
  BY DEF Byte, NUL
<1>3. Valor(k, L) \in [1..L -> Byte] /\ \A j \in 1..L : Valor(k, L)[j] = <<k, j>>
  BY <1>2 DEF Valor
<1> HIDE DEF Valor
<1>4. Valor(k, L) \in Seq(Byte) /\ Len(Valor(k, L)) = L
  BY <1>1, <1>3
<1> QED BY <1>1, <1>2, <1>3, <1>4

\* What a step of SET knows: the memory m in which the value is stored, the memory p after.
SetDe(k, L, A, m, p) ==
  /\ A \in SUBSET Claves /\ k \in A /\ Buena(m, A) /\ m.fallo = "no"
  /\ m.tabla = inst.tabla /\ m.bytes = inst.bytes
  /\ p = guardarClaveValor(m, k, Valor(k, L)) /\ Buena(p, A)
  /\ inst' \in ConDesborde(p, DesbordaActualizacion(inst, k, L))

\* Every step of SET is of that form.
LEMMA SetForma ==
  ASSUME IInv, NEW k \in Claves, NEW L \in Largos, SET_(k, L)
  PROVE  \E A, m, p : SetDe(k, L, A, m, p)
<1>1. Buena(inst, asignadas) /\ asignadas \in SUBSET Claves
  BY IInvBuena DEF IInv, TypeOK
<1> DEFINE A == asignadas \cup {k}
           m == recibirSentencia(inst)
           v == Valor(k, L)
           p == guardarClaveValor(m, k, v)
<1>2. A \in SUBSET Claves /\ k \in A /\ Buena(inst, A)
  BY <1>1, MasKeys
<1>3. Buena(m, A) /\ m.fallo = inst.fallo /\ inst.fallo = "no"
  BY <1>2, RecibirBuena DEF SET_, Sigue
<1>4. m.tabla = inst.tabla /\ m.bytes = inst.bytes
  BY <1>1 DEF recibirSentencia, Buena, Memoria
<1>5. v \in Seq(Byte)
  BY ValorDado
<1>6. Buena(p, A)
  <2> HIDE DEF A, m, v
  <2> QED BY <1>2, <1>3, <1>5, GuardarBuena
<1>7. inst' \in ConDesborde(p, DesbordaActualizacion(inst, k, L))
  <2> HIDE DEF p
  <2>1. \E q \in ConDesborde(p, DesbordaActualizacion(inst, k, L)) :
          inst' \in enviarResultadoSentencia(q, "SET")
    BY DEF SET_, p
  <2> QED BY <2>1 DEF enviarResultadoSentencia
<1>8. SetDe(k, L, A, m, p)
  BY <1>2, <1>3, <1>4, <1>6, <1>7 DEF SetDe
<1> QED BY <1>8

\* One after which the process has not failed, too.
LEMMA SetSinFallo ==
  ASSUME IInv, NEW k \in Claves, NEW L \in Largos, SET_(k, L), inst'.fallo = "no"
  PROVE  \E A, m : SetDe(k, L, A, m, inst')
<1>1. PICK A, m, p : SetDe(k, L, A, m, p)
  BY SetForma
<1>2. inst' = p
  BY <1>1, DesbordeBuena DEF SetDe
<1> QED BY <1>1, <1>2

\* The table and the bytes are all that is read.
LEMMA LeeIgual ==
  ASSUME NEW m, NEW p, m.tabla = p.tabla, m.bytes = p.bytes, NEW k, NEW L
  PROVE  /\ obtenerIndicesDeClave(m, k) = obtenerIndicesDeClave(p, k)
         /\ Guardada(m, k) = Guardada(p, k) /\ Crece(m, k, L) = Crece(p, k, L)
         /\ TamanioTotal(m, k) = TamanioTotal(p, k)
         /\ Lee(m, k) = Lee(p, k)
<1>1. obtenerIndicesDeClave(m, k) = obtenerIndicesDeClave(p, k)
  BY DEF obtenerIndicesDeClave
<1>2. Guardada(m, k) = Guardada(p, k) /\ Crece(m, k, L) = Crece(p, k, L)
  BY <1>1 DEF Guardada, Crece
<1>3. TamanioTotal(m, k) = TamanioTotal(p, k)
  BY <1>1 DEF TamanioTotal
<1>4. Lee(m, k) = Lee(p, k)
  BY <1>1, <1>2, <1>3 DEF Lee, obtenerValorCompleto
<1> QED BY <1>1, <1>2, <1>3, <1>4

\* A SET that is answered EXITO_I leaves exactly its value.
THEOREM Veraz == Spec => RespuestaVeraz
<1> DEFINE A == \A k \in Claves, L \in Largos :
                  inst'.resp = "EXITO_I" /\ inst'.fallo = "no" /\ ~Crece(inst, k, L) /\ SET_(k, L)
                  => Lee(inst', k) = Valor(k, L)
<1>1. IInv /\ [Next]_vars => [A]_vars
  <2> SUFFICES ASSUME IInv, NEW k \in Claves, NEW L \in Largos,
                      inst'.resp = "EXITO_I", inst'.fallo = "no", ~Crece(inst, k, L), SET_(k, L)
               PROVE  Lee(inst', k) = Valor(k, L)
    OBVIOUS
  <2> DEFINE v == Valor(k, L)
  <2> DEFINE p == inst'
  <2>1. PICK B, m : SetDe(k, L, B, m, p)
    BY SetSinFallo
  <2>2. /\ B \in SUBSET Claves /\ k \in B /\ Buena(m, B) /\ m.fallo = "no"
        /\ m.tabla = inst.tabla /\ m.bytes = inst.bytes
        /\ p = guardarClaveValor(m, k, v) /\ inst' = p
    BY <2>1 DEF SetDe
  <2>3. v \in Seq(Byte) /\ Len(v) = L /\ Len(v) > 0
    BY ValorDado
  <2>4. ~Crece(m, k, Len(v))
    BY <2>2, <2>3, LeeIgual
  <2>5. p.fallo = "no" /\ p.resp = "EXITO_I"
    BY <2>2
  <2> HIDE DEF v
  <2>6. Guardada(p, k) /\ obtenerValorCompleto(p, k) = v
    BY <2>2, <2>3, <2>4, <2>5, GuardaValor
  <2>7. Lee(p, k) = v
    BY <2>6 DEF Lee
  <2> QED BY <2>2, <2>7 DEF v
<1> QED BY <1>1, Invariante, PTL DEF Spec, RespuestaVeraz

(***************************************************************************)
(* What a SET does to the values of the other keys.                        *)
(***************************************************************************)
\* A key keeps its entries, and its bytes but perhaps the first one.
LEMMA ValorIgual ==
  ASSUME NEW m \in Memoria, NEW p \in Memoria, NEW o, NEW lo, NEW hi, Tramo(m, o, lo, hi),
         obtenerIndicesDeClave(p, o) = lo..hi, \A x \in lo..hi : p.tabla[x] = m.tabla[x],
         \A x \in Direcciones : x > lo * T /\ x < hi * T + T => p.bytes[x] = m.bytes[x]
  PROVE  /\ Tail(Lee(p, o)) = Tail(Lee(m, o))
         /\ p.bytes[lo * T] = m.bytes[lo * T] => Lee(p, o) = Lee(m, o)
<1>1. Tramo(p, o, lo, hi)
  BY DEF Tramo
<1> DEFINE s == obtenerValorCompleto(m, o)
           z == obtenerValorCompleto(p, o)
           L == TamanioTotal(m, o)
           R == TamanioTotal(p, o)
<1>2. lo \in Nat /\ hi \in Nat /\ lo <= hi /\ T \in Nat /\ hi \in lo..hi /\ lo \in lo..hi /\ N * T \in Nat
  BY TablaBienFormada, EntradaEnBloque DEF Tramo, Entradas
<1>3. /\ s \in Seq(Byte) /\ Len(s) = L /\ L \in Nat /\ L = (hi - lo) * T + m.tabla[hi].tam
      /\ lo * T \in Nat /\ lo * T + L <= N * T /\ lo * T + L <= hi * T + T
      /\ \A j \in 1..L : s[j] = m.bytes[lo * T + j - 1]
  BY ValorEs
<1>4. /\ z \in Seq(Byte) /\ Len(z) = R /\ R = (hi - lo) * T + p.tabla[hi].tam
      /\ \A j \in 1..R : z[j] = p.bytes[lo * T + j - 1]
  BY <1>1, ValorEs
<1>5. Lee(m, o) = s /\ Lee(p, o) = z
  BY <1>2 DEF Lee, Guardada, Tramo
<1> HIDE DEF s, z, L, R
<1>6. hi * T \in Int
  BY <1>2, Producto
<1>7. R = L
  BY <1>2, <1>3, <1>4
<1>8. \A j \in 1..L : j > 1 => z[j] = s[j]
  <2> SUFFICES ASSUME NEW j \in 1..L, j > 1 PROVE z[j] = s[j]
    OBVIOUS
  <2>1. /\ lo * T + j - 1 \in Direcciones /\ lo * T + j - 1 > lo * T
        /\ lo * T + j - 1 < hi * T + T
    BY <1>2, <1>3, <1>6 DEF Direcciones
  <2>2. p.bytes[lo * T + j - 1] = m.bytes[lo * T + j - 1]
    BY <2>1
  <2> QED BY <1>3, <1>4, <1>7, <2>2
<1>9. L > 0 /\ p.bytes[lo * T] = m.bytes[lo * T] => z[1] = s[1]
  <2>1. lo * T + 1 - 1 = lo * T
    BY <1>3
  <2> QED BY <1>3, <1>4, <1>7, <2>1
<1>10. p.bytes[lo * T] = m.bytes[lo * T] => z = s
  <2> SUFFICES ASSUME p.bytes[lo * T] = m.bytes[lo * T] PROVE z = s
    OBVIOUS
  <2>1. \A j \in 1..L : z[j] = s[j]
    BY <1>3, <1>8, <1>9
  <2> QED BY <1>3, <1>4, <1>7, <2>1
<1>11. Tail(z) = Tail(s)
  <2>1. CASE L = 0
    <3>1. z = s
      BY <1>3, <1>4, <1>7, <2>1
    <3> QED BY <3>1
  <2>2. CASE L # 0
    <3>1. /\ Tail(z) \in Seq(Byte) /\ Len(Tail(z)) = L - 1
          /\ Tail(s) \in Seq(Byte) /\ Len(Tail(s)) = L - 1
          /\ \A j \in 1..(L - 1) : Tail(z)[j] = z[j + 1] /\ Tail(s)[j] = s[j + 1]
      BY <1>3, <1>4, <1>7, <2>2
    <3>2. \A j \in 1..(L - 1) : j + 1 \in 1..L /\ j + 1 > 1
      BY <1>3
    <3>3. \A j \in 1..(L - 1) : Tail(z)[j] = Tail(s)[j]
      BY <1>8, <3>1, <3>2
    <3> QED BY <3>1, <3>3
  <2> QED BY <2>1, <2>2
<1> QED BY <1>5, <1>10, <1>11

\* A multiple of T.
LEMMA Multiplo ==
  ASSUME NEW a \in Nat
  PROVE  (a * T) % T = 0
<1> DEFINE x == a * T
           c == x \div T
           r == x % T
<1>1. T \in Nat /\ T > 0 /\ x \in Nat
  BY TablaBienFormada
<1> HIDE DEF x
<1>2. c \in Int /\ r \in 0..(T - 1) /\ x = T * c + r
  BY <1>1
<1> HIDE DEF c, r
<1>3. c * T = T * c /\ c * T \in Int
  BY <1>1, <1>2
<1>4. c * T <= a * T /\ a * T < c * T + T /\ (c + 1) * T = c * T + 1 * T /\ 1 * T = T
  BY <1>1, <1>2, <1>3, Producto DEF x
<1>5. c <= a /\ a < c + 1
  BY <1>1, <1>2, <1>4, Producto
<1>6. c = a
  BY <1>2, <1>5
<1>7. r = 0
  BY <1>1, <1>2, <1>3, <1>6 DEF x
<1> QED BY <1>7 DEF r, x

\* What DanoAcotado says of the memories before and after.
Acotado(m, p, k, L, o) ==
  Guardada(m, o) /\ Guardada(p, o) /\ Lee(p, o) # Lee(m, o)
  => \/ pisa /\ obtenerIndicesDeClave(p, o) # obtenerIndicesDeClave(m, o)
     \/ /\ L % T = 0 /\ Guardada(p, k)
        /\ Max(obtenerIndicesDeClave(p, k)) + 1 = Min(obtenerIndicesDeClave(p, o))
        /\ Tail(Lee(p, o)) = Tail(Lee(m, o))

\* The ends of an interval of entries.
LEMMA Extremos ==
  ASSUME NEW lo \in Entradas, NEW hi \in Entradas, lo <= hi
  PROVE  Min(lo..hi) = lo /\ Max(lo..hi) = hi
<1> DEFINE S == lo..hi
<1>1. lo \in Int /\ hi \in Int /\ N \in Int
  BY TablaBienFormada DEF Entradas
<1>2. S \in SUBSET Entradas /\ S # {} /\ lo \in S /\ hi \in S /\ \A x \in S : lo <= x /\ x <= hi /\ x \in Int
  BY <1>1 DEF Entradas
<1> HIDE DEF S
<1>3. Min(S) \in S /\ Min(S) <= lo /\ Max(S) \in S /\ hi <= Max(S)
  BY <1>2, MinimoMaximo
<1> DEFINE i == Min(S)
           j == Max(S)
<1> HIDE DEF i, j
<1>4. i = lo /\ j = hi
  <2>1. i \in S /\ i <= lo /\ j \in S /\ hi <= j
    BY <1>3 DEF i, j
  <2>2. lo <= i /\ i \in Int /\ j <= hi /\ j \in Int
    BY <1>2, <2>1
  <2> QED BY <1>1, <2>1, <2>2
<1> QED BY <1>4 DEF S, i, j

\* Two keys do not share an entry.
LEMMA TramosAparte ==
  ASSUME NEW m \in Memoria, NEW k, NEW o, k # o,
         NEW lo, NEW h, Tramo(m, k, lo, h), NEW a, NEW b, Tramo(m, o, a, b)
  PROVE  b < lo \/ a > h
<1>1. lo \in Int /\ h \in Int /\ a \in Int /\ b \in Int /\ lo <= h /\ a <= b
  BY TablaBienFormada DEF Tramo, Entradas
<1>2. (\A x \in lo..h : m.tabla[x].clave = k) /\ (\A x \in a..b : m.tabla[x].clave = o)
  BY DEF Tramo, obtenerIndicesDeClave
<1>3. a \notin lo..h /\ lo \notin a..b
  BY <1>1, <1>2
<1> QED BY <1>1, <1>3

\* What memset() and strcpy() leave alone.
LEMMA FueraDeBorrado ==
  ASSUME NEW b, NEW d \in Nat, NEW L \in Nat, NEW x \in Direcciones, x < d \/ x >= d + L
  PROVE  memset(b, d, L)[x] = b[x]
BY DEF memset, Direcciones

\* The bytes that a copy does not reach.
LEMMA FueraDeCopia ==
  ASSUME NEW b, NEW d \in Nat, NEW v \in Seq(Byte), NEW x \in Direcciones
  PROVE  /\ x < d \/ x >= d + Len(v) => memcpy(b, d, v)[x] = b[x]
         /\ x < d \/ x > d + Len(v) => strcpy(b, d, v)[x] = b[x]
<1>1. NUL \in Byte /\ Len(v) \in Nat
  BY DEF Byte
<1>2. Len(Append(v, NUL)) = Len(v) + 1
  BY <1>1
<1> QED BY <1>1, <1>2 DEF memcpy, strcpy, Direcciones

\* The record of an entry that a key keeps.
LEMMA EntradaActualizada ==
  ASSUME NEW m \in Memoria, NEW k, NEW v \in Seq(Byte), NEW lo, NEW h, NEW p \in Memoria,
         Tramo(m, k, lo, h), Actualizada(m, k, v, lo, h, p),
         NEW x \in lo..h
  PROVE  /\ x \in Entradas /\ x - lo \in Nat
         /\ x - lo < cantidadDeEntradasRequeridasParaValor(Len(v)) =>
              p.tabla[x] # Libre /\ p.tabla[x] \in Registros /\ p.tabla[x].clave = k
         /\ ~(x - lo < cantidadDeEntradasRequeridasParaValor(Len(v))) => p.tabla[x] = Libre
<1> DEFINE need == cantidadDeEntradasRequeridasParaValor(Len(v))
           tam == TamanioDeEntrada(Len(v), x - lo)
<1>1. x \in Entradas /\ x - lo \in Nat /\ lo \in Nat
  BY TablaBienFormada DEF Tramo, Entradas
<1>2. p.tabla[x] = IF x - lo < need
                   THEN [m.tabla[x] EXCEPT !.tam = tam, !.op = m.contador]
                   ELSE Libre
  BY DEF Actualizada
<1>3. m.tabla[x] \in Registros /\ m.tabla[x].clave = k /\ m.contador \in Nat
  BY <1>1 DEF Tramo, obtenerIndicesDeClave, Memoria
<1>4. x - lo < need => tam \in 0..T
  <2> SUFFICES ASSUME x - lo < need PROVE tam \in 0..T
    OBVIOUS
  <2>1. tam \in 1..T
    BY <1>1, TamanioDe
  <2> HIDE DEF tam
  <2> QED BY <2>1, TablaBienFormada
<1> HIDE DEF need, tam
<1>5. x - lo < need => p.tabla[x] \in Registros /\ p.tabla[x].clave = k
  BY <1>2, <1>3, <1>4 DEF Registros
<1> QED BY <1>1, <1>2, <1>5, CentinelasDistintos DEF need

\* A new value in the old entries harms no other key but the one that follows.
LEMMA DanoActualiza ==
  ASSUME NEW A, NEW m, Buena(m, A), NEW k, NEW o, k # o,
         NEW v \in Seq(Byte), NEW lo, NEW h, NEW p \in Memoria, Tramo(m, k, lo, h),
         cantidadDeEntradasRequeridasParaValor(Len(v)) <= h - lo + 1, Actualizada(m, k, v, lo, h, p)
  PROVE  Acotado(m, p, k, Len(v), o)
<1> DEFINE need == cantidadDeEntradasRequeridasParaValor(Len(v))
           L == Len(v)
<1> SUFFICES ASSUME Guardada(m, o), Guardada(p, o), Lee(p, o) # Lee(m, o)
             PROVE  /\ L % T = 0 /\ Guardada(p, k)
                    /\ Max(obtenerIndicesDeClave(p, k)) + 1 = Min(obtenerIndicesDeClave(p, o))
                    /\ Tail(Lee(p, o)) = Tail(Lee(m, o))
  BY DEF Acotado
<1>1. /\ m \in Memoria /\ L \in Nat /\ need \in Nat /\ L <= need * T
      /\ need <= h - lo + 1
  BY Requeridas DEF Buena
<1>2. PICK a, b : Tramo(m, o, a, b)
  BY ClaveTramo
<1>3. /\ p.bytes = strcpy(memset(m.bytes, lo * T, TamanioTotal(m, k)), lo * T, v)
      /\ \A x \in Entradas : x \notin lo..h => p.tabla[x] = m.tabla[x]
  BY DEF Actualizada
<1> DEFINE R == TamanioTotal(m, k)
<1>4. /\ lo \in Entradas /\ h \in Entradas /\ a \in Entradas /\ b \in Entradas
      /\ lo \in Nat /\ h \in Nat /\ a \in Nat /\ b \in Nat /\ lo <= h /\ a <= b /\ T \in Nat /\ T >= 1
  BY <1>2, TablaBienFormada DEF Tramo, Entradas
<1>5. /\ lo * T \in Nat /\ h * T \in Nat /\ a * T \in Nat /\ b * T \in Nat
      /\ N * T \in Nat /\ h * T + T <= N * T /\ b * T + T <= N * T
  BY <1>4, EntradaEnBloque
<1>6. R \in Nat /\ lo * T + R <= h * T + T
  BY <1>1, ValorEs
<1>7. lo * T + L <= h * T + T
  <2> HIDE DEF L, need
  <2>1. need * T <= (h - lo + 1) * T /\ (h - lo + 1) * T = (h - lo) * T + 1 * T /\ 1 * T = T
        /\ (h - lo) * T = h * T - lo * T /\ need * T \in Int
    BY <1>1, <1>4, Producto
  <2> QED BY <1>1, <1>4, <1>5, <2>1
<1> HIDE DEF L, need, R
<1>8. b < lo \/ a > h
  BY <1>1, <1>2, TramosAparte
<1>9. \A x \in a..b : x \notin lo..h /\ x \in Entradas
  BY <1>4, <1>8, TablaBienFormada DEF Entradas
<1>10. \A x \in lo..h :
         /\ x \in Entradas /\ x - lo \in Nat
         /\ x - lo < need => p.tabla[x] # Libre /\ p.tabla[x].clave = k
         /\ ~(x - lo < need) => p.tabla[x] = Libre
  BY <1>1, EntradaActualizada DEF need
<1>11. obtenerIndicesDeClave(p, o) = a..b
  <2>1. \A x \in Entradas : x \in a..b <=> m.tabla[x] # Libre /\ m.tabla[x].clave = o
    BY <1>2 DEF Tramo, obtenerIndicesDeClave
  <2>2. \A x \in Entradas : x \in a..b <=> p.tabla[x] # Libre /\ p.tabla[x].clave = o
    BY <1>3, <1>9, <1>10, <2>1
  <2>3. \A x \in a..b : x \in Entradas
    BY <1>9
  <2> QED BY <2>2, <2>3 DEF obtenerIndicesDeClave
<1>12. \A x \in a..b : p.tabla[x] = m.tabla[x]
  BY <1>3, <1>9
\* Where the bytes of o can change.
<1>13. ASSUME NEW x \in Direcciones, x >= a * T, x < b * T + T, ~(x = lo * T + L /\ lo * T + L = h * T + T /\ a = h + 1)
       PROVE  p.bytes[x] = m.bytes[x]
  <2>1. x \in Nat
    BY DEF Direcciones
  <2>2. x < lo * T \/ (x > lo * T + L /\ x >= lo * T + R)
    <3>1. CASE b < lo
      <4>1. b * T + T <= lo * T
        BY <1>4, <3>1, Producto
      <4>2. x < b * T + T
        BY <1>13
      <4>3. x < lo * T
        BY <1>4, <1>5, <2>1, <4>1, <4>2
      <4> QED BY <4>3
    <3>2. CASE a > h
      <4>1. h * T + T <= a * T
        BY <1>4, <3>2, Producto
      <4>2. CASE a = h + 1
        <5>1. a * T = h * T + T
          <6>1. (h + 1) * T = h * T + 1 * T /\ 1 * T = T
            BY <1>4, Producto
          <6> QED BY <4>2, <6>1
        <5>2. lo * T + L <= x /\ lo * T + R <= x
          BY <1>1, <1>4, <1>5, <1>6, <1>7, <1>13, <2>1, <5>1
        <5>3. x # lo * T + L
          <6> SUFFICES ASSUME x = lo * T + L PROVE FALSE
            OBVIOUS
          <6>1. lo * T + L = h * T + T
            BY <1>1, <1>4, <1>5, <1>7, <1>13, <5>1
          <6> QED BY <1>13, <4>2, <6>1
        <5> QED BY <1>1, <1>5, <1>6, <2>1, <5>2, <5>3
      <4>3. CASE a > h + 1
        <5>1. (h + 1) * T + T <= a * T /\ (h + 1) * T = h * T + 1 * T /\ 1 * T = T
          BY <1>4, <4>3, Producto
        <5> QED BY <1>1, <1>4, <1>5, <1>6, <1>7, <1>13, <2>1, <5>1
      <4> QED BY <1>4, <3>2, <4>2, <4>3
    <3> QED BY <1>8, <3>1, <3>2
  <2> DEFINE d == lo * T
  <2> HIDE DEF d
  <2>a. d \in Nat /\ (x < d \/ x >= d + R) /\ (x < d \/ x > d + Len(v))
    BY <1>5, <2>2 DEF d, L
  <2> DEFINE c == memset(m.bytes, d, R)
  <2>3. c[x] = m.bytes[x]
    BY <1>6, <2>a, FueraDeBorrado
  <2> HIDE DEF c
  <2>4. strcpy(c, d, v)[x] = c[x]
    BY <2>a, FueraDeCopia
  <2>5. p.bytes = strcpy(c, d, v)
    BY <1>3 DEF c, d, R
  <2> QED BY <2>3, <2>4, <2>5
<1>14. \A x \in Direcciones : x > a * T /\ x < b * T + T => p.bytes[x] = m.bytes[x]
  <2> SUFFICES ASSUME NEW x \in Direcciones, x > a * T, x < b * T + T PROVE p.bytes[x] = m.bytes[x]
    OBVIOUS
  <2>1. x \in Nat
    BY DEF Direcciones
  <2>2. ~(x = lo * T + L /\ lo * T + L = h * T + T /\ a = h + 1)
    <3> SUFFICES ASSUME a = h + 1, x = h * T + T PROVE FALSE
      OBVIOUS
    <3>1. (h + 1) * T = h * T + 1 * T /\ 1 * T = T
      BY <1>4, Producto
    <3> QED BY <1>5, <2>1, <3>1
  <2> QED BY <1>5, <1>13, <2>1, <2>2
<1>15. /\ Tail(Lee(p, o)) = Tail(Lee(m, o))
       /\ p.bytes[a * T] # m.bytes[a * T]
  BY <1>1, <1>2, <1>11, <1>12, <1>14, ValorIgual
<1>16. lo * T + L = h * T + T /\ a = h + 1
  <2>1. a * T \in Direcciones /\ a * T < b * T + T /\ a * T >= a * T
    <3>1. a * T <= b * T
      BY <1>4, Producto
    <3> QED BY <1>4, <1>5, <3>1 DEF Direcciones
  <2> QED BY <1>13, <1>15, <2>1
<1>17. L = (h - lo + 1) * T /\ h - lo + 1 \in Nat
  <2>1. (h - lo + 1) * T = (h - lo) * T + 1 * T /\ 1 * T = T /\ (h - lo) * T = h * T - lo * T
    BY <1>4, Producto
  <2> QED BY <1>1, <1>4, <1>5, <1>16, <2>1
<1>18. L % T = 0
  BY <1>17, Multiplo
<1>19. need = h - lo + 1
  <2>1. (h - lo + 1) * T <= need * T
    BY <1>1, <1>17
  <2>2. h - lo + 1 <= need
    <3>1. h - lo + 1 \in Int /\ need \in Int
      BY <1>1, <1>17
    <3> DEFINE e == h - lo + 1
    <3> HIDE DEF e
    <3>2. e \in Int /\ e * T <= need * T
      BY <2>1, <3>1 DEF e
    <3>3. e <= need
      BY <3>1, <3>2, Producto
    <3> QED BY <3>3 DEF e
  <2> QED BY <1>1, <1>17, <2>2
<1>20. obtenerIndicesDeClave(p, k) = lo..h
  <2>1. \A x \in lo..h : x - lo < need
    BY <1>4, <1>19
  <2>2. \A x \in lo..h : x \in Entradas /\ p.tabla[x] # Libre /\ p.tabla[x].clave = k
    BY <1>10, <2>1
  <2>3. \A x \in Entradas : x \notin lo..h => ~(p.tabla[x] # Libre /\ p.tabla[x].clave = k)
    BY <1>3 DEF Tramo, obtenerIndicesDeClave
  <2> QED BY <2>2, <2>3 DEF obtenerIndicesDeClave
<1>21. Guardada(p, k)
  <2>1. lo \in lo..h
    BY <1>4
  <2> QED BY <1>20, <2>1 DEF Guardada
<1>22. Max(lo..h) = h /\ Min(a..b) = a
  BY <1>4, Extremos
<1> QED BY <1>11, <1>15, <1>16, <1>18, <1>20, <1>21, <1>22

\* Entries apart from each other are bytes apart from each other.
LEMMA BytesAparte ==
  ASSUME NEW a \in Entradas, NEW b \in Entradas, NEW lo \in Entradas, NEW hi \in Entradas,
         b < lo \/ a > hi, NEW x \in Direcciones, x >= a * T, x < b * T + T
  PROVE  x < lo * T \/ x >= hi * T + T
<1>1. /\ a \in Nat /\ b \in Nat /\ lo \in Nat /\ hi \in Nat /\ T \in Nat /\ x \in Nat
      /\ a * T \in Nat /\ b * T \in Nat /\ lo * T \in Nat /\ hi * T \in Nat
  BY TablaBienFormada, EntradaEnBloque DEF Entradas, Direcciones
<1>2. CASE b < lo
  <2>1. b * T + T <= lo * T
    BY <1>1, <1>2, Producto
  <2> QED BY <1>1, <2>1
<1>3. CASE a > hi
  <2>1. hi * T + T <= a * T
    BY <1>1, <1>3, Producto
  <2> QED BY <1>1, <2>1
<1> QED BY <1>2, <1>3

\* A value of one entry harms no other key.
LEMMA DanoPuesta ==
  ASSUME NEW A, NEW m, Buena(m, A), NEW k \in Claves, NEW o, k # o, NEW c \in Memoria, c.tabla = m.tabla,
         c.bytes = m.bytes, NEW v \in Seq(Byte), Len(v) <= T, NEW n \in Entradas, NEW r,
         PuestaEn(c, k, v, n, r), NEW p \in Memoria, p.tabla = r.tabla, p.bytes = r.bytes
  PROVE  Acotado(m, p, k, Len(v), o)
<1> SUFFICES ASSUME Guardada(m, o), Guardada(p, o), Lee(p, o) # Lee(m, o)
             PROVE  pisa /\ obtenerIndicesDeClave(p, o) # obtenerIndicesDeClave(m, o)
  BY DEF Acotado
<1> DEFINE need == cantidadDeEntradasRequeridasParaValor(Len(v))
<1>1. m \in Memoria /\ Len(v) \in Nat /\ need \in Nat /\ need * T < Len(v) + T /\ T \in Nat
  BY Requeridas, TablaBienFormada DEF Buena
<1>2. /\ p.bytes = memcpy(memset(m.bytes, n * T, need * T), n * T, v)
      /\ p.tabla[n].clave = k
      /\ \A x \in Entradas \ {n} : p.tabla[x] = m.tabla[x] \/ p.tabla[x] = Libre
      /\ \A x \in Entradas \ {n} :
           p.tabla[x] = m.tabla[x] \/ (m.tabla[n] # Libre /\ m.tabla[x].clave = m.tabla[n].clave)
      /\ ~pisa /\ m.tabla[n] # Libre =>
           \A x \in Entradas \ {n} : m.tabla[x] # Libre /\ m.tabla[x].clave = m.tabla[n].clave
                                     => p.tabla[x] = Libre
  <2>1. p.tabla[n] = Registro(c, k, Len(v), TRUE)
    BY DEF PuestaEn
  <2>2. p.tabla[n].clave = k
    BY <2>1 DEF Registro
  <2> QED BY <2>2 DEF PuestaEn
<1> HIDE DEF need
<1>3. CASE m.tabla[n] # Libre /\ m.tabla[n].clave = o
  <2>1. n \in obtenerIndicesDeClave(m, o) /\ n \notin obtenerIndicesDeClave(p, o)
    BY <1>2, <1>3 DEF obtenerIndicesDeClave
  <2>2. ASSUME ~pisa PROVE FALSE
    <3>1. \A x \in Entradas : ~(p.tabla[x] # Libre /\ p.tabla[x].clave = o)
      BY <1>2, <1>3, <2>2
    <3> QED BY <3>1 DEF Guardada, obtenerIndicesDeClave
  <2> QED BY <2>1, <2>2
<1>4. CASE ~(m.tabla[n] # Libre /\ m.tabla[n].clave = o)
  <2>1. \A x \in Entradas : m.tabla[x] # Libre /\ m.tabla[x].clave = o => p.tabla[x] = m.tabla[x]
    BY <1>2, <1>4
  <2>2. obtenerIndicesDeClave(p, o) = obtenerIndicesDeClave(m, o)
    BY <1>2, <1>4, <2>1 DEF obtenerIndicesDeClave
  <2>3. PICK a, b : Tramo(m, o, a, b)
    BY ClaveTramo
  <2>4. /\ a \in Entradas /\ b \in Entradas /\ obtenerIndicesDeClave(p, o) = a..b
        /\ n \notin a..b /\ \A x \in a..b : p.tabla[x] = m.tabla[x]
    BY <1>4, <2>1, <2>2, <2>3 DEF Tramo, obtenerIndicesDeClave
  <2>5. b < n \/ a > n
    BY <2>4, TablaBienFormada DEF Entradas
  <2>6. n * T \in Nat /\ a * T \in Nat /\ need * T \in Nat /\ need * T <= T
    <3>1. need < 2
      <4>1. need * T < 2 * T
        <5>1. 2 * T = T + T
          BY <1>1
        <5>2. need * T \in Int
          BY <1>1, Producto
        <5> QED BY <1>1, <5>1, <5>2
      <4> QED BY <1>1, <4>1, Producto
    <3>2. need = 0 \/ need = 1
      BY <1>1, <3>1
    <3>3. 0 * T = 0 /\ 1 * T = T
      BY <1>1
    <3> QED BY <1>1, <2>4, <3>2, <3>3, EntradaEnBloque
  <2>7. ASSUME NEW x \in Direcciones, x >= a * T, x < b * T + T PROVE p.bytes[x] = m.bytes[x]
    <3>1. x < n * T \/ x >= n * T + T
      BY <2>4, <2>5, <2>7, BytesAparte
    <3> DEFINE d == n * T
               w == need * T
               s == memset(m.bytes, d, w)
    <3> HIDE DEF s, d, w
    <3>2. d \in Nat /\ w \in Nat /\ (x < d \/ x >= d + w) /\ (x < d \/ x >= d + Len(v))
      BY <1>1, <2>6, <3>1 DEF d, w, Direcciones
    <3>3. s[x] = m.bytes[x]
      BY <3>2, FueraDeBorrado DEF s
    <3>4. memcpy(s, d, v)[x] = s[x]
      BY <3>2, FueraDeCopia
    <3> QED BY <1>2, <3>3, <3>4 DEF s, d, w
  <2>8. Lee(p, o) = Lee(m, o)
    <3>1. a * T \in Direcciones /\ a * T >= a * T /\ a * T < b * T + T
      <4>1. a <= b /\ a \in Nat /\ b \in Nat /\ T >= 1
        BY <2>3, TablaBienFormada DEF Tramo, Entradas
      <4>2. a * T <= b * T
        BY <4>1, Producto
      <4>3. b * T \in Nat /\ b * T + T <= N * T /\ N * T \in Nat
        BY <2>4, EntradaEnBloque, TablaBienFormada
      <4> QED BY <1>1, <2>6, <4>1, <4>2, <4>3 DEF Direcciones
    <3>2. p.bytes[a * T] = m.bytes[a * T]
      BY <2>7, <3>1
    <3>3. \A x \in Direcciones : x > a * T /\ x < b * T + T => p.bytes[x] = m.bytes[x]
      BY <2>6, <2>7 DEF Direcciones
    <3> QED BY <1>1, <2>3, <2>4, <3>2, <3>3, ValorIgual
  <2> QED BY <2>8
<1> QED BY <1>3, <1>4

\* Neither does GuardarAtomica.
LEMMA DanoAtomica ==
  ASSUME NEW A \in SUBSET Claves, NEW k \in A, NEW m, Buena(m, A), ~Guardada(m, k), NEW o, k # o,
         NEW v \in Seq(Byte), Len(v) <= T, GuardarAtomica(m, k, v).fallo = "no"
  PROVE  Acotado(m, GuardarAtomica(m, k, v), k, Len(v), o)
<1> DEFINE p == GuardarAtomica(m, k, v)
<1>1. PICK ac \in BOOLEAN, nu \in 0..N :
        \/ \E f \in {"fuera", "nulo"} : p = Romper(Con(m, ac, nu), f)
        \/ \E n \in Entradas, z \in Nat : p = AvanzarNumero(PonerAtomica(Con(m, ac, nu), k, v, n), z)
  BY AtomicaForma DEF Atomica, Buena
<1>2. Buena(p, A) /\ p.fallo = "no"
  BY AtomicaBuena
<1> HIDE DEF p
<1> DEFINE c == Con(m, ac, nu)
<1>3. Buena(c, A) /\ ~Guardada(c, k) /\ c.tabla = m.tabla /\ c.bytes = m.bytes
  BY ConBuena DEF Guardada, obtenerIndicesDeClave
<1> HIDE DEF c
<1>4. \A f \in {"fuera", "nulo"} : p # Romper(c, f)
  <2>1. \A f \in {"fuera", "nulo"} : f \in Fallos /\ f # "no"
    BY DEF Fallos
  <2> QED BY <1>2, <1>3, <2>1, RomperBuena
<1>5. PICK n \in Entradas, z \in Nat : p = AvanzarNumero(PonerAtomica(c, k, v, n), z)
  BY <1>1, <1>4 DEF c
<1> DEFINE r == PonerAtomica(c, k, v, n)
<1>6. Buena(r, A) /\ PuestaEn(c, k, v, n, r)
  BY <1>3, PonerBuena
<1> HIDE DEF r
<1>7. p = AvanzarNumero(r, z)
  BY <1>5 DEF r
<1>8. p.tabla = r.tabla /\ p.bytes = r.bytes /\ p \in Memoria /\ c \in Memoria
  BY <1>2, <1>3, <1>6, <1>7, AvanzarBuena DEF Buena
<1>9. k \in Claves
  OBVIOUS
<1>10. Acotado(m, p, k, Len(v), o)
  BY <1>3, <1>6, <1>8, <1>9, DanoPuesta
<1> QED BY <1>10 DEF p

\* Only when free() overwrites its key.
LEMMA PodaParcial ==
  ASSUME NEW m, NEW q, Poda(m, q), NEW o, Guardada(q, o),
         obtenerIndicesDeClave(q, o) # obtenerIndicesDeClave(m, o)
  PROVE  pisa
<1> SUFFICES ASSUME ~pisa PROVE FALSE
  OBVIOUS
<1>1. \A x \in obtenerIndicesDeClave(q, o) : x \in obtenerIndicesDeClave(m, o)
  BY DEF obtenerIndicesDeClave, Poda
<1>2. PICK y \in obtenerIndicesDeClave(m, o) : y \notin obtenerIndicesDeClave(q, o)
  BY <1>1
<1>3. PICK x : x \in obtenerIndicesDeClave(q, o)
  BY DEF Guardada
<1>4. /\ x \in Entradas /\ y \in Entradas /\ q.tabla[x] # Libre /\ m.tabla[y] # Libre
      /\ m.tabla[y].clave = m.tabla[x].clave /\ q.tabla[y] = Libre
  BY <1>1, <1>2, <1>3 DEF obtenerIndicesDeClave, Poda
<1>5. \A i, j \in Entradas :
        q.tabla[i] # Libre /\ m.tabla[j] # Libre /\ m.tabla[j].clave = m.tabla[i].clave
        => q.tabla[j] # Libre
  BY DEF Poda
<1> QED BY <1>4, <1>5

\* A key that loses an entry when others are freed, and keeps another one.
LEMMA DanoPoda ==
  ASSUME NEW A, NEW m, Buena(m, A), NEW k, NEW L, NEW o, NEW q, Poda(m, q),
         NEW p, p.tabla = q.tabla, p.bytes = m.bytes
  PROVE  Acotado(m, p, k, L, o)
<1> SUFFICES ASSUME Guardada(m, o), Guardada(p, o), Lee(p, o) # Lee(m, o)
             PROVE  pisa /\ obtenerIndicesDeClave(p, o) # obtenerIndicesDeClave(m, o)
  BY DEF Acotado
<1>1. obtenerIndicesDeClave(p, o) = obtenerIndicesDeClave(q, o) /\ Lee(p, o) = Lee(q, o)
      /\ Guardada(q, o) /\ q.bytes = m.bytes
  <2>1. q.bytes = m.bytes
    BY DEF Poda
  <2> QED BY <2>1, LeeIgual
<1>2. CASE obtenerIndicesDeClave(q, o) # obtenerIndicesDeClave(m, o)
  BY <1>1, <1>2, PodaParcial
<1>3. CASE obtenerIndicesDeClave(q, o) = obtenerIndicesDeClave(m, o)
  <2>1. PICK a, b : Tramo(m, o, a, b)
    BY ClaveTramo
  <2>2. m \in Memoria /\ q \in Memoria /\ obtenerIndicesDeClave(q, o) = a..b
    BY <1>3, <2>1 DEF Buena, Poda, Tramo
  <2>3. \A x \in a..b : q.tabla[x] = m.tabla[x]
    BY <2>2 DEF Poda, obtenerIndicesDeClave
  <2>4. Lee(q, o) = Lee(m, o)
    BY <1>1, <2>1, <2>2, <2>3, ValorIgual
  <2> QED BY <1>1, <2>4
<1> QED BY <1>2, <1>3

\* Neither does a value of several entries.
LEMMA DanoDeVarias ==
  ASSUME NEW A, NEW m, Buena(m, A), NEW k, NEW o, k # o, NEW q, Poda(m, q),
         NEW v \in Seq(Byte), NEW n, NEW p, Extendida(q, k, v, n, p)
  PROVE  Acotado(m, p, k, Len(v), o)
<1> SUFFICES ASSUME Guardada(m, o), Guardada(p, o), Lee(p, o) # Lee(m, o)
             PROVE  pisa /\ obtenerIndicesDeClave(p, o) # obtenerIndicesDeClave(m, o)
  BY DEF Acotado
<1> DEFINE need == cantidadDeEntradasRequeridasParaValor(Len(v))
           hi == n + need - 1
<1>1. /\ m \in Memoria /\ q \in Memoria /\ p \in Memoria
      /\ Len(v) \in Nat /\ need \in Nat /\ Len(v) <= need * T /\ T \in Nat
  BY Requeridas, TablaBienFormada DEF Buena, Poda, Extendida
<1>2. /\ n \in Entradas /\ hi \in Entradas /\ n..hi \subseteq Libres(q)
      /\ p.bytes = memcpy(m.bytes, n * T, v)
      /\ \A x \in Entradas : x \notin n..hi => p.tabla[x] = q.tabla[x]
      /\ \A x \in n..hi : p.tabla[x].clave = k
  <2>1. /\ n \in Entradas /\ hi \in Entradas /\ n..hi \subseteq Libres(q)
        /\ p.bytes = memcpy(m.bytes, n * T, v)
        /\ \A x \in Entradas : x \notin n..hi => p.tabla[x] = q.tabla[x]
        /\ \A x \in n..hi : p.tabla[x] = Registro(q, k, TamanioDeEntrada(Len(v), x - n), FALSE)
    BY DEF Extendida, Poda
  <2> HIDE DEF hi
  <2>2. \A x \in n..hi : p.tabla[x].clave = k
    <3>1. \A t : Registro(q, k, t, FALSE).clave = k
      BY DEF Registro
    <3> QED BY <2>1, <3>1
  <2> QED BY <2>1, <2>2
<1>3. n \in Nat /\ hi = n + need - 1 /\ hi \in Int
  BY <1>1, <1>2, TablaBienFormada DEF Entradas
<1> HIDE DEF need, hi
<1>4. \A x \in n..hi : x \in Entradas /\ q.tabla[x] = Libre
  BY <1>2 DEF Libres
<1>5. obtenerIndicesDeClave(p, o) = obtenerIndicesDeClave(q, o)
  BY <1>2, <1>4 DEF obtenerIndicesDeClave
<1>6. obtenerIndicesDeClave(q, o) # obtenerIndicesDeClave(m, o) => pisa
  <2>1. Guardada(q, o)
    BY <1>5 DEF Guardada
  <2> QED BY <2>1, PodaParcial
<1>7. ASSUME obtenerIndicesDeClave(q, o) = obtenerIndicesDeClave(m, o) PROVE FALSE
  <2>1. PICK a, b : Tramo(m, o, a, b)
    BY ClaveTramo
  <2>2. /\ a \in Entradas /\ b \in Entradas /\ a <= b /\ a \in Nat /\ b \in Nat
        /\ obtenerIndicesDeClave(p, o) = a..b
    BY <1>5, <1>7, <2>1, TablaBienFormada DEF Tramo, Entradas
  <2>3. \A x \in a..b : x \in Entradas /\ m.tabla[x] # Libre /\ q.tabla[x] # Libre /\ p.tabla[x] # Libre
    BY <1>5, <1>7, <2>2 DEF obtenerIndicesDeClave
  <2>4. \A x \in a..b : x \notin n..hi /\ p.tabla[x] = m.tabla[x]
    BY <1>2, <1>4, <2>3 DEF Poda
  <2>5. need * T \in Int /\ (n + need) * T = n * T + need * T /\ (n + need) * T = hi * T + T
        /\ n * T \in Nat /\ hi * T \in Nat /\ a * T \in Nat /\ b * T \in Nat /\ a * T <= b * T
        /\ b * T + T <= N * T /\ N * T \in Nat
    <3>1. need * T \in Int /\ (n + need) * T = n * T + need * T /\ (hi + 1) * T = hi * T + 1 * T /\ 1 * T = T
      BY <1>1, <1>3, Producto
    <3>2. n + need = hi + 1
      BY <1>1, <1>3
    <3>3. n * T \in Nat /\ hi * T \in Nat /\ a * T \in Nat /\ b * T \in Nat /\ b * T + T <= N * T /\ N * T \in Nat
      BY <1>2, <2>2, EntradaEnBloque
    <3>4. a * T <= b * T
      BY <2>2, Producto
    <3> QED BY <3>1, <3>2, <3>3, <3>4
  <2>6. n * T + Len(v) <= hi * T + T
    BY <1>1, <2>5
  <2>7. ASSUME NEW x \in Direcciones, x >= a * T, x < b * T + T PROVE p.bytes[x] = m.bytes[x]
    <3>1. n <= hi => b < n \/ a > hi
      <4>1. n <= hi => a \notin n..hi /\ n \notin a..b
        <5>1. a \in a..b /\ (n <= hi => n \in n..hi)
          BY <1>3, <2>2
        <5> QED BY <2>4, <5>1
      <4> QED BY <1>3, <2>2, <4>1
    <3>2. x < n * T \/ x >= n * T + Len(v)
      <4>1. CASE n <= hi
        <5>1. x < n * T \/ x >= hi * T + T
          BY <1>2, <2>2, <2>7, <3>1, <4>1, BytesAparte
        <5> QED BY <1>1, <2>5, <2>6, <5>1 DEF Direcciones
      <4>2. CASE hi < n
        <5>1. hi * T + T <= n * T
          BY <1>3, <4>2, Producto
        <5> QED BY <1>1, <2>5, <2>6, <5>1 DEF Direcciones
      <4> QED BY <1>3, <4>1, <4>2
    <3> DEFINE d == n * T
    <3> HIDE DEF d
    <3>3. d \in Nat /\ (x < d \/ x >= d + Len(v)) /\ p.bytes = memcpy(m.bytes, d, v)
      BY <1>2, <2>5, <3>2 DEF d
    <3>4. memcpy(m.bytes, d, v)[x] = m.bytes[x]
      BY <3>3, FueraDeCopia
    <3> QED BY <3>3, <3>4
  <2>8. a * T \in Direcciones /\ a * T >= a * T /\ a * T < b * T + T
    BY <1>1, <2>5, TablaBienFormada DEF Direcciones
  <2>9. p.bytes[a * T] = m.bytes[a * T]
    BY <2>7, <2>8
  <2>10. \A x \in Direcciones : x > a * T /\ x < b * T + T => p.bytes[x] = m.bytes[x]
    BY <2>5, <2>7 DEF Direcciones
  <2>11. Lee(p, o) = Lee(m, o)
    BY <1>1, <2>1, <2>2, <2>4, <2>9, <2>10, ValorIgual
  <2> QED BY <2>11
<1> QED BY <1>5, <1>6, <1>7

\* What a SET may do to another key.
LEMMA DanoGuarda ==
  ASSUME NEW A \in SUBSET Claves, NEW k \in A, NEW m, Buena(m, A), m.fallo = "no", NEW o, k # o,
         NEW v \in Seq(Byte), guardarClaveValor(m, k, v).fallo = "no"
  PROVE  Acotado(m, guardarClaveValor(m, k, v), k, Len(v), o)
<1> DEFINE p == guardarClaveValor(m, k, v)
<1> SUFFICES Acotado(m, p, k, Len(v), o)
  OBVIOUS
<1>1. \/ Creceria(m, k, v, p)
      \/ ~Crece(m, k, Len(v)) /\ Guardada(m, k) /\ Actualiza(m, k, v, p)
      \/ EsAtomica(m, k, v, p)
      \/ NoCabe(m, k, p)
      \/ EsDeVarias(m, k, v, p)
  BY GuardarForma
<1>2. Buena(p, A) /\ p.fallo = "no"
  BY GuardarBuena
<1> HIDE DEF p
<1>3. "EXITO_I" \in Respuestas /\ "ERROR_I" \in Respuestas /\ "COMPACTAR" \in Respuestas
  BY DEF Respuestas
<1>4. m \in Memoria /\ Len(v) \in Nat /\ k \in Claves /\ p \in Memoria
  BY <1>2 DEF Buena
\* respuestaParaCoordinador is not part of the value.
<1>5. ASSUME NEW B, NEW q, Buena(q, B), NEW t \in Respuestas, p = ConResp(q, t)
      PROVE  p.tabla = q.tabla /\ p.bytes = q.bytes /\ p.fallo = q.fallo
  BY <1>5, ConRespBuena
<1>6. ASSUME NEW q, p.tabla = q.tabla, p.bytes = q.bytes, Acotado(m, q, k, Len(v), o)
      PROVE  Acotado(m, p, k, Len(v), o)
  <2>1. \A e : /\ obtenerIndicesDeClave(p, e) = obtenerIndicesDeClave(q, e)
               /\ Guardada(p, e) = Guardada(q, e) /\ Lee(p, e) = Lee(q, e)
    BY <1>6, LeeIgual
  <2> QED BY <1>6, <2>1 DEF Acotado
<1>7. ASSUME p.tabla = m.tabla, p.bytes = m.bytes PROVE Acotado(m, p, k, Len(v), o)
  <2>1. Lee(m, o) = Lee(p, o)
    BY <1>7, LeeIgual
  <2> QED BY <2>1 DEF Acotado
<1>8. CASE Creceria(m, k, v, p)
  <2>1. p = ConResp(m, "EXITO_I")
    BY <1>8 DEF Creceria
  <2> QED BY <1>3, <1>5, <1>7, <2>1
<1>9. CASE NoCabe(m, k, p)
  <2>1. p = ConResp(m, "ERROR_I")
    BY <1>9 DEF NoCabe
  <2> QED BY <1>3, <1>5, <1>7, <2>1
<1>10. CASE Actualiza(m, k, v, p)
  <2>1. PICK lo \in Entradas, h \in Entradas, q \in Memoria :
          /\ Tramo(m, k, lo, h) /\ cantidadDeEntradasRequeridasParaValor(Len(v)) <= h - lo + 1
          /\ Actualizada(m, k, v, lo, h, q) /\ p = ConResp(q, "EXITO_I")
    BY <1>10 DEF Actualiza
  <2>2. Buena(q, A)
    BY <2>1, ActualizarBuena
  <2>3. Acotado(m, q, k, Len(v), o)
    BY <2>1, DanoActualiza
  <2>4. p.tabla = q.tabla /\ p.bytes = q.bytes
    BY <1>3, <1>5, <2>1, <2>2
  <2> QED BY <1>6, <2>3, <2>4
<1>11. CASE EsAtomica(m, k, v, p)
  <2> DEFINE q == GuardarAtomica(m, k, v)
  <2>1. ~Guardada(m, k) /\ Len(v) <= T /\ p = ConResp(q, "EXITO_I")
    BY <1>11 DEF EsAtomica
  <2>2. Buena(q, A)
    BY <2>1, AtomicaBuena
  <2>3. p.tabla = q.tabla /\ p.bytes = q.bytes /\ q.fallo = "no"
    <3> HIDE DEF q
    <3> QED BY <1>2, <1>3, <1>5, <2>1, <2>2
  <2>4. Acotado(m, q, k, Len(v), o)
    BY <2>1, <2>3, DanoAtomica
  <2> QED BY <1>6, <2>3, <2>4
<1>12. CASE EsDeVarias(m, k, v, p)
  <2> DEFINE need == cantidadDeEntradasRequeridasParaValor(Len(v))
  <2>1. PICK q \in Memoria : Poda(m, q) /\ ~Guardada(q, k) /\ p = GuardarNoAtomica(q, k, v)
    BY <1>12 DEF EsDeVarias
  <2>2. Buena(q, A) /\ need > 0
    <3>1. need > 1 /\ need \in Nat
      BY <1>12, Requeridas DEF EsDeVarias
    <3>2. Buena(q, A)
      BY <2>1, PodaBuena
    <3> QED BY <3>1, <3>2
  <2>3. \/ p = [q EXCEPT !.resp = "COMPACTAR"]
        \/ p.fallo \in {"fuera", "superpuesta"}
        \/ \E n \in Entradas : Extendida(q, k, v, n, p)
    BY <1>4, <2>1, <2>2, NoAtomicaForma
  <2>4. CASE p = [q EXCEPT !.resp = "COMPACTAR"]
    <3>1. p = ConResp(q, "COMPACTAR")
      BY <2>4 DEF ConResp
    <3>2. p.tabla = q.tabla /\ p.bytes = m.bytes
      <4>1. p.tabla = q.tabla /\ p.bytes = q.bytes
        BY <1>3, <1>5, <2>2, <3>1
      <4> QED BY <2>1, <4>1 DEF Poda
    <3> QED BY <2>1, <3>2, DanoPoda
  <2>5. CASE \E n \in Entradas : Extendida(q, k, v, n, p)
    BY <2>1, <2>5, DanoDeVarias
  <2> QED BY <1>2, <2>3, <2>4, <2>5
<1> QED BY <1>1, <1>8, <1>9, <1>10, <1>11, <1>12

\* A SET removes another key whole or leaves its value alone, but for the two exceptions.
THEOREM Acotada == Spec => DanoAcotado
<1> DEFINE A == \A k, q \in Claves, L \in Largos :
                  /\ k # q /\ inst'.fallo = "no"
                  /\ Guardada(inst, q) /\ Guardada(inst', q) /\ Lee(inst', q) # Lee(inst, q)
                  /\ SET_(k, L)
                  => \/ pisa /\ obtenerIndicesDeClave(inst', q) # obtenerIndicesDeClave(inst, q)
                     \/ /\ L % T = 0 /\ Guardada(inst', k)
                        /\ Max(obtenerIndicesDeClave(inst', k)) + 1 = Min(obtenerIndicesDeClave(inst', q))
                        /\ Tail(Lee(inst', q)) = Tail(Lee(inst, q))
<1>1. IInv /\ [Next]_vars => [A]_vars
  <2> SUFFICES ASSUME IInv, NEW k \in Claves, NEW o \in Claves, NEW L \in Largos,
                      k # o, inst'.fallo = "no", SET_(k, L)
               PROVE  Acotado(inst, inst', k, L, o)
    BY DEF Acotado
  <2> DEFINE v == Valor(k, L)
  <2> DEFINE p == inst'
  <2>1. PICK B, m : SetDe(k, L, B, m, p)
    BY SetSinFallo
  <2>2. /\ B \in SUBSET Claves /\ k \in B /\ Buena(m, B) /\ m.fallo = "no"
        /\ m.tabla = inst.tabla /\ m.bytes = inst.bytes
        /\ p = guardarClaveValor(m, k, v) /\ inst' = p
    BY <2>1 DEF SetDe
  <2>3. v \in Seq(Byte) /\ Len(v) = L
    BY ValorDado
  <2> HIDE DEF v
  <2>4. Acotado(m, p, k, L, o)
    BY <2>2, <2>3, DanoGuarda
  <2>5. \A e : /\ obtenerIndicesDeClave(inst, e) = obtenerIndicesDeClave(m, e)
               /\ Guardada(inst, e) = Guardada(m, e) /\ Lee(inst, e) = Lee(m, e)
    BY <2>2, LeeIgual
  <2>6. Acotado(inst, p, k, L, o)
    BY <2>4, <2>5 DEF Acotado
  <2> QED BY <2>2, <2>6
<1> QED BY <1>1, Invariante, PTL DEF Spec, DanoAcotado

(***************************************************************************)
(* The compaction that a SET asks for.                                     *)
(***************************************************************************)
\* With enough free entries nothing is taken away.
LEMMA LiberarNada ==
  ASSUME NEW m, NEW need, Cardinality(Libres(m)) >= need
  PROVE  Liberar(m, need) = m
<1> DEFINE E(f) == [x \in 0..N |-> IF x = 0 THEN m
                                   ELSE LET q == f[x - 1]
                                        IN  IF q.fallo # "no" \/ Cardinality(Libres(q)) >= need THEN q
                                            ELSE liberar_clave_atom(q)]
           c == CHOOSE f : f = E(f)
           f == [x \in 0..N |-> m]
<1>1. Liberar(m, need) = c[N]
  BY DEF Liberar
<1>2. N \in Nat
  BY TablaBienFormada
<1>3. \A x \in 1..N : x - 1 \in 0..N /\ x \in 0..N /\ x # 0
  BY <1>2
<1>4. f = E(f)
  <2>1. \A x \in 0..N : x # 0 => x - 1 \in 0..N
    BY <1>2
  <2> QED BY <2>1
<1>5. c = E(c)
  BY <1>4
<1> HIDE DEF c
<1>6. \A x \in 1..N : c[x - 1] = f[x - 1] => c[x] = f[x]
  <2>1. \A x \in 1..N : c[x - 1] = m => c[x] = m
    BY <1>3, <1>5
  <2> QED BY <1>3, <2>1
<1>7. c[0] = f[0] /\ c = [x \in 0..N |-> c[x]] /\ f = [x \in 0..N |-> f[x]]
  <2>1. 0 \in 0..N
    BY <1>2
  <2> QED BY <1>5, <2>1
<1>8. c = f
  <2> HIDE DEF f
  <2>1. Paralelas(c, f, N)
    BY <1>6, <1>7 DEF Paralelas
  <2> QED BY <1>2, <2>1, Unica
<1>9. N \in 0..N
  BY <1>2
<1> QED BY <1>1, <1>8, <1>9

\* After a compaction every free entry is at the end.
LEMMA CompactadaFinal ==
  ASSUME NEW m \in Memoria
  PROVE  LET p == compactarEntradas(m)
         IN  /\ p \in Memoria /\ p.fallo = m.fallo
             /\ \A k : ~Guardada(m, k) => ~Guardada(p, k)
             /\ Cardinality(Libres(p)) = Cardinality(Libres(m))
             /\ LibresAlFinal(p) = Cardinality(Libres(p))
<1> DEFINE S == Ocupadas(m)
           C == Cardinality(S)
           p == compactarEntradas(m)
<1>1. PICK f : Compactada(m, p, f)
  BY CompactarForma
<1> HIDE DEF p
<1>2. /\ \A x \in Entradas : p.tabla[x] = IF x < C THEN m.tabla[Rango(S, x)] ELSE Libre
      /\ p \in Memoria /\ p.fallo = m.fallo
  BY <1>1 DEF Compactada
<1>3. S \in SUBSET Entradas /\ \A x \in Entradas : x \in S <=> m.tabla[x] # Libre
  BY DEF Ocupadas, Libres
<1>4. N \in Nat /\ \A x \in Entradas : x \in Nat /\ x < N
  BY TablaBienFormada DEF Entradas
<1>5. C = N - Cardinality(Libres(m))
  <2> DEFINE R == Libres(m)
  <2>1. R \in SUBSET Entradas /\ S = Entradas \ R /\ S \cap R = {} /\ S \cup R = Entradas
    BY DEF Libres, Ocupadas
  <2> HIDE DEF R, S
  <2>2. IsFiniteSet(R) /\ IsFiniteSet(S) /\ Cardinality(R) \in Nat /\ Cardinality(S) \in Nat
    BY <1>3, <1>4, <2>1, Cuenta
  <2>3. Cardinality(S \cup R) = Cardinality(S) + Cardinality(R) - Cardinality(S \cap R)
    BY <2>2, FS_Union
  <2>4. Cardinality(S \cap R) = 0
    BY <2>1, FS_EmptySet
  <2>5. Cardinality(Entradas) = N
    <3>1. 0 \in Int /\ N - 1 \in Int /\ ~(0 > N - 1) /\ (N - 1) - 0 + 1 = N
      BY TablaBienFormada
    <3> QED BY <3>1, FS_Interval DEF Entradas
  <2> QED BY <1>4, <2>1, <2>2, <2>3, <2>4, <2>5 DEF R
<1> HIDE DEF S
<1>6. /\ C \in 0..N
      /\ \A i \in 0..(C - 1) : Rango(S, i) \in S
  BY <1>3, Rangos
<1> HIDE DEF C
<1>7. \A x \in Entradas : x < C => Rango(S, x) \in Entradas /\ m.tabla[Rango(S, x)] # Libre
  <2>1. \A x \in Entradas : x < C => x \in 0..(C - 1)
    BY <1>4, <1>6
  <2> QED BY <1>3, <1>6, <2>1
<1>8. Libres(p) = C..(N - 1)
  <2>1. \A x \in Entradas : p.tabla[x] = Libre <=> ~(x < C)
    BY <1>2, <1>7
  <2>2. \A x : x \in C..(N - 1) <=> x \in Entradas /\ ~(x < C)
    BY <1>4, <1>6 DEF Entradas
  <2> QED BY <2>1, <2>2 DEF Libres
<1>9. {n \in Entradas : n..(N - 1) \subseteq Libres(p)} = C..(N - 1)
  <2>1. \A n \in Entradas : n \in n..(N - 1)
    BY <1>4
  <2>2. \A n \in C..(N - 1) : n \in Entradas /\ n..(N - 1) \subseteq C..(N - 1)
    BY <1>4, <1>6 DEF Entradas
  <2> QED BY <1>8, <2>1, <2>2
<1>10. Cardinality(C..(N - 1)) = N - C
  <2>1. C \in Int /\ N - 1 \in Int /\ (N - 1) - C + 1 = N - C /\ (C > N - 1 => N - C = 0)
    BY <1>4, <1>6
  <2> QED BY <2>1, FS_Interval
<1>11. Cardinality(Libres(p)) = Cardinality(Libres(m))
  <2>1. Cardinality(Libres(m)) \in Nat
    BY CuentaTabla
  <2> QED BY <1>4, <1>5, <1>6, <1>8, <1>10, <2>1
<1>12. LibresAlFinal(p) = Cardinality(Libres(p))
  BY <1>8, <1>9 DEF LibresAlFinal
<1>13. \A k : ~Guardada(m, k) => ~Guardada(p, k)
  BY <1>2, <1>7 DEF Guardada, obtenerIndicesDeClave
<1> QED BY <1>2, <1>11, <1>12, <1>13 DEF p

\* A SET that ends in COMPACTAR left enough free entries, and not the key.
LEMMA PideCompactar ==
  ASSUME NEW A \in SUBSET Claves, NEW k \in A, NEW m, Buena(m, A), m.fallo = "no",
         NEW v \in Seq(Byte), guardarClaveValor(m, k, v).resp = "COMPACTAR"
  PROVE  LET p == guardarClaveValor(m, k, v)
             need == cantidadDeEntradasRequeridasParaValor(Len(v))
         IN  p.fallo = "no" /\ need > 1 /\ ~Guardada(p, k) /\ Cardinality(Libres(p)) >= need
<1> DEFINE p == guardarClaveValor(m, k, v)
           need == cantidadDeEntradasRequeridasParaValor(Len(v))
<1> SUFFICES p.fallo = "no" /\ need > 1 /\ ~Guardada(p, k) /\ Cardinality(Libres(p)) >= need
  OBVIOUS
<1>1. \/ Creceria(m, k, v, p)
      \/ ~Crece(m, k, Len(v)) /\ Guardada(m, k) /\ Actualiza(m, k, v, p)
      \/ EsAtomica(m, k, v, p)
      \/ NoCabe(m, k, p)
      \/ EsDeVarias(m, k, v, p)
  BY GuardarForma
<1>2. Buena(p, A) /\ p.resp = "COMPACTAR" /\ k \in Claves
  BY GuardarBuena
<1> HIDE DEF p
<1>3. "EXITO_I" \in Respuestas /\ "ERROR_I" \in Respuestas /\ "COMPACTAR" \in Respuestas
  BY DEF Respuestas
<1>4. ASSUME NEW q, Buena(q, A), p = ConResp(q, "EXITO_I") \/ p = ConResp(q, "ERROR_I") PROVE FALSE
  <2>1. ConResp(q, "EXITO_I").resp = "EXITO_I" /\ ConResp(q, "ERROR_I").resp = "ERROR_I"
    BY <1>3, <1>4, ConRespBuena
  <2> QED BY <1>2, <1>4, <2>1
<1>5. ~Creceria(m, k, v, p) /\ ~NoCabe(m, k, p)
  BY <1>4 DEF Creceria, NoCabe
<1>6. ~Actualiza(m, k, v, p)
  BY <1>4, ActualizarBuena DEF Actualiza
<1>7. ~EsAtomica(m, k, v, p)
  <2> SUFFICES ASSUME EsAtomica(m, k, v, p) PROVE FALSE
    OBVIOUS
  <2> DEFINE q == GuardarAtomica(m, k, v)
  <2>1. Buena(q, A) /\ p = ConResp(q, "EXITO_I")
    BY AtomicaBuena DEF EsAtomica
  <2> HIDE DEF q
  <2> QED BY <1>4, <2>1
<1>8. EsDeVarias(m, k, v, p)
  BY <1>1, <1>5, <1>6, <1>7
<1>9. PICK q \in Memoria : /\ Poda(m, q) /\ ~Guardada(q, k) /\ p = GuardarNoAtomica(q, k, v)
                           /\ Cardinality(Libres(q)) >= need /\ need > 1
  BY <1>8 DEF EsDeVarias
<1>10. need > 0 /\ need \in Nat
  BY <1>9, Requeridas
<1>11. p = ConResp(q, "COMPACTAR")
  <2>1. \/ p = [q EXCEPT !.resp = "COMPACTAR"]
        \/ p.resp = "EXITO_I"
        \/ \E n \in Entradas : Extendida(q, k, v, n, p)
    BY <1>2, <1>9, <1>10, NoAtomicaForma
  <2>2. \A n \in Entradas : ~Extendida(q, k, v, n, p)
    BY <1>2 DEF Extendida
  <2> QED BY <1>2, <2>1, <2>2 DEF ConResp
<1>12. p.tabla = q.tabla /\ p.fallo = "no"
  <2>1. Buena(q, A)
    BY <1>9, PodaBuena
  <2>2. q.fallo = "no"
    BY <1>9 DEF Poda
  <2> QED BY <1>3, <1>11, <2>1, <2>2, ConRespBuena
<1>13. ~Guardada(p, k) /\ Libres(p) = Libres(q)
  BY <1>9, <1>12 DEF Guardada, obtenerIndicesDeClave, Libres
<1> QED BY <1>9, <1>12, <1>13

\* The same SET after the compaction.
LEMMA YaNoCompacta ==
  ASSUME NEW m \in Memoria, m.fallo = "no", NEW k \in Claves, ~Guardada(m, k), NEW v \in Seq(Byte),
         cantidadDeEntradasRequeridasParaValor(Len(v)) > 1,
         Cardinality(Libres(m)) >= cantidadDeEntradasRequeridasParaValor(Len(v)),
         LibresAlFinal(m) = Cardinality(Libres(m))
  PROVE  guardarClaveValor(m, k, v).resp # "COMPACTAR"
<1> DEFINE need == cantidadDeEntradasRequeridasParaValor(Len(v))
           p == guardarClaveValor(m, k, v)
<1>1. need \in Nat /\ need > 1 /\ need > 0
  BY Requeridas
<1>2. Cardinality(Libres(m)) \in Nat /\ Cardinality(Atomicas(m)) \in Nat
  BY CuentaTabla
<1>3. Liberar(m, need) = m
  BY LiberarNada
<1>4. p = GuardarNoAtomica(m, k, v)
  BY <1>1, <1>2, <1>3 DEF guardarClaveValor, Crece
<1> HIDE DEF p
<1>5. \/ LibresAlFinal(m) < need
      \/ p.resp = "EXITO_I"
      \/ \E n \in Entradas : Extendida(m, k, v, n, p)
  BY <1>1, <1>4, NoAtomicaForma
<1>6. ~(LibresAlFinal(m) < need)
  BY <1>1, <1>2
<1>7. \A n \in Entradas : Extendida(m, k, v, n, p) => p.resp = "EXITO_I"
  BY DEF Extendida
<1>8. p.resp = "EXITO_I"
  BY <1>5, <1>6, <1>7
<1> QED BY <1>8 DEF p

\* The compaction that a SET asks for is the one it needs.
THEOREM Sirve == Spec => CompactacionSirve
<1> DEFINE A == \A k \in Claves, L \in Largos :
                  inst'.resp = "COMPACTAR" /\ SET_(k, L)
                  => guardarClaveValor(compactarEntradas(inst'), k, Valor(k, L)).resp # "COMPACTAR"
<1>1. IInv /\ [Next]_vars => [A]_vars
  <2> SUFFICES ASSUME IInv, NEW k \in Claves, NEW L \in Largos, inst'.resp = "COMPACTAR", SET_(k, L)
               PROVE  guardarClaveValor(compactarEntradas(inst'), k, Valor(k, L)).resp # "COMPACTAR"
    OBVIOUS
  <2> DEFINE v == Valor(k, L)
  <2>1. PICK B, m, p : SetDe(k, L, B, m, p)
    BY SetForma
  <2>2. /\ B \in SUBSET Claves /\ k \in B /\ Buena(m, B) /\ m.fallo = "no"
        /\ p = guardarClaveValor(m, k, v) /\ p \in Memoria
        /\ inst' \in ConDesborde(p, DesbordaActualizacion(inst, k, L))
        /\ m.tabla = inst.tabla /\ m.bytes = inst.bytes /\ Buena(p, B)
    BY <2>1 DEF SetDe, Buena
  <2>3. v \in Seq(Byte) /\ Len(v) = L
    BY ValorDado
  <2> HIDE DEF v
  <2>7. p.resp = "COMPACTAR"
    BY <2>2, DesbordeBuena
  <2>8. inst' = p
    <3>1. ~DesbordaActualizacion(inst, k, L)
      <4> SUFFICES ASSUME DesbordaActualizacion(inst, k, L) PROVE FALSE
        OBVIOUS
      <4>1. Guardada(m, k) /\ ~Crece(m, k, Len(v))
        BY <2>2, <2>3, LeeIgual DEF DesbordaActualizacion
      <4>2. p = ConResp(actualizarEntradasConNuevoValor(m, k, v), "EXITO_I")
        BY <2>2, <4>1 DEF guardarClaveValor, ConResp
      <4>3. actualizarEntradasConNuevoValor(m, k, v) \in Memoria
        <5> DEFINE S == obtenerIndicesDeClave(m, k)
        <5>1. Tramo(m, k, Min(S), Max(S)) /\ m \in Memoria
          BY <2>2, <4>1, ClaveTramo DEF Buena
        <5> QED BY <2>3, <5>1, ActualizarForma DEF Actualizada
      <4>4. p.resp = "EXITO_I"
        BY <4>2, <4>3 DEF ConResp, Memoria
      <4> QED BY <2>7, <4>4
    <3> QED BY <2>2, <3>1 DEF ConDesborde
  <2> DEFINE need == cantidadDeEntradasRequeridasParaValor(Len(v))
             c == compactarEntradas(p)
  <2>4. p.fallo = "no" /\ need > 1 /\ ~Guardada(p, k) /\ Cardinality(Libres(p)) >= need
    BY <2>2, <2>3, <2>7, PideCompactar
  <2>5. /\ c \in Memoria /\ c.fallo = "no" /\ ~Guardada(c, k) /\ Cardinality(Libres(c)) >= need
        /\ LibresAlFinal(c) = Cardinality(Libres(c))
    BY <2>2, <2>4, CompactadaFinal
  <2> HIDE DEF c
  <2>6. guardarClaveValor(c, k, v).resp # "COMPACTAR"
    BY <2>3, <2>4, <2>5, YaNoCompacta
  <2> QED BY <2>6, <2>8 DEF c, v
<1> QED BY <1>1, Invariante, PTL DEF Spec, CompactacionSirve

(***************************************************************************)
(* What a compaction does to the bytes.                                    *)
(***************************************************************************)
\* strcpy() ends with a NUL.
LEMMA FinalDeCopia ==
  ASSUME NEW b, NEW d \in Nat, NEW v \in Seq(Byte), d + Len(v) \in Direcciones
  PROVE  strcpy(b, d, v)[d + Len(v)] = NUL
<1> DEFINE z == Append(v, NUL)
<1>1. NUL \in Byte /\ Len(v) \in Nat
  BY DEF Byte
<1>2. Len(z) = Len(v) + 1 /\ z[Len(v) + 1] = NUL
  BY <1>1
<1>3. strcpy(b, d, v) = memcpy(b, d, z)
  BY DEF strcpy
<1> HIDE DEF z
<1>4. d + Len(v) \in d..(d + Len(z) - 1) /\ (d + Len(v)) - d + 1 = Len(v) + 1
  BY <1>1, <1>2
<1> QED BY <1>2, <1>3, <1>4 DEF memcpy

\* The move of the string s of entry n to entry i, byte by byte.
LEMMA MovidaEs ==
  ASSUME NEW b \in [Direcciones -> Byte], NEW i \in Entradas, NEW n \in Entradas,
         i * T + Largo(b, n * T) \in Direcciones
  PROVE  LET L == Largo(b, n * T)
         IN  /\ \A j \in 0..(L - 1) : Movida(b, i, n)[i * T + j] = b[n * T + j]
             /\ Movida(b, i, n)[i * T + L] = NUL
             /\ \A x \in Direcciones : x < i * T \/ x > i * T + L => Movida(b, i, n)[x] = b[x]
<1> DEFINE L == Largo(b, n * T)
           s == Bytes(b, n * T, L)
           d == i * T
<1>1. /\ s \in Seq(Byte) /\ Len(s) = L /\ L \in Nat
      /\ \A j \in 1..L : s[j] = b[n * T + j - 1]
  BY CadenaEs, LargoEs, EntradaEnBloque
<1>2. d \in Nat /\ n * T \in Nat /\ N * T \in Nat /\ d + L \in Direcciones
  BY EntradaEnBloque
<1>3. Movida(b, i, n) = strcpy(b, d, s)
  BY DEF Movida
<1> HIDE DEF L, s, d
<1>4. Cabe(d, s)
  BY <1>1, <1>2 DEF Cabe, Direcciones
<1>5. Esta(strcpy(b, d, s), d, s) /\ strcpy(b, d, s)[d + Len(s)] = NUL
  <2>1. d + Len(s) \in Direcciones
    BY <1>1, <1>2
  <2>2. Esta(strcpy(b, d, s), d, s)
    BY <1>1, <1>2, <1>4, Copiado
  <2>3. strcpy(b, d, s)[d + Len(s)] = NUL
    BY <1>1, <1>2, <2>1, FinalDeCopia
  <2> QED BY <2>2, <2>3
<1>6. \A j \in 0..(L - 1) : strcpy(b, d, s)[d + j] = b[n * T + j]
  <2> SUFFICES ASSUME NEW j \in 0..(L - 1) PROVE strcpy(b, d, s)[d + j] = b[n * T + j]
    OBVIOUS
  <2>1. j + 1 \in 1..Len(s) /\ d + (j + 1) - 1 = d + j /\ n * T + (j + 1) - 1 = n * T + j
    BY <1>1, <1>2
  <2>2. strcpy(b, d, s)[d + (j + 1) - 1] = s[j + 1] /\ s[j + 1] = b[n * T + (j + 1) - 1]
    BY <1>1, <1>5, <2>1 DEF Esta
  <2> QED BY <2>1, <2>2
<1>7. \A x \in Direcciones : x < d \/ x > d + L => strcpy(b, d, s)[x] = b[x]
  BY <1>1, <1>2, FueraDeCopia
<1> QED BY <1>1, <1>3, <1>5, <1>6, <1>7 DEF L, d

\* A string that does not move is written over itself.
LEMMA MovidaQuieta ==
  ASSUME NEW b \in [Direcciones -> Byte], NEW n \in Entradas
  PROVE  \A x \in Direcciones : x # N * T => Movida(b, n, n)[x] = b[x]
<1> DEFINE d == n * T
           L == Largo(b, d)
<1>1. /\ d \in Nat /\ L \in Nat /\ d + L \in Direcciones
      /\ b[d + L] = NUL \/ d + L = N * T
  BY EntradaEnBloque, LargoEs
<1>2. /\ \A j \in 0..(L - 1) : Movida(b, n, n)[d + j] = b[d + j]
      /\ Movida(b, n, n)[d + L] = NUL
      /\ \A x \in Direcciones : x < d \/ x > d + L => Movida(b, n, n)[x] = b[x]
  BY <1>1, MovidaEs
<1> HIDE DEF d, L
<1> SUFFICES ASSUME NEW x \in Direcciones, x # N * T PROVE Movida(b, n, n)[x] = b[x]
  OBVIOUS
<1>3. x \in Nat
  BY DEF Direcciones
<1>4. CASE x < d \/ x > d + L
  BY <1>2, <1>4
<1>5. CASE x = d + L
  BY <1>1, <1>2, <1>5
<1>6. CASE x >= d /\ x < d + L
  <2>1. x - d \in 0..(L - 1) /\ d + (x - d) = x
    BY <1>1, <1>3, <1>6
  <2> QED BY <1>2, <2>1
<1> QED BY <1>1, <1>3, <1>4, <1>5, <1>6

\* Entry n of b holds a string of tam bytes.
HayCadena(b, n, tam) ==
  /\ tam \in 0..(T - 1) /\ b[n * T + tam] = NUL
  /\ \A j \in 0..(tam - 1) : b[n * T + j] # NUL

\* strlen() of such a string.
LEMMA LargoCadena ==
  ASSUME NEW b, NEW n \in Entradas, NEW tam, HayCadena(b, n, tam)
  PROVE  Largo(b, n * T) = tam
<1> DEFINE d == n * T
           L == Largo(b, d)
<1>1. /\ d \in Direcciones /\ d \in Nat /\ d + T <= N * T /\ N * T \in Nat /\ T \in Nat
  BY EntradaEnBloque, TablaBienFormada
<1>2. /\ L \in Nat /\ d + L \in Direcciones
      /\ b[d + L] = NUL \/ d + L = N * T
      /\ \A x \in Direcciones : d <= x /\ x < d + L => b[x] # NUL
  BY <1>1, LargoEs
<1>3. /\ tam \in 0..(T - 1) /\ b[d + tam] = NUL
      /\ \A j \in 0..(tam - 1) : b[d + j] # NUL
  BY DEF HayCadena
<1> HIDE DEF d, L
<1>4. ~(L < tam)
  <2> SUFFICES ASSUME L < tam PROVE FALSE
    OBVIOUS
  <2>1. L \in 0..(tam - 1) /\ d + L # N * T
    BY <1>1, <1>2, <1>3
  <2> QED BY <1>2, <1>3, <2>1
<1>5. ~(tam < L)
  <2> SUFFICES ASSUME tam < L PROVE FALSE
    OBVIOUS
  <2>1. d + tam \in Direcciones /\ d <= d + tam /\ d + tam < d + L
    BY <1>1, <1>2, <1>3 DEF Direcciones
  <2> QED BY <1>2, <1>3, <2>1
<1>6. L = tam
  BY <1>2, <1>3, <1>4, <1>5
<1> QED BY <1>6 DEF L, d

\* It moves whole, and within an entry.
LEMMA MovidaCadena ==
  ASSUME NEW b \in [Direcciones -> Byte], NEW i \in Entradas, NEW n \in Entradas, NEW tam,
         HayCadena(b, n, tam)
  PROVE  /\ \A j \in 0..(tam - 1) : Movida(b, i, n)[i * T + j] = b[n * T + j]
         /\ \A x \in Direcciones : x < i * T \/ x >= i * T + T => Movida(b, i, n)[x] = b[x]
<1>1. Largo(b, n * T) = tam
  BY LargoCadena
<1>2. i * T \in Nat /\ i * T + T <= N * T /\ N * T \in Nat /\ T \in Nat /\ tam \in 0..(T - 1)
  BY EntradaEnBloque, TablaBienFormada DEF HayCadena
<1> DEFINE d == i * T
<1> HIDE DEF d
<1>3. d + tam \in Direcciones /\ d \in Nat
  BY <1>2 DEF d, Direcciones
<1>4. /\ \A j \in 0..(tam - 1) : Movida(b, i, n)[d + j] = b[n * T + j]
      /\ \A x \in Direcciones : x < d \/ x > d + tam => Movida(b, i, n)[x] = b[x]
  BY <1>1, <1>3, MovidaEs DEF d
<1>5. \A x \in Direcciones : x >= d + T => x > d + tam
  BY <1>2, <1>3 DEF Direcciones
<1> QED BY <1>4, <1>5 DEF d

\* The bytes of one entry are outside of any other.
LEMMA EntradaFuera ==
  ASSUME NEW x \in Entradas, NEW i \in Entradas, x # i, NEW j \in 0..(T - 1)
  PROVE  x * T + j \in Direcciones /\ (x * T + j < i * T \/ x * T + j >= i * T + T)
<1>1. /\ x \in Nat /\ i \in Nat /\ T \in Nat /\ x * T \in Nat /\ i * T \in Nat
      /\ x * T + T <= N * T /\ N * T \in Nat
  BY EntradaEnBloque, TablaBienFormada DEF Entradas
<1>2. (x < i => x * T + T <= i * T) /\ (i < x => i * T + T <= x * T)
  BY <1>1, Producto
<1>3. x < i \/ i < x
  BY <1>1
<1>4. x * T + j \in Direcciones
  BY <1>1 DEF Direcciones
<1> QED BY <1>1, <1>2, <1>3, <1>4

\* The string of entry n of m is at entry y of b; what entry n holds in b is what it held.
Llevada(m, n, b, y) == \A j \in 0..(m.tabla[n].tam - 1) : b[y * T + j] = m.bytes[n * T + j]
Quieta(m, n, b) == \A j \in 0..m.tabla[n].tam : b[n * T + j] = m.bytes[n * T + j]

\* One string moves down: those already moved and those still to move stay as they are.
LEMMA UnaMovida ==
  ASSUME NEW m \in Memoria, NEW b \in [Direcciones -> Byte], NEW i \in Entradas, NEW n \in Entradas,
         m.tabla[n] # Libre, Cadena(m, n), Quieta(m, n, b)
  PROVE  LET c == Movida(b, i, n)
         IN  /\ Llevada(m, n, c, i)
             /\ \A x, y \in Entradas :
                  y # i /\ m.tabla[x] # Libre /\ Cadena(m, x) /\ Llevada(m, x, b, y) => Llevada(m, x, c, y)
             /\ \A x \in Entradas :
                  x # i /\ m.tabla[x] # Libre /\ Cadena(m, x) /\ Quieta(m, x, b) => Quieta(m, x, c)
<1> DEFINE c == Movida(b, i, n)
           tam == m.tabla[n].tam
<1>1. \A x \in Entradas : m.tabla[x] # Libre /\ Cadena(m, x) => m.tabla[x].tam \in 0..(T - 1)
  BY TablaBienFormada DEF Cadena, Memoria, Registros
<1>2. tam \in 0..(T - 1) /\ T \in Nat
  BY <1>1, TablaBienFormada
<1>3. HayCadena(b, n, tam)
  <2>1. m.bytes[n * T + tam] = NUL /\ \A j \in 0..(tam - 1) : m.bytes[n * T + j] # NUL
    BY DEF Cadena
  <2>2. \A j \in 0..tam : b[n * T + j] = m.bytes[n * T + j]
    BY DEF Quieta
  <2> HIDE DEF tam
  <2>3. tam \in 0..tam /\ \A j \in 0..(tam - 1) : j \in 0..tam
    BY <1>2
  <2> QED BY <1>2, <2>1, <2>2, <2>3 DEF HayCadena
<1>4. /\ \A j \in 0..(tam - 1) : c[i * T + j] = b[n * T + j]
      /\ \A x \in Direcciones : x < i * T \/ x >= i * T + T => c[x] = b[x]
  <2> HIDE DEF tam
  <2> QED BY <1>3, MovidaCadena
<1> HIDE DEF c
<1>5. Llevada(m, n, c, i)
  <2>1. \A j \in 0..(tam - 1) : j \in 0..tam
    BY <1>2
  <2> QED BY <1>4, <2>1 DEF Llevada, Quieta
<1>6. \A y \in Entradas, j \in 0..(T - 1) : y # i => c[y * T + j] = b[y * T + j]
  BY <1>4, EntradaFuera
<1>7. ASSUME NEW x \in Entradas, NEW y \in Entradas, y # i, m.tabla[x] # Libre, Cadena(m, x), Llevada(m, x, b, y)
      PROVE  Llevada(m, x, c, y)
  <2>1. \A j \in 0..(m.tabla[x].tam - 1) : j \in 0..(T - 1)
    BY <1>1, <1>2, <1>7
  <2> QED BY <1>6, <1>7, <2>1 DEF Llevada
<1>8. ASSUME NEW x \in Entradas, x # i, m.tabla[x] # Libre, Cadena(m, x), Quieta(m, x, b)
      PROVE  Quieta(m, x, c)
  <2>1. \A j \in 0..m.tabla[x].tam : j \in 0..(T - 1)
    BY <1>1, <1>2, <1>8
  <2> QED BY <1>6, <1>8, <2>1 DEF Quieta
<1> QED BY <1>5, <1>7, <1>8 DEF c

\* When every entry holds a string, each string moves whole.
LEMMA CadenasLlevadas ==
  ASSUME NEW m \in Memoria, \A n \in Ocupadas(m) : Cadena(m, n),
         NEW p, NEW f, Compactada(m, p, f)
  PROVE  LET S == Ocupadas(m)
         IN  \A x \in 0..(Cardinality(S) - 1) : Llevada(m, Rango(S, x), p.bytes, x)
<1> DEFINE S == Ocupadas(m)
           C == Cardinality(S)
<1>1. /\ f \in [0..C -> [Direcciones -> Byte]] /\ f[0] = m.bytes
      /\ \A i \in 1..C : f[i] = Movida(f[i - 1], i - 1, Rango(S, i - 1))
      /\ p.bytes = f[C]
  BY DEF Compactada
<1>2. S \in SUBSET Entradas /\ \A x \in S : m.tabla[x] # Libre /\ Cadena(m, x)
  BY DEF Ocupadas, Libres
<1> HIDE DEF S
<1>3. /\ C \in 0..N /\ C \in Nat /\ N \in Nat
      /\ \A i \in 0..(C - 1) : Rango(S, i) \in S /\ i <= Rango(S, i) /\ i \in Entradas
      /\ \A i, j \in 0..(C - 1) : i < j => Rango(S, i) < Rango(S, j)
  BY <1>2, Rangos, TablaBienFormada DEF Entradas
<1> HIDE DEF C
<1>4. \A i \in 0..(C - 1) : Rango(S, i) \in Nat /\ Rango(S, i) \in Entradas
  <2>1. \A n \in Entradas : n \in Nat
    BY <1>3 DEF Entradas
  <2> QED BY <1>2, <1>3, <2>1
<1> DEFINE P == {i \in 0..C : \A x \in 0..(C - 1) :
                   /\ x < i => Llevada(m, Rango(S, x), f[i], x)
                   /\ x >= i => Quieta(m, Rango(S, x), f[i])}
<1>5. 0 \in P
  <2>1. 0 \in 0..C /\ \A x \in 0..(C - 1) : ~(x < 0)
    BY <1>3
  <2> QED BY <1>1, <2>1 DEF Quieta
<1>6. ASSUME NEW i \in 0..(C - 1), i \in P PROVE i + 1 \in P
  <2> DEFINE b == f[i]
             n == Rango(S, i)
             c == f[i + 1]
  <2>1. i + 1 \in 1..C /\ i + 1 \in 0..C /\ i \in 0..C /\ (i + 1) - 1 = i
    BY <1>3
  <2>2. b \in [Direcciones -> Byte] /\ c = Movida(b, i, n)
    BY <1>1, <2>1
  <2>3. n \in Entradas /\ i \in Entradas /\ m.tabla[n] # Libre /\ Cadena(m, n) /\ n \in Nat
    BY <1>2, <1>3, <1>4
  <2>4. i >= i
    BY <1>3
  <2>5. Quieta(m, n, b)
    BY <1>6, <2>4
  <2> HIDE DEF b, n, c
  <2>6. /\ Llevada(m, n, c, i)
        /\ \A x, y \in Entradas :
             y # i /\ m.tabla[x] # Libre /\ Cadena(m, x) /\ Llevada(m, x, b, y) => Llevada(m, x, c, y)
        /\ \A x \in Entradas :
             x # i /\ m.tabla[x] # Libre /\ Cadena(m, x) /\ Quieta(m, x, b) => Quieta(m, x, c)
    BY <2>2, <2>3, <2>5, UnaMovida
  <2>7. ASSUME NEW x \in 0..(C - 1)
        PROVE  /\ x < i + 1 => Llevada(m, Rango(S, x), c, x)
               /\ x >= i + 1 => Quieta(m, Rango(S, x), c)
    <3>1. x \in Entradas /\ Rango(S, x) \in Entradas /\ m.tabla[Rango(S, x)] # Libre /\ Cadena(m, Rango(S, x))
      BY <1>2, <1>3, <1>4
    <3>2. CASE x < i
      <4>1. Llevada(m, Rango(S, x), b, x) /\ x # i /\ ~(x >= i + 1)
        BY <1>3, <1>6, <3>2 DEF b
      <4> QED BY <2>6, <3>1, <4>1
    <3>3. CASE x = i
      <4>1. ~(x >= i + 1)
        BY <1>3, <3>3
      <4> QED BY <2>6, <3>3, <4>1 DEF n
    <3>4. CASE x > i
      <4>1. Quieta(m, Rango(S, x), b) /\ ~(x < i + 1)
        BY <1>3, <1>6, <3>4 DEF b
      <4>2. Rango(S, x) # i
        BY <1>3, <1>4, <3>4
      <4> QED BY <2>6, <3>1, <4>1, <4>2
    <3> QED BY <1>3, <3>2, <3>3, <3>4
  <2> QED BY <2>1, <2>7 DEF c
<1> HIDE DEF P
<1>7. 0..C \subseteq P
  BY <1>3, <1>5, <1>6, Induccion
<1>8. C \in P /\ C \in 0..C
  BY <1>3, <1>7
<1>9. \A x \in 0..(C - 1) : Llevada(m, Rango(S, x), f[C], x)
  BY <1>3, <1>8 DEF P
<1> QED BY <1>1, <1>9 DEF S, C

\* When no entry moves, no byte of the block changes.
LEMMA NadaSeMueve ==
  ASSUME NEW m \in Memoria, Compacta(m), NEW p, NEW f, Compactada(m, p, f)
  PROVE  /\ p.tabla = m.tabla
         /\ \A x \in Direcciones : x # N * T => p.bytes[x] = m.bytes[x]
<1> DEFINE S == Ocupadas(m)
           C == Cardinality(S)
<1>1. /\ f \in [0..C -> [Direcciones -> Byte]] /\ f[0] = m.bytes
      /\ \A i \in 1..C : f[i] = Movida(f[i - 1], i - 1, Rango(S, i - 1))
      /\ p.bytes = f[C] /\ p \in Memoria
      /\ \A x \in Entradas : p.tabla[x] = IF x < C THEN m.tabla[Rango(S, x)] ELSE Libre
  BY DEF Compactada
<1>2. /\ S \in SUBSET Entradas /\ \A x \in Entradas : x \in S <=> m.tabla[x] # Libre
      /\ \A n \in S : \A x \in 0..n : x \in S
  <2>1. \A n \in S : \A x \in 0..n : x \in Entradas
    BY TablaBienFormada DEF Ocupadas, Entradas
  <2> QED BY <2>1 DEF Ocupadas, Libres, Compacta
<1> HIDE DEF S
<1>3. N \in Nat /\ (\A x \in S : x \in Nat) /\ \A x \in Entradas : x \in Nat /\ x < N
  BY <1>2, TablaBienFormada DEF Entradas
<1>4. \A n \in S : Cardinality(Antes(S, n)) = n
  <2> TAKE n \in S
  <2>1. Antes(S, n) = 0..(n - 1)
    <3>1. \A x \in 0..(n - 1) : x \in S /\ x < n
      BY <1>2, <1>3
    <3>2. \A x \in S : x < n => x \in 0..(n - 1)
      BY <1>3
    <3> QED BY <3>1, <3>2 DEF Antes
  <2>2. 0 \in Int /\ n - 1 \in Int /\ (n - 1) - 0 + 1 = n /\ (0 > n - 1 => n = 0)
    BY <1>3
  <2>3. Cardinality(0..(n - 1)) = n
    BY <2>2, FS_Interval
  <2> QED BY <2>1, <2>3
<1>5. /\ C \in 0..N /\ C \in Nat
      /\ \A i \in 0..(C - 1) : Rango(S, i) \in S /\ i <= Rango(S, i)
      /\ \A n \in S : n \in 0..(C - 1) /\ Rango(S, n) = n
  BY <1>2, <1>3, <1>4, Rangos
<1> HIDE DEF C
<1>6. \A i \in 0..(C - 1) : i \in S /\ Rango(S, i) = i /\ i \in Entradas
  <2> TAKE i \in 0..(C - 1)
  <2>1. i \in 0..Rango(S, i)
    BY <1>3, <1>5
  <2>2. i \in S
    BY <1>2, <1>5, <2>1
  <2> QED BY <1>2, <1>5, <2>2
<1>7. p.tabla = m.tabla
  <2>1. \A x \in Entradas : x < C <=> x \in S
    BY <1>3, <1>5, <1>6
  <2>2. \A x \in Entradas : p.tabla[x] = m.tabla[x]
    BY <1>1, <1>2, <1>5, <2>1
  <2> QED BY <1>1, <2>2 DEF Memoria
<1> DEFINE P == {i \in 0..C : \A x \in Direcciones : x # N * T => f[i][x] = m.bytes[x]}
<1>8. 0 \in P
  BY <1>1, <1>5
<1>9. ASSUME NEW i \in 0..(C - 1), i \in P PROVE i + 1 \in P
  <2>1. i + 1 \in 1..C /\ i + 1 \in 0..C /\ i \in 0..C /\ (i + 1) - 1 = i
    BY <1>5
  <2>2. f[i] \in [Direcciones -> Byte] /\ f[i + 1] = Movida(f[i], i, i)
    BY <1>1, <1>6, <2>1
  <2>3. \A x \in Direcciones : x # N * T => Movida(f[i], i, i)[x] = f[i][x]
    BY <1>6, <2>2, MovidaQuieta
  <2> QED BY <1>9, <2>1, <2>2, <2>3
<1> HIDE DEF P
<1>10. 0..C \subseteq P
  BY <1>5, <1>8, <1>9, Induccion
<1>11. C \in P
  BY <1>5, <1>10
<1> QED BY <1>1, <1>7, <1>11 DEF P

\* A key of one entry, wherever that entry goes.
LEMMA ValorLlevado ==
  ASSUME NEW m \in Memoria, NEW p \in Memoria, NEW k, NEW n, NEW i, Tramo(m, k, n, n), Tramo(p, k, i, i),
         p.tabla[i] = m.tabla[n], Llevada(m, n, p.bytes, i)
  PROVE  Lee(p, k) = Lee(m, k)
<1> DEFINE s == obtenerValorCompleto(m, k)
           z == obtenerValorCompleto(p, k)
           L == TamanioTotal(m, k)
           R == TamanioTotal(p, k)
<1>1. /\ n \in Nat /\ i \in Nat /\ n - n = 0 /\ i - i = 0 /\ T \in Nat /\ 0 * T = 0
      /\ n \in n..n /\ i \in i..i /\ n * T \in Nat /\ i * T \in Nat
  BY TablaBienFormada, EntradaEnBloque DEF Tramo, Entradas
<1>2. /\ s \in Seq(Byte) /\ Len(s) = L /\ L \in Nat /\ L = (n - n) * T + m.tabla[n].tam
      /\ \A j \in 1..L : s[j] = m.bytes[n * T + j - 1]
  BY ValorEs
<1>3. /\ z \in Seq(Byte) /\ Len(z) = R /\ R \in Nat /\ R = (i - i) * T + p.tabla[i].tam
      /\ \A j \in 1..R : z[j] = p.bytes[i * T + j - 1]
  BY ValorEs
<1>4. Lee(m, k) = s /\ Lee(p, k) = z
  BY <1>1 DEF Lee, Guardada, Tramo
<1> HIDE DEF s, z, L, R
<1>5. L = m.tabla[n].tam /\ R = L
  <2>1. m.tabla[n].tam \in Nat
    <3>1. m.tabla[n].tam \in 0..T
      BY TamanioTramo
    <3> QED BY <1>1, <3>1
  <2> QED BY <1>1, <1>2, <1>3, <2>1
<1>6. \A j \in 1..L : z[j] = s[j]
  <2> TAKE j \in 1..L
  <2>1. j - 1 \in 0..(m.tabla[n].tam - 1) /\ n * T + (j - 1) = n * T + j - 1 /\ i * T + (j - 1) = i * T + j - 1
    BY <1>1, <1>2, <1>5
  <2>2. p.bytes[i * T + (j - 1)] = m.bytes[n * T + (j - 1)]
    BY <2>1 DEF Llevada
  <2> QED BY <1>2, <1>3, <1>5, <2>1, <2>2
<1>7. z = s
  BY <1>2, <1>3, <1>5, <1>6
<1> QED BY <1>4, <1>7

\* A compaction of strings alters none.
LEMMA CompactarCadenas ==
  ASSUME NEW A, NEW m, Buena(m, A), \A n \in Ocupadas(m) : Cadena(m, n), NEW k
  PROVE  Lee(compactarEntradas(m), k) = Lee(m, k)
<1> DEFINE p == compactarEntradas(m)
           S == Ocupadas(m)
           C == Cardinality(S)
<1>1. m \in Memoria
  BY DEF Buena
<1>2. PICK f : Compactada(m, p, f)
  BY <1>1, CompactarForma
<1>3. CASE ~Guardada(m, k)
  BY <1>1, <1>3, CompactadaFinal DEF Lee
<1>4. CASE Guardada(m, k)
  <2> SUFFICES Lee(p, k) = Lee(m, k)
    OBVIOUS
  <2>1. \A x \in 0..(C - 1) : Llevada(m, Rango(S, x), p.bytes, x)
    BY <1>1, <1>2, CadenasLlevadas
  <2> HIDE DEF p
  <2>2. p \in Memoria /\ \A x \in Entradas : p.tabla[x] = IF x < C THEN m.tabla[Rango(S, x)] ELSE Libre
    BY <1>2 DEF Compactada
  <2>3. S \in SUBSET Entradas /\ \A x \in Entradas : x \in S <=> m.tabla[x] # Libre
    BY DEF Ocupadas, Libres
  <2>4. PICK n, h : Tramo(m, k, n, h)
    BY <1>4, ClaveTramo
  <2>5. /\ n \in Entradas /\ h \in Entradas /\ n \in Nat /\ h \in Nat /\ n <= h /\ T \in Nat
        /\ n \in n..h
    BY <2>4, TablaBienFormada DEF Tramo, Entradas
  <2>6. n \in S
    BY <2>3, <2>4, <2>5 DEF Tramo, obtenerIndicesDeClave
  <2>7. m.tabla[n].tam < T /\ m.tabla[n].tam \in Nat
    <3>1. m.tabla[n] \in Registros
      BY <1>1, <2>3, <2>5, <2>6 DEF Memoria
    <3> QED BY <2>6, <2>5, <3>1 DEF Cadena, Registros
  <2>8. n = h
    <3>1. n < h => m.tabla[n].tam = T
      BY <2>4, <2>5 DEF Tramo
    <3> QED BY <2>5, <2>7, <3>1
  <2> HIDE DEF S
  <2> DEFINE i == Cardinality(Antes(S, n))
  <2>9. /\ C \in 0..N /\ N \in Nat /\ i \in 0..(C - 1) /\ Rango(S, i) = n
        /\ \A x \in 0..(C - 1) : Rango(S, x) \in S
        /\ \A x, y \in 0..(C - 1) : x < y => Rango(S, x) < Rango(S, y)
    BY <2>3, <2>6, Rangos, TablaBienFormada
  <2> HIDE DEF C, i
  <2>10. i \in Entradas /\ i < C /\ \A x \in Entradas : x \in Nat
    BY <2>9 DEF Entradas
  <2>11. \A x \in Entradas : p.tabla[x] # Libre /\ p.tabla[x].clave = k <=> x = i
    <3>1. \A y \in Entradas : m.tabla[y] # Libre /\ m.tabla[y].clave = k <=> y = n
      <4>1. \A y \in Entradas : y \in n..n <=> m.tabla[y] # Libre /\ m.tabla[y].clave = k
        BY <2>4, <2>8 DEF Tramo, obtenerIndicesDeClave
      <4>2. \A y \in Entradas : y \in n..n <=> y = n
        BY <2>5, <2>10
      <4> QED BY <4>1, <4>2
    <3> TAKE x \in Entradas
    <3>2. CASE ~(x < C)
      BY <2>2, <2>10, <3>2
    <3>3. CASE x < C
      <4>1. x \in 0..(C - 1) /\ Rango(S, x) \in Entradas /\ p.tabla[x] = m.tabla[Rango(S, x)]
        <5>1. x \in 0..(C - 1)
          BY <2>9, <2>10, <3>3
        <5> QED BY <2>2, <2>3, <2>9, <3>3, <5>1
      <4>2. Rango(S, x) = n <=> x = i
        <5>1. n \in Nat /\ x \in Nat /\ i \in Nat
          BY <2>5, <2>10
        <5>2. x < i \/ x = i \/ i < x
          BY <5>1
        <5>3. (x < i => Rango(S, x) < n) /\ (i < x => n < Rango(S, x))
          BY <2>9, <4>1
        <5>4. Rango(S, x) \in Nat
          BY <2>10, <4>1
        <5> QED BY <2>9, <5>1, <5>2, <5>3, <5>4
      <4> QED BY <3>1, <4>1, <4>2
    <3> QED BY <3>2, <3>3
  <2>12. Tramo(p, k, i, i)
    <3>1. \A x : x \in i..i <=> x = i
      BY <2>10
    <3>2. obtenerIndicesDeClave(p, k) = i..i
      BY <2>10, <2>11, <3>1 DEF obtenerIndicesDeClave
    <3> QED BY <2>10, <3>1, <3>2 DEF Tramo
  <2>13. p.tabla[i] = m.tabla[n] /\ Llevada(m, n, p.bytes, i)
    BY <2>1, <2>2, <2>9, <2>10
  <2> QED BY <1>1, <2>2, <2>4, <2>8, <2>12, <2>13, ValorLlevado
<1> QED BY <1>3, <1>4

\* A compaction that moves nothing alters nothing.
LEMMA CompactarCompacta ==
  ASSUME NEW A, NEW m, Buena(m, A), Compacta(m), NEW k
  PROVE  Lee(compactarEntradas(m), k) = Lee(m, k)
<1> DEFINE p == compactarEntradas(m)
<1> SUFFICES Lee(p, k) = Lee(m, k)
  OBVIOUS
<1>1. m \in Memoria
  BY DEF Buena
<1>2. PICK f : Compactada(m, p, f)
  BY <1>1, CompactarForma
<1> HIDE DEF p
<1>3. p.tabla = m.tabla /\ \A x \in Direcciones : x # N * T => p.bytes[x] = m.bytes[x]
  BY <1>1, <1>2, NadaSeMueve
<1>4. p \in Memoria /\ obtenerIndicesDeClave(p, k) = obtenerIndicesDeClave(m, k)
  BY <1>2, <1>3 DEF Compactada, obtenerIndicesDeClave
<1>5. CASE ~Guardada(m, k)
  BY <1>4, <1>5 DEF Guardada, Lee
<1>6. CASE Guardada(m, k)
  <2>1. PICK lo, hi : Tramo(m, k, lo, hi)
    BY <1>6, ClaveTramo
  <2>2. lo \in Entradas /\ hi \in Entradas /\ obtenerIndicesDeClave(p, k) = lo..hi
    BY <1>4, <2>1 DEF Tramo
  <2>3. /\ lo * T \in Nat /\ lo * T + T <= N * T /\ hi * T \in Nat /\ hi * T + T <= N * T
        /\ N * T \in Nat /\ T \in Nat /\ T >= 1 /\ lo * T \in Direcciones
    BY <2>2, EntradaEnBloque, TablaBienFormada
  <2>4. lo * T # N * T
    BY <2>3
  <2>5. \A x \in Direcciones : x < hi * T + T => x # N * T
    BY <2>3 DEF Direcciones
  <2>6. p.bytes[lo * T] = m.bytes[lo * T]
    BY <1>3, <2>3, <2>4
  <2>7. \A x \in Direcciones : x > lo * T /\ x < hi * T + T => p.bytes[x] = m.bytes[x]
    BY <1>3, <2>5
  <2> QED BY <1>1, <1>3, <1>4, <2>1, <2>2, <2>6, <2>7, ValorIgual
<1> QED BY <1>5, <1>6

\* A compaction alters no value when it moves no entry, or when every entry holds a string.
THEOREM Conserva == Spec => CompactacionConservaCadenas
<1> DEFINE A == COMPACTAR /\ (Compacta(inst) \/ \A n \in Entradas \ Libres(inst) : Cadena(inst, n))
                => \A k \in Claves : Lee(inst', k) = Lee(inst, k)
<1>1. IInv /\ [Next]_vars => [A]_vars
  <2> SUFFICES ASSUME IInv, COMPACTAR, NEW k \in Claves,
                      Compacta(inst) \/ \A n \in Entradas \ Libres(inst) : Cadena(inst, n)
               PROVE  Lee(inst', k) = Lee(inst, k)
    OBVIOUS
  <2>1. Buena(inst, asignadas)
    BY IInvBuena
  <2> DEFINE p == compactarEntradas(inst)
  <2>2. Lee(inst', k) = Lee(p, k)
    <3>1. Buena(p, asignadas)
      BY <2>1, CompactarBuena
    <3> HIDE DEF p
    <3>2. inst' \in ConDesborde(p, DesbordaCompactacion(inst))
      BY DEF COMPACTAR, enviarResultadoSentencia, p
    <3>3. inst'.tabla = p.tabla /\ inst'.bytes = p.bytes
      BY <3>1, <3>2, DesbordeBuena
    <3> QED BY <3>3, LeeIgual
  <2>3. CASE Compacta(inst)
    BY <2>1, <2>2, <2>3, CompactarCompacta
  <2>4. CASE \A n \in Entradas \ Libres(inst) : Cadena(inst, n)
    BY <2>1, <2>2, <2>4, CompactarCadenas DEF Ocupadas
  <2> QED BY <2>3, <2>4
<1> QED BY <1>1, Invariante, PTL DEF Spec, CompactacionConservaCadenas

(***************************************************************************)
(* The recovery of every file.                                             *)
(***************************************************************************)
\* Nothing has been replaced: the first z entries are taken, and numeroEntrada is z.
Ordenada(m, z) ==
  /\ m.fallo = "no" /\ ~m.activo /\ m.numero = z
  /\ \A n \in Entradas : m.tabla[n] # Libre <=> n < z

\* From m to p, the entries before z stay, with their bytes; the others are of k or free.
Agrega(m, p, k, z) ==
  /\ \A x \in Entradas : x < z => p.tabla[x] = m.tabla[x]
  /\ \A x \in Entradas : x >= z /\ p.tabla[x] # Libre => p.tabla[x].clave = k
  /\ \A x \in Direcciones : x < z * T => p.bytes[x] = m.bytes[x]

\* Such a step touches no other key.
LEMMA AgregaConserva ==
  ASSUME NEW A, NEW m, Buena(m, A), NEW p \in Memoria, NEW z \in 0..N, Ordenada(m, z),
         NEW k, Agrega(m, p, k, z), NEW o, o # k
  PROVE  /\ Guardada(p, o) <=> Guardada(m, o)
         /\ Guardada(m, o) => Lee(p, o) = Lee(m, o)
<1> DEFINE S == obtenerIndicesDeClave(m, o)
<1>1. obtenerIndicesDeClave(p, o) = S
  <2> SUFFICES ASSUME NEW x \in Entradas
               PROVE  p.tabla[x] # Libre /\ p.tabla[x].clave = o
                        <=> m.tabla[x] # Libre /\ m.tabla[x].clave = o
    BY DEF obtenerIndicesDeClave
  <2>1. x < z \/ x >= z
    BY TablaBienFormada DEF Entradas
  <2> QED BY <2>1 DEF Agrega, Ordenada
<1>2. ASSUME Guardada(m, o) PROVE Lee(p, o) = Lee(m, o)
  <2> DEFINE lo == Min(S)
             hi == Max(S)
  <2>1. Tramo(m, o, lo, hi)
    BY <1>2, ClaveTramo
  <2> HIDE DEF lo, hi
  <2>2. lo \in Entradas /\ hi \in Entradas /\ lo <= hi /\ S = lo..hi
    BY <2>1 DEF Tramo
  <2>3. lo \in Nat /\ hi \in Nat /\ z \in Nat /\ T \in Nat /\ T > 0 /\ N \in Nat
    BY <2>2, TablaBienFormada DEF Entradas
  <2>4. hi < z
    <3>1. hi \in S
      BY <2>2, <2>3
    <3> QED BY <2>2, <3>1 DEF obtenerIndicesDeClave, Ordenada
  <2>5. hi * T + T <= z * T /\ hi * T \in Int /\ z * T \in Int /\ lo * T \in Int /\ lo * T <= hi * T
    BY <2>2, <2>3, <2>4, Producto
  <2>6. \A x \in lo..hi : p.tabla[x] = m.tabla[x]
    <3>1. \A x \in lo..hi : x \in Entradas /\ x < z
      BY <2>2, <2>3, <2>4 DEF Entradas
    <3> QED BY <3>1 DEF Agrega
  <2>7. \A x \in Direcciones : x < hi * T + T => p.bytes[x] = m.bytes[x]
    <3>1. \A x \in Direcciones : x \in Int
      BY DEF Direcciones
    <3>2. \A x \in Direcciones : x < hi * T + T => x < z * T
      BY <2>3, <2>5, <3>1
    <3> QED BY <3>2 DEF Agrega
  <2>8. lo * T \in Direcciones /\ lo * T < hi * T + T
    BY <2>2, <2>3, <2>5, EntradaEnBloque
  <2>9. p.bytes[lo * T] = m.bytes[lo * T]
    BY <2>7, <2>8
  <2>10. m \in Memoria /\ obtenerIndicesDeClave(p, o) = lo..hi
    BY <1>1, <2>2 DEF Buena
  <2> QED BY <2>1, <2>6, <2>7, <2>9, <2>10, ValorIgual
<1> QED BY <1>1, <1>2 DEF Guardada

\* The first free entry of such a table, and the entries after it.
LEMMA OrdenadaFinal ==
  ASSUME NEW m \in Memoria, NEW z \in 0..N, Ordenada(m, z)
  PROVE  /\ \A n \in Entradas : m.tabla[n] = Libre <=> n >= z
         /\ Libres(m) = z..(N - 1) /\ Cardinality(Libres(m)) = N - z /\ LibresAlFinal(m) = N - z
<1>1. N \in Nat /\ z \in Nat /\ z <= N
  BY TablaBienFormada
<1>2. \A n \in Entradas : m.tabla[n] = Libre <=> n >= z
  BY <1>1 DEF Ordenada, Entradas
<1>3. Libres(m) = z..(N - 1)
  BY <1>1, <1>2 DEF Libres, Entradas
<1>4. {n \in Entradas : n..(N - 1) \subseteq Libres(m)} = z..(N - 1)
  <2>1. \A n \in Entradas : n..(N - 1) \subseteq z..(N - 1) <=> n >= z
    <3> TAKE n \in Entradas
    <3>1. n \in n..(N - 1) /\ n \in Nat
      BY <1>1 DEF Entradas
    <3> QED BY <1>1, <3>1
  <2>2. \A n \in Entradas : n..(N - 1) \subseteq Libres(m) <=> n >= z
    BY <1>3, <2>1
  <2> QED BY <1>1, <2>2 DEF Entradas
<1>5. Cardinality(z..(N - 1)) = N - z
  <2>1. N - 1 \in Int /\ z \in Int
    BY <1>1
  <2>2. Cardinality(z..(N - 1)) = IF z > N - 1 THEN 0 ELSE (N - 1) - z + 1
    BY <2>1, FS_Interval
  <2> QED BY <1>1, <2>2
<1> QED BY <1>2, <1>3, <1>4, <1>5 DEF LibresAlFinal

\* The entries that a value takes.
LEMMA OcupaEs ==
  ASSUME NEW v \in Seq(Byte)
  PROVE  LET need == cantidadDeEntradasRequeridasParaValor(Len(v))
         IN  /\ Ocupa(v) \in Nat /\ Ocupa(v) > 0 /\ need \in Nat
             /\ need <= 1 => Ocupa(v) = 1 /\ Len(v) <= T
             /\ need > 1 => Ocupa(v) = need
<1> DEFINE need == cantidadDeEntradasRequeridasParaValor(Len(v))
<1>1. /\ Len(v) \in Nat /\ T \in Nat /\ need \in Nat
      /\ Len(v) <= need * T /\ need * T < Len(v) + T
  BY Requeridas, TablaBienFormada
<1>2. Ocupa(v) = IF Len(v) = 0 THEN 1 ELSE need
  BY DEF Ocupa
<1> HIDE DEF need
<1>3. need <= 1 => need * T <= 1 * T /\ 1 * T = T
  BY <1>1, Producto
<1>4. need = 0 => need * T = 0
  BY <1>1
<1>5. need > 1 => need * T >= 1 * T + T /\ 1 * T = T
  BY <1>1, Producto
<1>6. need * T \in Int
  BY <1>1, Producto
<1>7. need <= 1 => Len(v) <= T
  BY <1>1, <1>3, <1>6
<1>8. need = 0 => Len(v) = 0
  BY <1>1, <1>4
<1>9. need > 1 => Len(v) # 0
  BY <1>1, <1>5, <1>6
<1> QED BY <1>1, <1>2, <1>7, <1>8, <1>9 DEF need

\* A value of one entry goes to the first free entry.
LEMMA AgregaAtomica ==
  ASSUME NEW A \in SUBSET Claves, NEW k \in A, NEW m, Buena(m, A), NEW z \in 0..N, Ordenada(m, z),
         ~Guardada(m, k), NEW v \in Seq(Byte), Len(v) <= T, z < N
  PROVE  LET p == GuardarAtomica(m, k, v)
         IN  p \in Memoria /\ Ordenada(p, z + 1) /\ Agrega(m, p, k, z)
<1> DEFINE a == PonerAtomica(m, k, v, z)
           p == GuardarAtomica(m, k, v)
           need == cantidadDeEntradasRequeridasParaValor(Len(v))
<1>1. z \in Entradas /\ z \in Nat /\ N \in Nat /\ T \in Nat /\ m \in Memoria /\ Len(v) \in Nat /\ need \in Nat
  BY TablaBienFormada, Requeridas DEF Entradas, Buena
<1>2. m.fallo = "no" /\ ~m.activo /\ m.numero = z /\ m.tabla[z] = Libre
  BY <1>1 DEF Ordenada
<1>3. p = AvanzarNumero(a, z + 1)
  BY <1>1, <1>2 DEF GuardarAtomica, guardarIndiceAtomicoEnTabla
<1>4. Buena(a, A) /\ PuestaEn(m, k, v, z, a)
  BY <1>1, PonerBuena
<1> HIDE DEF a
<1>5. /\ Buena(p, A) /\ p.tabla = a.tabla /\ p.bytes = a.bytes /\ p.fallo = a.fallo
      /\ p.activo = a.activo /\ p.numero = Menor(z + 1, N)
  <2> DEFINE w == AvanzarNumero(a, z + 1)
  <2>1. z + 1 \in Nat
    BY <1>1
  <2>2. /\ Buena(w, A) /\ w.tabla = a.tabla /\ w.bytes = a.bytes /\ w.fallo = a.fallo
        /\ w.activo = a.activo /\ w.numero = Menor(z + 1, N)
    BY <1>4, <2>1, AvanzarBuena
  <2>3. p = w
    BY <1>3
  <2> HIDE DEF p, w
  <2> QED BY <2>2, <2>3
<1> HIDE DEF p, need
<1>6. p.numero = z + 1 /\ p.fallo = "no" /\ ~p.activo
  BY <1>1, <1>2, <1>4, <1>5 DEF Menor, PuestaEn
<1>7. \A x \in Entradas \ {z} : p.tabla[x] = m.tabla[x]
  BY <1>2, <1>4, <1>5 DEF PuestaEn
<1>8. p.tabla[z] # Libre /\ p.tabla[z].clave = k
  <2>1. p.tabla[z] = Registro(m, k, Len(v), TRUE)
    BY <1>4, <1>5 DEF PuestaEn
  <2>2. Registro(m, k, Len(v), TRUE) \in Registros
    BY <1>1 DEF Registro, Registros, Memoria
  <2>3. Registro(m, k, Len(v), TRUE).clave = k
    BY DEF Registro
  <2> QED BY <2>1, <2>2, <2>3, CentinelasDistintos
<1>9. \A x \in Direcciones : x < z * T => p.bytes[x] = m.bytes[x]
  <2> SUFFICES ASSUME NEW x \in Direcciones, x < z * T PROVE p.bytes[x] = m.bytes[x]
    OBVIOUS
  <2>1. z * T \in Nat /\ need * T \in Nat
    BY <1>1, PorT
  <2> DEFINE b == memset(m.bytes, z * T, need * T)
  <2>2. b[x] = m.bytes[x]
    BY <2>1, FueraDeBorrado
  <2> HIDE DEF b
  <2>3. memcpy(b, z * T, v)[x] = b[x]
    BY <2>1, FueraDeCopia
  <2>4. p.bytes = memcpy(b, z * T, v)
    BY <1>4, <1>5 DEF PuestaEn, b, need
  <2> QED BY <2>2, <2>3, <2>4
<1>10. Agrega(m, p, k, z)
  BY <1>1, <1>2, <1>7, <1>8, <1>9 DEF Agrega, Ordenada, Entradas
<1>11. Ordenada(p, z + 1)
  BY <1>1, <1>6, <1>7, <1>8 DEF Ordenada, Entradas
<1> QED BY <1>5, <1>10, <1>11 DEF Buena, p

\* A value of several entries goes to the entries from the first free one on.
LEMMA AgregaNoAtomica ==
  ASSUME NEW A \in SUBSET Claves, NEW k \in A, NEW m, Buena(m, A), NEW z \in 0..N, Ordenada(m, z),
         ~Guardada(m, k), NEW v \in Seq(Byte), NEW need \in Nat,
         need = cantidadDeEntradasRequeridasParaValor(Len(v)), need > 0, z + need <= N
  PROVE  LET p == GuardarNoAtomica(m, k, v)
         IN  p.resp = "EXITO_I" /\ Ordenada(p, z + need) /\ Agrega(m, p, k, z)
<1> DEFINE p == GuardarNoAtomica(m, k, v)
           hi == z + need - 1
<1>1. z \in Entradas /\ z \in Nat /\ N \in Nat /\ T \in Nat /\ m \in Memoria /\ k \in Claves
      /\ hi \in Entradas /\ hi = z + need - 1
  BY TablaBienFormada DEF Entradas, Buena
<1>2. m.fallo = "no" /\ ~m.activo /\ m.numero = z
  BY DEF Ordenada
<1>3. Libres(m) = z..(N - 1) /\ LibresAlFinal(m) = N - z /\ \A n \in Entradas : m.tabla[n] = Libre <=> n >= z
  BY <1>1, OrdenadaFinal
<1>4. z = Desde(m)
  BY <1>1, <1>2 DEF Desde, Entradas
<1>5. z..(z + need - 1) \subseteq Entradas /\ z..(z + need - 1) \subseteq Libres(m)
      /\ need <= LibresAlFinal(m)
  BY <1>1, <1>3 DEF Entradas
<1>6. Extendida(m, k, v, z, p) /\ p.numero = Menor(z + need, N)
  <2>1. HayLugar(m, v, need, z)
    BY <1>4, <1>5 DEF HayLugar
  <2> QED BY <1>1, <2>1, NoAtomicaEn
<1> HIDE DEF p
<1>7. Coloca(m, p, k, z, hi)
  BY <1>1, <1>6, ExtendidaColoca
<1> HIDE DEF hi
<1>8. p.fallo = "no" /\ ~p.activo /\ p.resp = "EXITO_I" /\ p.bytes = memcpy(m.bytes, z * T, v)
  BY <1>2, <1>6 DEF Extendida
<1>9. p.numero = z + need
  BY <1>1, <1>6 DEF Menor
<1>10. /\ \A x \in z..hi : p.tabla[x] \in Registros /\ p.tabla[x].clave = k
       /\ \A x \in Entradas : x \notin z..hi => p.tabla[x] = m.tabla[x]
  BY <1>7 DEF Coloca
<1>11. \A x \in Entradas : x \in z..hi <=> x >= z /\ x < z + need
  BY <1>1 DEF Entradas
<1>12. \A x \in z..hi : p.tabla[x] # Libre
  BY <1>10, CentinelasDistintos
<1>13. \A x \in Entradas : x < z => p.tabla[x] = m.tabla[x] /\ m.tabla[x] # Libre
  BY <1>1, <1>3, <1>10, <1>11 DEF Entradas
<1>14. \A x \in Entradas : x >= z + need => p.tabla[x] = Libre
  BY <1>1, <1>3, <1>10, <1>11 DEF Entradas
<1>15. Ordenada(p, z + need)
  <2> SUFFICES ASSUME NEW x \in Entradas PROVE p.tabla[x] # Libre <=> x < z + need
    BY <1>8, <1>9 DEF Ordenada
  <2>1. x < z \/ x \in z..hi \/ x >= z + need
    BY <1>1, <1>11 DEF Entradas
  <2> QED BY <1>1, <1>11, <1>12, <1>13, <1>14, <2>1 DEF Entradas
<1>16. \A x \in Direcciones : x < z * T => p.bytes[x] = m.bytes[x]
  <2> SUFFICES ASSUME NEW x \in Direcciones, x < z * T PROVE p.bytes[x] = m.bytes[x]
    OBVIOUS
  <2>1. z * T \in Nat
    BY <1>1, PorT
  <2>2. memcpy(m.bytes, z * T, v)[x] = m.bytes[x]
    BY <2>1, FueraDeCopia
  <2> QED BY <1>8, <2>2
<1>17. \A x \in Entradas : x >= z /\ p.tabla[x] # Libre => p.tabla[x].clave = k
  BY <1>1, <1>10, <1>11, <1>14 DEF Entradas
<1>18. Agrega(m, p, k, z)
  BY <1>13, <1>16, <1>17 DEF Agrega
<1> QED BY <1>8, <1>15, <1>18 DEF p

\* p is m with v, which is read back.
Sumada(A, m, k, z, v, p) ==
  /\ Buena(p, A) /\ Ordenada(p, z + Ocupa(v)) /\ Agrega(m, p, k, z)
  /\ Guardada(p, k) /\ Lee(p, k) = v

\* What a value that fits adds to a table of which nothing has been replaced.
LEMMA RecuperaUna ==
  ASSUME NEW A \in SUBSET Claves, NEW k \in A, NEW m, Buena(m, A), NEW z \in 0..N, Ordenada(m, z),
         ~Guardada(m, k), NEW v \in Seq(Byte), z + Ocupa(v) <= N
  PROVE  Sumada(A, m, k, z, v, guardarClaveValor(m, k, v))
<1> DEFINE need == cantidadDeEntradasRequeridasParaValor(Len(v))
           p == guardarClaveValor(m, k, v)
<1>1. /\ Ocupa(v) \in Nat /\ Ocupa(v) > 0 /\ need \in Nat /\ N \in Nat /\ z \in Nat
      /\ need <= 1 => Ocupa(v) = 1 /\ Len(v) <= T
      /\ need > 1 => Ocupa(v) = need
  BY OcupaEs, TablaBienFormada
<1>2. m.fallo = "no" /\ m \in Memoria /\ ~Crece(m, k, Len(v))
  BY DEF Ordenada, Buena, Crece
<1>3. Buena(p, A)
  BY <1>2, GuardarBuena
<1>4. p.resp = "EXITO_I" /\ Ordenada(p, z + Ocupa(v)) /\ Agrega(m, p, k, z)
  <2>1. CASE need <= 1
    <3> DEFINE g == GuardarAtomica(m, k, v)
    <3>1. g \in Memoria /\ Ordenada(g, z + 1) /\ Agrega(m, g, k, z)
      BY <1>1, <2>1, AgregaAtomica
    <3>2. p = [g EXCEPT !.resp = "EXITO_I"]
      BY <1>2, <2>1 DEF guardarClaveValor
    <3> HIDE DEF g, p
    <3>3. /\ p.resp = "EXITO_I" /\ p.tabla = g.tabla /\ p.bytes = g.bytes /\ p.fallo = g.fallo
          /\ p.activo = g.activo /\ p.numero = g.numero
      BY <3>1, <3>2 DEF Memoria
    <3>4. Ordenada(p, z + 1)
      BY <3>1, <3>3 DEF Ordenada
    <3>5. Agrega(m, p, k, z)
      BY <3>1, <3>3 DEF Agrega
    <3> QED BY <1>1, <2>1, <3>3, <3>4, <3>5
  <2>2. CASE need > 1
    <3>1. Cardinality(Libres(m)) = N - z /\ Cardinality(Atomicas(m)) \in Nat
      BY <1>2, OrdenadaFinal, CuentaTabla
    <3>2. Cardinality(Libres(m)) >= need /\ ~(need > Cardinality(Libres(m)) + Cardinality(Atomicas(m)))
      BY <1>1, <2>2, <3>1
    <3>3. Liberar(m, need) = m
      BY <3>2, LiberarNada
    <3>4. p = GuardarNoAtomica(m, k, v)
      <4>1. ~(need <= 1)
        BY <1>1, <2>2
      <4> QED BY <1>2, <3>2, <3>3, <4>1 DEF guardarClaveValor
    <3> HIDE DEF p
    <3> QED BY <1>1, <2>2, <3>4, AgregaNoAtomica
  <2> QED BY <1>1, <2>1, <2>2
<1>5. Guardada(p, k) /\ obtenerValorCompleto(p, k) = v
  <2>1. p.fallo = "no"
    BY <1>4 DEF Ordenada
  <2> QED BY <1>2, <1>4, <2>1, GuardaValor
<1> QED BY <1>3, <1>4, <1>5 DEF Lee, Sumada

\* The entries that the file of k takes.
Carga(f, k) == IF f[k] = SinArchivo THEN 0 ELSE Ocupa(Leido(f[k]))

\* It is a number, and the file holds a string.
LEMMA CargaNat ==
  ASSUME NEW f \in Archivos, NEW k \in Claves
  PROVE  Carga(f, k) \in Nat /\ (f[k] # SinArchivo => Leido(f[k]) \in Seq(Byte))
<1>1. CASE f[k] = SinArchivo
  BY <1>1 DEF Carga
<1>2. CASE f[k] # SinArchivo
  <2>1. f[k] \in Seq(Byte)
    BY <1>2 DEF Archivos
  <2>2. Leido(f[k]) \in Seq(Byte)
    BY <2>1, LeidoEs
  <2> QED BY <1>2, <2>2, OcupaEs DEF Carga
<1> QED BY <1>1, <1>2

\* c adds up the entries of the files of orden.
SumaArchivos(orden, f, c) ==
  /\ c \in [0..Len(orden) -> Nat] /\ c[0] = 0
  /\ \A j \in 1..Len(orden) : c[j] = c[j - 1] + Carga(f, orden[j])

\* EntradasDeArchivos is the last of those sums.
LEMMA ArchivosSumados ==
  ASSUME NEW orden \in Seq(Claves), NEW f \in Archivos
  PROVE  \E c : SumaArchivos(orden, f, c) /\ EntradasDeArchivos(orden, f) = c[Len(orden)]
<1> DEFINE n == Len(orden)
           e(j) == Carga(f, orden[j])
           g == [j \in 1..n |-> [x \in Nat |-> x + e(j)]]
           E(h) == [j \in 0..n |-> IF j = 0 THEN 0
                                   ELSE h[j - 1] + (IF f[orden[j]] = SinArchivo THEN 0
                                                    ELSE Ocupa(Leido(f[orden[j]])))]
           c == CHOOSE h : h = E(h)
<1>1. EntradasDeArchivos(orden, f) = c[n]
  BY DEF EntradasDeArchivos
<1>2. n \in Nat /\ 0 \in Nat /\ \A j \in 1..n : e(j) \in Nat
  <2>1. \A j \in 1..n : orden[j] \in Claves
    OBVIOUS
  <2> QED BY <2>1, CargaNat
<1>3. Pasos(g, n, Nat) /\ \A j \in 1..n, x \in Nat : g[j][x] = x + e(j)
  <2> HIDE DEF e, n
  <2> QED BY <1>2 DEF Pasos
<1> HIDE DEF g
<1>4. PICK h : Itera(h, n, Nat, 0, g)
  <2> HIDE DEF n
  <2> QED BY <1>2, <1>3, Recursion
<1> HIDE DEF n
<1>5. h \in [0..n -> Nat] /\ h[0] = 0 /\ \A j \in 1..n : h[j] = h[j - 1] + e(j)
  <2>1. h \in [0..n -> Nat] /\ h[0] = 0 /\ \A j \in 1..n : h[j] = g[j][h[j - 1]]
    BY <1>4 DEF Itera
  <2>2. \A j \in 1..n : j - 1 \in 0..n
    BY <1>2
  <2> HIDE DEF e
  <2> QED BY <1>3, <2>1, <2>2
<1>6. h = E(h)
  <2>1. \A j \in 0..n : h[j] = IF j = 0 THEN 0 ELSE h[j - 1] + e(j)
    BY <1>2, <1>5
  <2> QED BY <1>5, <2>1 DEF Carga
<1>7. c = E(c)
  BY <1>6
<1> HIDE DEF c
<1>8. c = h
  <2>1. Paralelas(c, h, n)
    BY <1>2, <1>6, <1>7 DEF Paralelas
  <2> QED BY <1>2, <2>1, Unica
<1>9. SumaArchivos(orden, f, h)
  BY <1>5 DEF SumaArchivos, n
<1> QED BY <1>1, <1>8, <1>9 DEF n

\* What a part of the files takes is no more than what they all take.
LEMMA SumaCrece ==
  ASSUME NEW orden \in Seq(Claves), NEW f \in Archivos, NEW c, SumaArchivos(orden, f, c),
         NEW j \in 0..Len(orden)
  PROVE  c[j] <= c[Len(orden)]
<1> DEFINE n == Len(orden)
           P == {i \in 0..n : c[n - i] <= c[n]}
<1>1. n \in Nat /\ c \in [0..n -> Nat] /\ \A i \in 1..n : c[i] = c[i - 1] + Carga(f, orden[i])
  BY DEF SumaArchivos
<1>2. \A i \in 1..n : Carga(f, orden[i]) \in Nat
  <2>1. \A i \in 1..n : orden[i] \in Claves
    OBVIOUS
  <2> QED BY <2>1, CargaNat
<1> HIDE DEF n
<1>3. 0 \in P
  BY <1>1
<1>4. ASSUME NEW i \in 0..(n - 1), i \in P PROVE i + 1 \in P
  <2> DEFINE x == n - i
  <2>1. x \in 1..n /\ x - 1 \in 0..n /\ n - (i + 1) = x - 1 /\ i + 1 \in 0..n
    BY <1>1
  <2>2. c[x] <= c[n]
    BY <1>4
  <2> HIDE DEF x
  <2>3. c[x] = c[x - 1] + Carga(f, orden[x]) /\ Carga(f, orden[x]) \in Nat /\ c[x - 1] \in Nat
        /\ c[x] \in Nat /\ c[n] \in Nat
    BY <1>1, <1>2, <2>1
  <2>4. c[x - 1] <= c[n]
    BY <2>2, <2>3
  <2> QED BY <2>1, <2>4
<1> HIDE DEF P
<1>5. 0..n \subseteq P
  BY <1>1, <1>3, <1>4, Induccion
<1>6. n - j \in 0..n /\ n - (n - j) = j
  BY <1>1 DEF n
<1> QED BY <1>5, <1>6 DEF P, n

\* After the first j keys of orden: what the table has, and that it has their values.
Hecho(orden, f, c, h, j) ==
  /\ c[j] \in 0..N /\ Ordenada(h[j], c[j])
  /\ \A k : Guardada(h[j], k) => \E i \in 1..j : orden[i] = k
  /\ \A i \in 1..j : f[orden[i]] # SinArchivo =>
       Guardada(h[j], orden[i]) /\ Lee(h[j], orden[i]) = Leido(f[orden[i]])

\* It is so for one key more.
LEMMA HechoUno ==
  ASSUME NEW A \in SUBSET Claves, IsFiniteSet(A), NEW orden \in SetToSeqs(A), NEW f \in Archivos,
         NEW h, Recuperada(orden, f, A, h), NEW c, SumaArchivos(orden, f, c), c[Len(orden)] <= N,
         NEW j \in 0..(Len(orden) - 1), Hecho(orden, f, c, h, j)
  PROVE  Hecho(orden, f, c, h, j + 1)
<1> DEFINE k == orden[j + 1]
           m == h[j]
           p == h[j + 1]
           z == c[j]
<1>0. /\ orden \in Seq(A) /\ Len(orden) \in Nat
      /\ \A a, b \in 1..Len(orden) : a # b => orden[a] # orden[b]
  BY OrdenEs
<1>1. j \in Nat /\ j + 1 \in 1..Len(orden) /\ (j + 1) - 1 = j /\ j \in 0..Len(orden) /\ j + 1 \in 0..Len(orden)
  BY <1>0
<1>2. k \in A /\ k \in Claves /\ orden \in Seq(Claves) /\ \A i \in 1..j : orden[i] # k /\ i \in 1..Len(orden)
  BY <1>0, <1>1
<1>3. Buena(m, A) /\ p = recuperarClave(m, k, f)
  BY <1>1 DEF Recuperada
<1>4. c[j + 1] = z + Carga(f, k) /\ c[j + 1] \in Nat /\ c[j + 1] <= N
  <2>1. c[j + 1] = c[(j + 1) - 1] + Carga(f, orden[j + 1]) /\ c[j + 1] \in Nat /\ c[Len(orden)] \in Nat
    BY <1>0, <1>1 DEF SumaArchivos
  <2>2. c[j + 1] <= c[Len(orden)]
    BY <1>1, <1>2, SumaCrece
  <2> QED BY <1>1, <2>1, <2>2, TablaBienFormada
<1>5. /\ z \in 0..N /\ Ordenada(m, z)
      /\ \A o : Guardada(m, o) => \E i \in 1..j : orden[i] = o
      /\ \A i \in 1..j : f[orden[i]] # SinArchivo =>
           Guardada(m, orden[i]) /\ Lee(m, orden[i]) = Leido(f[orden[i]])
  BY DEF Hecho
<1>6. ~Guardada(m, k) /\ m.fallo = "no"
  BY <1>2, <1>5 DEF Ordenada
<1>7. \A i \in 1..(j + 1) : i \in 1..j \/ i = j + 1
  BY <1>1
<1>8. \A i \in 1..j : i \in 1..(j + 1)
  BY <1>1
<1>9. j + 1 \in 1..(j + 1)
  BY <1>1
<1> HIDE DEF m, p, z, k
<1>10. CASE f[k] = SinArchivo
  <2>1. p = m
    BY <1>3, <1>10 DEF recuperarClave
  <2>2. c[j + 1] = z
    BY <1>4, <1>5, <1>10 DEF Carga
  <2>3. \A o : Guardada(p, o) => \E i \in 1..(j + 1) : orden[i] = o
    BY <1>5, <1>8, <2>1
  <2>4. \A i \in 1..(j + 1) : f[orden[i]] # SinArchivo =>
          Guardada(p, orden[i]) /\ Lee(p, orden[i]) = Leido(f[orden[i]])
    BY <1>5, <1>7, <1>10, <2>1 DEF k
  <2> QED BY <1>5, <2>1, <2>2, <2>3, <2>4 DEF Hecho, p
<1>11. CASE f[k] # SinArchivo
  <2> DEFINE v == Leido(f[k])
  <2>1. p = guardarClaveValor(m, k, v)
    BY <1>3, <1>6, <1>11 DEF recuperarClave
  <2>2. v \in Seq(Byte) /\ c[j + 1] = z + Ocupa(v)
    BY <1>2, <1>4, <1>11, CargaNat DEF Carga
  <2> HIDE DEF v
  <2>3. /\ Buena(p, A) /\ Ordenada(p, z + Ocupa(v)) /\ Agrega(m, p, k, z)
        /\ Guardada(p, k) /\ Lee(p, k) = v
    <3>1. z + Ocupa(v) <= N
      BY <1>4, <2>2
    <3>2. Ordenada(m, z) /\ z \in 0..N /\ ~Guardada(m, k) /\ Buena(m, A)
      BY <1>3, <1>5, <1>6
    <3>3. Sumada(A, m, k, z, v, p)
      BY <1>2, <2>1, <2>2, <3>1, <3>2, RecuperaUna
    <3> QED BY <3>3 DEF Sumada
  <2>4. p \in Memoria
    BY <2>3 DEF Buena
  <2>5. \A o : o # k => /\ Guardada(p, o) <=> Guardada(m, o)
                        /\ Guardada(m, o) => Lee(p, o) = Lee(m, o)
    BY <1>3, <1>5, <2>3, <2>4, AgregaConserva
  <2>6. \A o : Guardada(p, o) => \E i \in 1..(j + 1) : orden[i] = o
    BY <1>5, <1>8, <1>9, <2>5 DEF k
  <2>7. \A i \in 1..(j + 1) : f[orden[i]] # SinArchivo =>
          Guardada(p, orden[i]) /\ Lee(p, orden[i]) = Leido(f[orden[i]])
    BY <1>2, <1>5, <1>7, <2>3, <2>5 DEF k, v
  <2>8. c[j + 1] \in 0..N
    BY <1>4, TablaBienFormada
  <2> QED BY <2>2, <2>3, <2>6, <2>7, <2>8 DEF Hecho, p
<1> QED BY <1>10, <1>11

\* So it is for all of them.
LEMMA HechoTodo ==
  ASSUME NEW A \in SUBSET Claves, IsFiniteSet(A), NEW orden \in SetToSeqs(A), NEW f \in Archivos,
         NEW h, Recuperada(orden, f, A, h), NEW c, SumaArchivos(orden, f, c), c[Len(orden)] <= N
  PROVE  Hecho(orden, f, c, h, Len(orden))
<1> DEFINE n == Len(orden)
           P == {j \in 0..n : Hecho(orden, f, c, h, j)}
<1>1. n \in Nat
  BY OrdenEs
<1>2. 0 \in P
  <2>1. h[0] = MemoriaInicial /\ c[0] = 0
    BY DEF Recuperada, SumaArchivos
  <2>2. Ordenada(MemoriaInicial, 0)
    BY TablaBienFormada DEF MemoriaInicial, Ordenada, Entradas
  <2>3. \A k : ~Guardada(MemoriaInicial, k)
    BY DEF MemoriaInicial, Guardada, obtenerIndicesDeClave
  <2>4. Hecho(orden, f, c, h, 0)
    BY <2>1, <2>2, <2>3, TablaBienFormada DEF Hecho
  <2> QED BY <1>1, <2>4
<1>3. ASSUME NEW j \in 0..(n - 1), j \in P PROVE j + 1 \in P
  <2>1. Hecho(orden, f, c, h, j)
    BY <1>3
  <2>2. Hecho(orden, f, c, h, j + 1)
    BY <2>1, HechoUno
  <2> QED BY <1>1, <2>2
<1> HIDE DEF P
<1>4. 0..n \subseteq P
  BY <1>1, <1>2, <1>3, Induccion
<1>5. n \in P
  BY <1>1, <1>4
<1> QED BY <1>5 DEF P

\* Every key of the Coordinador has its place in orden.
LEMMA OrdenTodas ==
  ASSUME NEW A, IsFiniteSet(A), NEW orden \in SetToSeqs(A), NEW k \in A
  PROVE  \E i \in 1..Len(orden) : orden[i] = k
<1> DEFINE D == 1..Cardinality(A)
<1>1. Cardinality(A) \in Nat
  BY FS_CardinalityType
<1>2. orden \in [D -> A] /\ \A i, j \in D : i # j => orden[i] # orden[j]
  BY DEF SetToSeqs
<1>3. IsFiniteSet(D) /\ Cardinality(D) = Cardinality(A)
  <2>1. 1 \in Int /\ Cardinality(A) \in Int
    BY <1>1
  <2>2. IsFiniteSet(D) /\ Cardinality(D) = IF 1 > Cardinality(A) THEN 0 ELSE Cardinality(A) - 1 + 1
    BY <2>1, FS_Interval
  <2> QED BY <1>1, <2>2
<1> HIDE DEF D
<1>4. orden \in Injection(D, A)
  BY <1>2 DEF Injection, IsInjective
<1>5. orden \in Surjection(D, A)
  BY <1>3, <1>4, FS_Injection
<1>6. PICK i \in D : orden[i] = k
  BY <1>5 DEF Surjection
<1> QED BY <1>6, OrdenEs DEF D

\* A restart brings back every file when they all fit, up to the bytes that are read of it.
THEOREM Recupera == Spec => RecuperaLoGuardado
<1> DEFINE W(k) == LET v == HastaNUL(archivo[k])
                   IN  Lee(inst', k) = IF Len(v) <= PACKAGESIZE THEN v ELSE SubSeq(v, 1, PACKAGESIZE)
           R == \A orden \in SetToSeqs(asignadas) :
                  inst'.fallo # "desborde" /\ Reiniciar(orden)
                  /\ EntradasDeArchivos(orden, archivo) <= N
                  => \A k \in asignadas : archivo[k] # SinArchivo => W(k)
<1>1. IInv /\ [Next]_vars => [R]_vars
  <2> SUFFICES ASSUME IInv, NEW orden \in SetToSeqs(asignadas), Reiniciar(orden),
                      EntradasDeArchivos(orden, archivo) <= N,
                      NEW k \in asignadas, archivo[k] # SinArchivo
               PROVE  W(k)
    OBVIOUS
  <2>1. asignadas \in SUBSET Claves /\ archivo \in Archivos /\ IsFiniteSet(asignadas)
    BY IInvBuena DEF IInv
  <2>2. orden \in Seq(asignadas) /\ orden \in Seq(Claves)
    <3>1. orden \in Seq(asignadas)
      BY <2>1, OrdenEs
    <3> QED BY <2>1, <3>1
  <2> DEFINE p == obtenerClavesARecuperar(orden, archivo)
  <2>3. PICK h : Recuperada(orden, archivo, asignadas, h) /\ p = h[Len(orden)]
    BY <2>1, RecuperarForma
  <2>4. PICK c : SumaArchivos(orden, archivo, c) /\ EntradasDeArchivos(orden, archivo) = c[Len(orden)]
    BY <2>1, <2>2, ArchivosSumados
  <2>5. Hecho(orden, archivo, c, h, Len(orden))
    BY <2>1, <2>3, <2>4, HechoTodo
  <2>6. PICK i \in 1..Len(orden) : orden[i] = k
    BY <2>1, OrdenTodas
  <2>7. Lee(p, k) = Leido(archivo[k])
    BY <2>3, <2>5, <2>6 DEF Hecho
  <2>8. Lee(inst', k) = Lee(p, k)
    <3>1. Buena(p, asignadas)
      BY <2>1, TodasBuenas
    <3> HIDE DEF p
    <3>2. \E d : inst' \in ConDesborde(p, d)
      BY DEF Reiniciar, Arrancar, p
    <3>3. inst'.tabla = p.tabla /\ inst'.bytes = p.bytes
      BY <3>1, <3>2, DesbordeBuena
    <3> QED BY <3>3, LeeIgual
  <2>9. archivo[k] \in Seq(Byte)
    BY <2>1 DEF Archivos
  <2> QED BY <2>7, <2>8, <2>9, LeidoEs
<1> QED BY <1>1, Invariante, PTL DEF Spec, RecuperaLoGuardado

(***************************************************************************)
(* While the values leave room for their NUL.                              *)
(***************************************************************************)
\* The last byte of every entry is a NUL.
FinNUL(b) == \A n \in Entradas : b[n * T + (T - 1)] = NUL

\* Where that byte is.
LEMMA UltimoByte ==
  ASSUME NEW n \in Entradas
  PROVE  /\ n * T + (T - 1) \in Direcciones /\ n * T + (T - 1) < N * T /\ n * T + (T - 1) \in Nat
         /\ \A i \in Entradas : n * T + (T - 1) < i * T \/ n * T + (T - 1) >= i * T + (T - 1)
<1>1. n \in Int /\ T \in Nat /\ T >= 1 /\ \A i \in Entradas : i \in Int
  BY TablaBienFormada DEF Entradas
<1>2. n * T \in Nat /\ n * T + T <= N * T /\ N * T \in Nat
  BY EntradaEnBloque
<1>3. ASSUME NEW i \in Entradas
      PROVE  n * T + (T - 1) < i * T \/ n * T + (T - 1) >= i * T + (T - 1)
  <2>1. i * T \in Int /\ (n < i => n * T + T <= i * T) /\ (i <= n => i * T <= n * T)
    BY <1>1, Producto
  <2> QED BY <1>1, <1>2, <2>1
<1> QED BY <1>1, <1>2, <1>3 DEF Direcciones

\* No copy of a string that leaves room for its NUL disturbs it, and no clearing.
LEMMA FinCopia ==
  ASSUME NEW b, FinNUL(b), NEW i \in Entradas, NEW v \in Seq(Byte), Len(v) < T
  PROVE  FinNUL(memcpy(b, i * T, v)) /\ FinNUL(strcpy(b, i * T, v))
<1> SUFFICES ASSUME NEW n \in Entradas
             PROVE  LET x == n * T + (T - 1)
                    IN  memcpy(b, i * T, v)[x] = NUL /\ strcpy(b, i * T, v)[x] = NUL
  BY DEF FinNUL
<1> DEFINE x == n * T + (T - 1)
           d == i * T
<1>1. /\ x \in Direcciones /\ x \in Nat /\ (x < d \/ x >= d + (T - 1)) /\ b[x] = NUL
      /\ d \in Nat /\ T \in Nat /\ Len(v) \in Nat
  BY UltimoByte, EntradaEnBloque, TablaBienFormada DEF FinNUL
<1> HIDE DEF x, d
<1>2. memcpy(b, d, v)[x] = NUL
  <2>1. x < d \/ x >= d + Len(v)
    BY <1>1
  <2> QED BY <1>1, <2>1, FueraDeCopia
<1>3. strcpy(b, d, v)[x] = NUL
  <2>1. CASE x < d \/ x > d + Len(v)
    BY <1>1, <2>1, FueraDeCopia
  <2>2. CASE x = d + Len(v)
    BY <1>1, <2>2, FinalDeCopia
  <2>3. x < d \/ x > d + Len(v) \/ x = d + Len(v)
    BY <1>1
  <2> QED BY <2>1, <2>2, <2>3
<1> QED BY <1>2, <1>3 DEF x, d

LEMMA FinBorrado ==
  ASSUME NEW b, FinNUL(b), NEW d, NEW L
  PROVE  FinNUL(memset(b, d, L))
BY UltimoByte DEF FinNUL, memset

\* A SET of such a value keeps it.
LEMMA FinGuarda ==
  ASSUME NEW A \in SUBSET Claves, NEW k \in A, NEW m, Buena(m, A), m.fallo = "no",
         NEW v \in Seq(Byte), Len(v) \in 1..(T - 1), FinNUL(m.bytes)
  PROVE  FinNUL(guardarClaveValor(m, k, v).bytes)
<1> DEFINE p == guardarClaveValor(m, k, v)
<1>1. \/ Creceria(m, k, v, p)
      \/ ~Crece(m, k, Len(v)) /\ Guardada(m, k) /\ Actualiza(m, k, v, p)
      \/ EsAtomica(m, k, v, p)
      \/ NoCabe(m, k, p)
      \/ EsDeVarias(m, k, v, p)
  BY GuardarForma
<1> SUFFICES FinNUL(p.bytes)
  OBVIOUS
<1> HIDE DEF p
<1>2. "EXITO_I" \in Respuestas /\ "ERROR_I" \in Respuestas /\ m \in Memoria
  BY DEF Respuestas, Buena
<1>3. Len(v) < T /\ Len(v) <= T /\ cantidadDeEntradasRequeridasParaValor(Len(v)) = 1
  BY UnaEntrada, TablaBienFormada
<1>4. CASE Creceria(m, k, v, p) \/ NoCabe(m, k, p)
  BY <1>2, <1>4, ConRespBuena DEF Creceria, NoCabe
<1>5. CASE EsDeVarias(m, k, v, p)
  BY <1>3, <1>5 DEF EsDeVarias
<1>6. CASE Actualiza(m, k, v, p)
  <2>1. PICK lo \in Entradas, hi \in Entradas, q \in Memoria :
          /\ Tramo(m, k, lo, hi) /\ Actualizada(m, k, v, lo, hi, q) /\ p = ConResp(q, "EXITO_I")
    BY <1>6 DEF Actualiza
  <2>2. Buena(q, A)
    BY <2>1, ActualizarBuena
  <2>3. q.bytes = strcpy(memset(m.bytes, lo * T, TamanioTotal(m, k)), lo * T, v)
    BY <2>1 DEF Actualizada
  <2> DEFINE c == memset(m.bytes, lo * T, TamanioTotal(m, k))
  <2>4. FinNUL(c)
    BY FinBorrado
  <2> HIDE DEF c
  <2>5. FinNUL(strcpy(c, lo * T, v))
    BY <1>3, <2>4, FinCopia
  <2>6. p.bytes = q.bytes
    BY <1>2, <2>1, <2>2, ConRespBuena
  <2> QED BY <2>3, <2>5, <2>6 DEF c
<1>7. CASE EsAtomica(m, k, v, p)
  <2> DEFINE q == GuardarAtomica(m, k, v)
  <2>1. Buena(q, A) /\ Atomica(m, k, v, q)
    BY <1>2, <1>7, AtomicaBuena, AtomicaForma DEF EsAtomica
  <2>2. p.bytes = q.bytes
    BY <1>2, <1>7, <2>1, ConRespBuena DEF EsAtomica
  <2> HIDE DEF q
  <2>3. PICK ac \in BOOLEAN, nu \in 0..N :
          \/ \E f \in {"fuera", "nulo"} : q = Romper(Con(m, ac, nu), f)
          \/ \E n \in Entradas, z \in Nat : q = AvanzarNumero(PonerAtomica(Con(m, ac, nu), k, v, n), z)
    BY <2>1 DEF Atomica
  <2>4. Con(m, ac, nu).bytes = m.bytes /\ Con(m, ac, nu).tabla = m.tabla /\ Con(m, ac, nu) \in Memoria
    BY <1>2, TablaBienFormada DEF Con, Memoria
  <2>5. CASE \E f \in {"fuera", "nulo"} : q = Romper(Con(m, ac, nu), f)
    BY <2>2, <2>4, <2>5 DEF Romper, Memoria
  <2>6. CASE \E n \in Entradas, z \in Nat : q = AvanzarNumero(PonerAtomica(Con(m, ac, nu), k, v, n), z)
    <3>1. PICK n \in Entradas, z \in Nat : q = AvanzarNumero(PonerAtomica(Con(m, ac, nu), k, v, n), z)
      BY <2>6
    <3> DEFINE w == PonerAtomica(Con(m, ac, nu), k, v, n)
    <3>2. Buena(Con(m, ac, nu), A) /\ ~Guardada(Con(m, ac, nu), k)
      BY <1>2, <1>7, <2>4, SinTabla DEF EsAtomica, Guardada, obtenerIndicesDeClave
    <3>3. Buena(w, A) /\ PuestaEn(Con(m, ac, nu), k, v, n, w)
      BY <1>3, <3>2, PonerBuena
    <3> HIDE DEF w
    <3> DEFINE c == memset(m.bytes, n * T, cantidadDeEntradasRequeridasParaValor(Len(v)) * T)
    <3>4. w.bytes = memcpy(c, n * T, v)
      BY <2>4, <3>3 DEF PuestaEn
    <3>5. FinNUL(c)
      BY FinBorrado
    <3> HIDE DEF c
    <3>6. FinNUL(w.bytes)
      BY <1>3, <3>4, <3>5, FinCopia
    <3>7. q.bytes = w.bytes
      <4>1. q = [w EXCEPT !.numero = Menor(z, N)]
        BY <3>1 DEF w, AvanzarNumero
      <4> QED BY <3>3, <4>1 DEF Buena, Memoria
    <3> QED BY <2>2, <3>6, <3>7
  <2> QED BY <2>3, <2>5, <2>6
<1> QED BY <1>1, <1>4, <1>5, <1>6, <1>7

\* The string of an entry ends in it.
LEMMA FinLargo ==
  ASSUME NEW b, FinNUL(b), NEW n \in Entradas
  PROVE  Largo(b, n * T) \in 0..(T - 1) /\ n * T + Largo(b, n * T) # N * T
<1> DEFINE x == n * T + (T - 1)
           d == n * T
           L == Largo(b, d)
<1>1. /\ x \in Direcciones /\ x \in Nat /\ x = d + (T - 1) /\ x < N * T /\ b[x] = NUL
      /\ d \in Direcciones /\ d \in Nat /\ T \in Nat /\ T >= 1 /\ N * T \in Nat
  BY UltimoByte, EntradaEnBloque, TablaBienFormada DEF FinNUL
<1> HIDE DEF x, d
<1>2. L \in Nat /\ \A y \in Direcciones : d <= y /\ y < d + L => b[y] # NUL
  BY <1>1, LargoEs
<1> HIDE DEF L
<1>3. ~(x < d + L)
  BY <1>1, <1>2
<1>4. L \in 0..(T - 1) /\ d + L # N * T
  BY <1>1, <1>2, <1>3
<1> QED BY <1>4 DEF L, d

\* A compaction of such strings keeps it, and no string runs past the block.
LEMMA FinCompacta ==
  ASSUME NEW m \in Memoria, FinNUL(m.bytes)
  PROVE  FinNUL(compactarEntradas(m).bytes) /\ ~DesbordaCompactacion(m)
<1>1. ~DesbordaCompactacion(m)
  BY FinLargo DEF DesbordaCompactacion
<1> DEFINE p == compactarEntradas(m)
           S == Ocupadas(m)
           C == Cardinality(S)
<1>2. PICK f : Compactada(m, p, f)
  BY CompactarForma
<1> HIDE DEF p
<1>3. S \in SUBSET Entradas
  BY DEF Ocupadas
<1>4. /\ f \in [0..C -> [Direcciones -> Byte]] /\ f[0] = m.bytes /\ p.bytes = f[C]
      /\ \A i \in 1..C : f[i] = Movida(f[i - 1], i - 1, Rango(S, i - 1))
  BY <1>2 DEF Compactada
<1> HIDE DEF S
<1>5. C \in 0..N /\ C \in Nat /\ N \in Nat /\ \A i \in 0..(C - 1) : Rango(S, i) \in Entradas
  BY <1>3, Rangos, TablaBienFormada
<1> HIDE DEF C
<1> DEFINE P == {i \in 0..C : FinNUL(f[i])}
<1>6. 0 \in P
  BY <1>4, <1>5
<1>7. ASSUME NEW i \in 0..(C - 1), i \in P PROVE i + 1 \in P
  <2>1. i + 1 \in 1..C /\ i + 1 \in 0..C /\ (i + 1) - 1 = i /\ i \in 0..C /\ i \in Entradas
    BY <1>5 DEF Entradas
  <2> DEFINE b == f[i]
             n == Rango(S, i)
             s == Bytes(b, n * T, Largo(b, n * T))
  <2>2. b \in [Direcciones -> Byte] /\ FinNUL(b) /\ n \in Entradas /\ f[i + 1] = Movida(b, i, n)
    BY <1>4, <1>5, <1>7, <2>1
  <2> HIDE DEF b, n
  <2>3. s \in Seq(Byte) /\ Len(s) < T
    <3>1. s \in Seq(Byte) /\ Len(s) = Largo(b, n * T)
      BY <2>2, CadenaEs
    <3>2. Largo(b, n * T) \in 0..(T - 1)
      BY <2>2, FinLargo
    <3> QED BY <3>1, <3>2, TablaBienFormada
  <2> HIDE DEF s
  <2>4. FinNUL(strcpy(b, i * T, s))
    BY <2>1, <2>2, <2>3, FinCopia
  <2> QED BY <2>1, <2>2, <2>4 DEF Movida, s
<1> HIDE DEF P
<1>8. 0..C \subseteq P
  BY <1>5, <1>6, <1>7, Induccion
<1>9. C \in P
  BY <1>5, <1>8
<1> QED BY <1>1, <1>4, <1>9 DEF P, p

\* A recovery from files of such strings starts from it and keeps it.
LEMMA FinRecupera ==
  ASSUME NEW A \in SUBSET Claves, IsFiniteSet(A), NEW orden \in SetToSeqs(A), NEW f \in Archivos,
         \A k \in A : f[k] # SinArchivo => Len(Leido(f[k])) \in 1..(T - 1)
  PROVE  FinNUL(obtenerClavesARecuperar(orden, f).bytes)
<1>1. PICK h : Recuperada(orden, f, A, h) /\ obtenerClavesARecuperar(orden, f) = h[Len(orden)]
  BY RecuperarForma
<1>2. Len(orden) \in Nat /\ \A j \in 1..Len(orden) : orden[j] \in A
  BY OrdenEs
<1> DEFINE n == Len(orden)
           P == {j \in 0..n : FinNUL(h[j].bytes)}
<1>3. 0 \in P
  <2>1. h[0] = MemoriaInicial
    BY <1>1 DEF Recuperada
  <2>2. FinNUL(MemoriaInicial.bytes)
    BY UltimoByte DEF FinNUL, MemoriaInicial
  <2> QED BY <1>2, <2>1, <2>2
<1>4. ASSUME NEW j \in 0..(n - 1), j \in P PROVE j + 1 \in P
  <2>1. j + 1 \in 1..n /\ (j + 1) - 1 = j /\ j \in 0..n /\ j + 1 \in 0..n
    BY <1>2
  <2> DEFINE m == h[j]
             k == orden[j + 1]
             q == h[j + 1]
  <2>2. Buena(m, A) /\ FinNUL(m.bytes) /\ q = recuperarClave(m, k, f) /\ k \in A
    BY <1>1, <1>2, <1>4, <2>1 DEF Recuperada
  <2> HIDE DEF m, k, q
  <2>3. FinNUL(q.bytes)
    <3>1. CASE m.fallo # "no" \/ f[k] = SinArchivo
      BY <2>2, <3>1 DEF recuperarClave
    <3>2. CASE ~(m.fallo # "no" \/ f[k] = SinArchivo)
      <4>1. f[k] \in Seq(Byte)
        BY <2>2, <3>2 DEF Archivos
      <4>2. Leido(f[k]) \in Seq(Byte) /\ Len(Leido(f[k])) \in 1..(T - 1)
        BY <2>2, <3>2, <4>1, LeidoEs
      <4>3. q = guardarClaveValor(m, k, Leido(f[k])) /\ m.fallo = "no"
        BY <2>2, <3>2 DEF recuperarClave
      <4> QED BY <2>2, <4>2, <4>3, FinGuarda
    <3> QED BY <3>1, <3>2
  <2> QED BY <2>1, <2>3 DEF q
<1> HIDE DEF P
<1>5. 0..n \subseteq P
  BY <1>2, <1>3, <1>4, Induccion
<1>6. n \in P
  BY <1>2, <1>5
<1> QED BY <1>1, <1>6 DEF P

\* While every value leaves room for its NUL, every entry ends in one.
CInv ==
  /\ soloCadenas => soloAtomicas
  /\ soloCadenas => FinNUL(inst.bytes) /\ inst.fallo # "desborde"

\* It holds at the start.
LEMMA CInvInicial == Init => CInv
BY UltimoByte DEF Init, CInv, FinNUL, MemoriaInicial

\* Every step preserves it.
LEMMA CInvPaso == IInv /\ DInv /\ CInv /\ [Next]_vars => CInv'
<1> SUFFICES ASSUME IInv, DInv, CInv, [Next]_vars, soloCadenas'
             PROVE  soloAtomicas' /\ FinNUL(inst'.bytes) /\ inst'.fallo # "desborde"
  BY DEF CInv
<1> DEFINE Bien == soloAtomicas' /\ FinNUL(inst'.bytes) /\ inst'.fallo # "desborde"
<1>0. /\ Buena(inst, asignadas) /\ asignadas \in SUBSET Claves /\ archivo \in Archivos
      /\ IsFiniteSet(asignadas) /\ inst \in Memoria
  BY IInvBuena DEF IInv, TypeOK
\* What the answer adds: nothing, or the fault "basura".
<1>1. ASSUME NEW m \in Memoria, FinNUL(m.bytes), m.fallo # "desborde", NEW w,
             inst' \in enviarResultadoSentencia(m, w)
      PROVE  FinNUL(inst'.bytes) /\ inst'.fallo # "desborde"
  BY <1>1 DEF enviarResultadoSentencia, Romper, Memoria
\* A message that changes no byte.
<1>2. ASSUME NEW m \in Memoria, m.bytes = inst.bytes, m.fallo \in {inst.fallo, "ausente"}, NEW w,
             inst' \in enviarResultadoSentencia(m, w), UNCHANGED historia
      PROVE  Bien
  <2>1. soloCadenas /\ soloAtomicas' = soloAtomicas
    BY <1>2 DEF historia
  <2> QED BY <1>1, <1>2, <2>1 DEF CInv
<1>3. ASSUME NEW k \in Claves, NEW L \in Largos, SET_(k, L) PROVE Bien
  <2> DEFINE A == asignadas \cup {k}
             m == recibirSentencia(inst)
             v == Valor(k, L)
             p == guardarClaveValor(m, k, v)
  <2>1. soloCadenas /\ L < T /\ (soloAtomicas' = (soloAtomicas /\ L <= T))
    BY <1>3, Zenon DEF SET_
  <2>2. L \in 1..(T - 1) /\ L \in 1..T /\ L <= T /\ L \in Nat /\ T \in Nat
    BY <2>1, TablaBienFormada
  <2>3. A \in SUBSET Claves /\ k \in A /\ Buena(inst, A)
    BY <1>0, MasKeys
  <2>4. /\ Buena(m, A) /\ m.fallo = "no" /\ m.tabla = inst.tabla /\ m.activo = inst.activo
        /\ m.numero = inst.numero /\ m.bytes = inst.bytes
    BY <1>3, <2>3, RecibirBuena DEF SET_, Sigue
  <2>5. v \in Seq(Byte) /\ Len(v) = L
    BY ValorDado
  <2>6. Densa(m) /\ FinNUL(m.bytes)
    BY <2>1, <2>4, DensaIgual DEF DInv, CInv
  <2>7. ~DesbordaActualizacion(inst, k, L)
    <3> SUFFICES ASSUME Guardada(inst, k), Min(obtenerIndicesDeClave(inst, k)) * T + L >= N * T
                 PROVE  FALSE
      BY DEF DesbordaActualizacion
    <3> DEFINE n == Min(obtenerIndicesDeClave(inst, k))
    <3>1. obtenerIndicesDeClave(inst, k) \in SUBSET Entradas /\ obtenerIndicesDeClave(inst, k) # {}
      BY DEF Guardada, obtenerIndicesDeClave
    <3>2. n \in Entradas
      BY <3>1, MinimoMaximo
    <3> HIDE DEF n
    <3>3. n * T \in Nat /\ n * T + T <= N * T /\ N * T \in Nat
      BY <3>2, EntradaEnBloque
    <3>4. n * T + L >= N * T
      BY DEF n
    <3> QED BY <2>1, <2>2, <3>3, <3>4
  <2>8. \E q \in ConDesborde(p, DesbordaActualizacion(inst, k, L)) :
          inst' \in enviarResultadoSentencia(q, "SET")
    BY <1>3 DEF SET_, p, m, v
  <2> HIDE DEF A, m, v
  <2>9. p.fallo = "no" /\ FinNUL(p.bytes) /\ Buena(p, A)
    BY <2>2, <2>3, <2>4, <2>5, <2>6, DensaGuarda, FinGuarda, GuardarBuena
  <2> HIDE DEF p
  <2>10. inst' \in enviarResultadoSentencia(p, "SET") /\ p \in Memoria
    BY <2>7, <2>8, <2>9 DEF ConDesborde, Buena
  <2>11. soloAtomicas'
    BY <2>1, <2>2, Zenon DEF CInv
  <2> QED BY <1>1, <2>9, <2>10, <2>11
<1>4. ASSUME NEW k \in Claves, STORE_(k) PROVE Bien
  <2> DEFINE r == IF Guardada(inst, k) THEN "EXITO_I" ELSE "ERROR_I"
             p == ConResp(recibirSentencia(inst), r)
  <2>1. r \in Respuestas
    BY DEF Respuestas
  <2>2. inst' \in enviarResultadoSentencia(p, "STORE") /\ UNCHANGED historia
    BY <1>4 DEF STORE_, ConResp
  <2> HIDE DEF r
  <2>3. p \in Memoria /\ p.bytes = inst.bytes /\ p.fallo = inst.fallo
    <3> DEFINE m == recibirSentencia(inst)
    <3>1. Buena(m, asignadas) /\ m.bytes = inst.bytes /\ m.fallo = inst.fallo
      BY <1>0, RecibirBuena
    <3> HIDE DEF m
    <3>2. LET q == ConResp(m, r) IN Buena(q, asignadas) /\ q.bytes = m.bytes /\ q.fallo = m.fallo
      BY <2>1, <3>1, ConRespBuena
    <3> QED BY <3>1, <3>2 DEF m, Buena
  <2> HIDE DEF p
  <2> QED BY <1>2, <2>2, <2>3
<1>5. ASSUME NEW k \in Claves, OBTENER_VALOR(k) PROVE Bien
  <2> DEFINE p == IF Guardada(inst, k) THEN recibirSentencia(inst) ELSE Romper(inst, "ausente")
  <2>1. inst' \in enviarResultadoSentencia(p, "OBTENER_VALOR") /\ UNCHANGED historia
    BY <1>5 DEF OBTENER_VALOR
  <2>2. p \in Memoria /\ p.bytes = inst.bytes /\ p.fallo \in {inst.fallo, "ausente"}
    <3>1. CASE Guardada(inst, k)
      BY <1>0, <3>1, RecibirBuena DEF Buena
    <3>2. CASE ~Guardada(inst, k)
      BY <1>0, <3>2 DEF Romper, Memoria
    <3> QED BY <3>1, <3>2
  <2> HIDE DEF p
  <2> QED BY <1>2, <2>1, <2>2
<1>6. ASSUME COMPACTAR PROVE Bien
  <2> DEFINE p == compactarEntradas(inst)
  <2>1. UNCHANGED historia /\ \E q \in ConDesborde(p, DesbordaCompactacion(inst)) :
                                inst' \in enviarResultadoSentencia(q, "COMPACTAR")
    BY <1>6 DEF COMPACTAR
  <2>2. soloCadenas /\ soloAtomicas'
    BY <2>1 DEF historia, CInv
  <2>3. FinNUL(p.bytes) /\ ~DesbordaCompactacion(inst)
    BY <1>0, <2>2, FinCompacta DEF CInv
  <2>4. p.fallo = inst.fallo /\ p \in Memoria
    <3>1. PICK f : Compactada(inst, p, f)
      BY <1>0, CompactarForma
    <3> QED BY <3>1 DEF Compactada
  <2> HIDE DEF p
  <2>5. inst' \in enviarResultadoSentencia(p, "COMPACTAR") /\ p.fallo # "desborde"
    BY <2>1, <2>2, <2>3, <2>4 DEF ConDesborde, CInv
  <2> QED BY <1>1, <2>2, <2>3, <2>4, <2>5
<1>7. ASSUME ejecutarDump PROVE Bien
  <2>1. (inst' = inst \/ inst' = ConResp(inst, "EXITO_I")) /\ UNCHANGED historia
    BY <1>7 DEF ejecutarDump, ConResp
  <2>2. inst'.bytes = inst.bytes /\ inst'.fallo = inst.fallo
    BY <1>0, <2>1 DEF ConResp, Memoria
  <2> QED BY <2>1, <2>2 DEF CInv, historia
<1>8. ASSUME NEW orden \in SetToSeqs(asignadas), NEW f \in Archivos, Arrancar(orden, f) PROVE Bien
  <2> DEFINE p == obtenerClavesARecuperar(orden, f)
             d == \E k \in asignadas : DesbordaLectura(f[k])
  <2>1. /\ soloCadenas /\ ArchivosCadenas(f) /\ (soloAtomicas' = (soloAtomicas /\ ArchivosAtomicos(f)))
        /\ inst' \in ConDesborde(p, d)
    BY <1>8, Zenon DEF Arrancar
  <2>2. \A k \in asignadas : f[k] # SinArchivo =>
          Len(Leido(f[k])) \in 1..(T - 1) /\ Len(Leido(f[k])) < PACKAGESIZE
    BY <2>1 DEF ArchivosCadenas
  <2>3. \A k \in asignadas : f[k] # SinArchivo =>
          cantidadDeEntradasRequeridasParaValor(Len(Leido(f[k]))) = 1
    <3> SUFFICES ASSUME NEW k \in asignadas, f[k] # SinArchivo
                 PROVE  cantidadDeEntradasRequeridasParaValor(Len(Leido(f[k]))) = 1
      OBVIOUS
    <3> DEFINE L == Len(Leido(f[k]))
    <3>1. L \in 1..(T - 1)
      BY <2>2
    <3> HIDE DEF L
    <3>2. L \in Nat /\ L \in 1..T
      BY <3>1, TablaBienFormada
    <3>3. cantidadDeEntradasRequeridasParaValor(L) = 1
      BY <3>2, UnaEntrada
    <3> QED BY <3>3 DEF L
  <2>4. soloAtomicas'
    BY <2>1, <2>3, Zenon DEF CInv, ArchivosAtomicos
  <2>5. Densa(p) /\ p.fallo = "no" /\ FinNUL(p.bytes)
    BY <1>0, <2>2, <2>3, DensaRecupera, FinRecupera
  <2>6. ~d
    <3> SUFFICES ASSUME NEW k \in asignadas, f[k] # SinArchivo, Len(Leido(f[k])) = PACKAGESIZE
                 PROVE  FALSE
      BY DEF DesbordaLectura
    <3>1. Len(Leido(f[k])) < PACKAGESIZE /\ PACKAGESIZE \in Nat
      BY <2>2, BloqueDeLectura
    <3> QED BY <3>1
  <2> HIDE DEF p, d
  <2>7. inst' = p
    BY <2>1, <2>6 DEF ConDesborde
  <2> QED BY <2>4, <2>5, <2>7
<1>9. ASSUME NEW orden \in SetToSeqs(asignadas), Reiniciar(orden) PROVE Bien
  BY <1>0, <1>8, <1>9 DEF Reiniciar
<1>10. ASSUME NEW k \in Claves, NEW orden \in SetToSeqs(asignadas), CaerGrabando(k, orden) PROVE Bien
  <2>1. archivo' \in Archivos /\ Arrancar(orden, archivo')
    BY <1>0, <1>10 DEF CaerGrabando, Archivos
  <2> QED BY <1>8, <2>1
<1>11. CASE UNCHANGED vars
  BY <1>11 DEF vars, CInv
<1> QED BY <1>3, <1>4, <1>5, <1>6, <1>7, <1>9, <1>10, <1>11 DEF Next

\* While every value takes one entry, only the command status and a string that fills its
\* entry break the process; and none runs past a block when the values leave room for
\* their NUL.
THEOREM NoFalla == Spec => []SoloAtomicasNoFalla
<1>1. Spec => []DInv
  BY DInvInicial, DInvPaso, Invariante, PTL DEF Spec
<1>2. Spec => []CInv
  BY <1>1, CInvInicial, CInvPaso, Invariante, PTL DEF Spec
<1>3. DInv /\ CInv => SoloAtomicasNoFalla
  BY DEF DInv, CInv, Intacta, SoloAtomicasNoFalla
<1> QED BY <1>1, <1>2, <1>3, PTL
=================================================================================
