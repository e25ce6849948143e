------------------------ MODULE DeteccionDeadlock_proofs ------------------------
(***************************************************************************)
(* Theorems about DeteccionDeadlock, for any ESIs, keys and lists: what    *)
(* the command shows is a deadlock, and no ESI is shown in two.            *)
(*                                                                         *)
(* EslabonesCiertos needs the walk to be a chain (Cadena): its last step   *)
(* only compares with the first ESI, so the middle has to be right before. *)
(* EnUnoSolo needs that a deadlock that was shown cannot be left           *)
(* (LemaCerrada): a walk that ran into one would still be in it at its     *)
(* end (NoSale), and the ESI it started from would be in it, which the     *)
(* head of the for loop looks at.  UnaVezEnSuLista needs that a walk that  *)
(* repeats an ESI is caught in what lies between the two (SinVueltas):     *)
(* it cannot come back to its first ESI, so it is never shown.             *)
(*                                                                         *)
(* FinExacto counts turns (Lleva) and the walk does not.  Between the two: *)
(* x leads to y (Alcanza) when no set of holders that nobody leads out of  *)
(* has x and leaves y out.  The walk only goes where its first ESI leads   *)
(* (Alcance), so who is shown leads to all who are shown with it (Vueltas) *)
(* and who is passed over leads to a key without record (Vistos).  Lleva   *)
(* has more turns than there are ESIs: it comes to one twice (the pigeon   *)
(* holes of the library), and what it went through is such a set.          *)
(***************************************************************************)
EXTENDS DeteccionDeadlock, FiniteSetTheorems, TLAPS

\* The elements of the walk: each asks for what the next one holds.
Cadena ==
  pc = "while" =>
    /\ \A j \in DOMAIN deadlock :
         /\ deadlock[j].pid \in Bloqueados
         /\ clave[deadlock[j].pid] = deadlock[j].clave_pedida
         /\ deadlock[j].clave_pedida \in Claves
    /\ \A j \in DOMAIN deadlock \ {1} :
         /\ deadlock[j].clave_tomada \in Claves
         /\ dueno[deadlock[j].clave_tomada] = deadlock[j].pid
         /\ deadlock[j - 1].clave_pedida = deadlock[j].clave_tomada

\* A walk that meets a deadlock already shown does not leave it, and it did not start in it.
NoSale ==
  pc = "while" =>
    \A m \in DOMAIN lista_deadlocks :
      /\ Analizado \notin Pids(lista_deadlocks[m])
      /\ \A j \in DOMAIN deadlock :
           deadlock[j].pid \in Pids(lista_deadlocks[m]) => esi_aux \in Pids(lista_deadlocks[m])

\* Nobody after the first element is the ESI that is analysed, only the owner of its own
\* key leads back to it at once, and a walk that comes twice to an ESI goes on among
\* those it met between the two times.
SinVueltas ==
  pc = "while" =>
    /\ \A j \in DOMAIN deadlock \ {1} : deadlock[j].pid # Analizado
    /\ dueno[Tomada] = Analizado => Len(deadlock) = 1
    /\ \A a, b \in DOMAIN deadlock :
         a < b /\ deadlock[a].pid = deadlock[b].pid
         => \E j \in (a + 1)..b : esi_aux = deadlock[j].pid

IInv == TypeOK /\ Cadena /\ EslabonesCiertos

(***************************************************************************)
(* Lemmas.                                                                 *)
(***************************************************************************)

\* The owner that a turn of the loop adds, when it is blocked, and what it asks for.
LEMMA LemaTurno ==
  ASSUME TypeOK, Cadena, DuenoBloqueado
  PROVE  /\ Len(deadlock) \in Nat \ {0}
         /\ esi_aux \in Bloqueados
         /\ Tomada \in Claves /\ Tomada = deadlock[Len(deadlock)].clave_pedida
         /\ Dueno \in ESIs /\ Dueno \in Bloqueados
         /\ Pedida \in Claves
         /\ dueno[Pedida] \in ESIs \cup {Sistema, Libre}
<1>1. Len(deadlock) \in Nat \ {0} /\ Len(deadlock) \in DOMAIN deadlock
  BY DEF TypeOK, DuenoBloqueado
<1>2. esi_aux \in Bloqueados /\ Tomada \in Claves /\ Tomada = deadlock[Len(deadlock)].clave_pedida
  BY <1>1 DEF DuenoBloqueado, Cadena, esi_aux, Tomada
<1>3. Bloqueados \subseteq ESIs
  BY DEF TypeOK, Bloqueados, ToSet
<1>4. Dueno \in Bloqueados /\ Dueno \in ESIs /\ Pedida # Ninguna
  BY <1>3 DEF DuenoBloqueado
<1>5. Pedida \in Claves
  BY <1>4 DEF TypeOK, Pedida
<1> QED
  BY <1>1, <1>2, <1>4, <1>5 DEF TypeOK

\* The list after the owner is added.
LEMMA LemaAgregada ==
  ASSUME TypeOK, Cadena, DuenoBloqueado
  PROVE  /\ Agregada \in Seq(Eslabon)
         /\ Len(Agregada) = Len(deadlock) + 1
         /\ DOMAIN Agregada = 1..(Len(deadlock) + 1)
         /\ \A j \in 1..Len(deadlock) : Agregada[j] = deadlock[j]
         /\ Agregada[Len(deadlock) + 1]
              = [pid |-> Dueno, clave_pedida |-> Pedida, clave_tomada |-> Tomada]
<1>1. deadlock \in Seq(Eslabon)
  BY DEF TypeOK
<1>2. [pid |-> Dueno, clave_pedida |-> Pedida, clave_tomada |-> Tomada] \in Eslabon
  BY LemaTurno DEF Eslabon
<1> QED
  BY <1>1, <1>2 DEF Agregada

\* The list that is shown: the first ESI holds what the last one asks for.
Mostrada == [Agregada EXCEPT ![1].clave_tomada = Pedida]

LEMMA LemaMostrada ==
  ASSUME TypeOK, Cadena, DuenoBloqueado
  PROVE  /\ Mostrada \in Seq(Eslabon)
         /\ Len(Mostrada) = Len(deadlock) + 1
         /\ DOMAIN Mostrada = 1..(Len(deadlock) + 1)
         /\ \A j \in 2..(Len(deadlock) + 1) : Mostrada[j] = Agregada[j]
         /\ Mostrada[1].pid = deadlock[1].pid
         /\ Mostrada[1].clave_pedida = deadlock[1].clave_pedida
         /\ Mostrada[1].clave_tomada = Pedida
<1> DEFINE n == Len(deadlock) + 1
           primero == [Agregada[1] EXCEPT !.clave_tomada = Pedida]
<1>1. n \in Nat \ {0} /\ 1 \in 1..n /\ Agregada \in [1..n -> Eslabon]
  BY LemaTurno, LemaAgregada
<1>2. Agregada[1] = deadlock[1] /\ Agregada[1] \in Eslabon
  BY <1>1, LemaAgregada, LemaTurno
<1>3. /\ primero \in Eslabon
      /\ primero.pid = deadlock[1].pid
      /\ primero.clave_pedida = deadlock[1].clave_pedida
      /\ primero.clave_tomada = Pedida
  BY <1>2, LemaTurno DEF Eslabon
<1>4. Mostrada = [Agregada EXCEPT ![1] = primero]
  BY <1>1 DEF Mostrada
<1>5. Mostrada \in [1..n -> Eslabon] /\ Mostrada[1] = primero
  BY <1>1, <1>3, <1>4
<1>6. \A j \in 2..n : Mostrada[j] = Agregada[j]
  BY <1>1, <1>4
<1>7. Mostrada \in Seq(Eslabon) /\ Len(Mostrada) = n /\ DOMAIN Mostrada = 1..n
  BY <1>1, <1>5
<1> QED
  BY <1>3, <1>5, <1>6, <1>7

\* From a member of a deadlock that is shown, the owner of its key leads to a member.
LEMMA LemaCerrada ==
  ASSUME TypeOK, EslabonesCiertos, NEW m \in DOMAIN lista_deadlocks,
         NEW e \in Pids(lista_deadlocks[m])
  PROVE  clave[e] \in Claves /\ dueno[clave[e]] \in Pids(lista_deadlocks[m])
<1> DEFINE L == lista_deadlocks[m]
<1>1. L \in Seq(Eslabon)
  BY DEF TypeOK
<1>2. PICK j \in DOMAIN L : e = L[j].pid
  BY DEF Pids
<1> DEFINE s == IF j = Len(L) THEN 1 ELSE j + 1
<1>3. s \in DOMAIN L
  BY <1>1, <1>2
<1>4. clave[e] = L[s].clave_tomada
  BY <1>2 DEF EslabonesCiertos
<1>5. L[s].clave_tomada \in Claves /\ dueno[L[s].clave_tomada] = L[s].pid
  BY <1>3 DEF EslabonesCiertos
<1> QED
  BY <1>3, <1>4, <1>5 DEF Pids

(***************************************************************************)
(* Types, the chain and the lists that are shown.                          *)
(***************************************************************************)
LEMMA LemaInit == Init => IInv /\ NoSale /\ EnUnoSolo
<1> SUFFICES ASSUME Init PROVE IInv /\ NoSale /\ EnUnoSolo
  OBVIOUS
<1>1. bloqueados \in Seq(ESIs)
  <2>1. PICK B \in SUBSET ESIs : bloqueados \in SetToSeqs(B)
    BY DEF Init
  <2>2. Cardinality(B) \in Nat
    BY NombresDistintos, FS_Subset, FS_CardinalityType
  <2>3. bloqueados \in [1..Cardinality(B) -> ESIs]
    BY <2>1 DEF SetToSeqs
  <2> QED
    BY <2>2, <2>3
<1> QED
  BY <1>1 DEF Init, IInv, TypeOK, Cadena, EslabonesCiertos, NoSale, EnUnoSolo

LEMMA LemaPaso == IInv /\ [Next]_vars => IInv'
<1> SUFFICES ASSUME IInv, [Next]_vars PROVE IInv'
  OBVIOUS
<1> USE DEF IInv
<1>1. CASE Saltear
  BY <1>1 DEF Saltear, listas, TypeOK, Cadena, EslabonesCiertos, Analizado, Bloqueados
<1>2. CASE Analizar
  <2>1. i \in DOMAIN bloqueados /\ Analizado \in ESIs /\ Analizado \in Bloqueados
    BY <1>2 DEF Analizar, TypeOK, Analizado, Bloqueados, ToSet
  <2>2. EslabonesCiertos'
    BY <1>2 DEF Analizar, listas, EslabonesCiertos, Bloqueados
  <2>3. CASE clave[Analizado] = Ninguna
    BY <1>2, <2>2, <2>3 DEF Analizar, listas, TypeOK, Cadena
  <2>4. CASE clave[Analizado] # Ninguna
    <3> DEFINE x == [pid |-> Analizado, clave_pedida |-> clave[Analizado], clave_tomada |-> Ninguna]
    <3>1. clave[Analizado] \in Claves
      BY <2>1, <2>4 DEF TypeOK
    <3>2. x \in Eslabon
      BY <2>1, <3>1 DEF Eslabon
    <3>3. /\ deadlock' = <<x>> /\ pc' = "while"
          /\ UNCHANGED <<bloqueados, clave, dueno, i, lista_deadlocks>>
      BY <1>2, <2>4 DEF Analizar, listas
    <3>4. TypeOK'
      BY <1>2, <3>2, <3>3 DEF Analizar, TypeOK, Analizado
    <3>5. Cadena'
      BY <2>1, <3>1, <3>3 DEF Cadena, Bloqueados
    <3> QED
      BY <2>2, <3>4, <3>5
  <2> QED
    BY <2>3, <2>4
<1>3. CASE Mostrar
  BY <1>3 DEF Mostrar, listas, TypeOK, Cadena, EslabonesCiertos, Bloqueados
<1>4. CASE SinRegistro
  BY <1>4 DEF SinRegistro, Abandonar, listas, TypeOK, Cadena, EslabonesCiertos, Bloqueados
<1>5. CASE DuenoNoBloqueado
  BY <1>5 DEF DuenoNoBloqueado, listas, TypeOK, Cadena, EslabonesCiertos, Bloqueados
<1>6. CASE Encontrar
  <2>1. DuenoBloqueado /\ dueno[Pedida] = Analizado /\ pc = "while"
    BY <1>6 DEF Encontrar, Cierra, DuenoBloqueado
  <2>2. /\ lista_deadlocks' = Append(lista_deadlocks, Mostrada)
        /\ i' = i + 1 /\ deadlock' = <<>> /\ pc' = "for"
        /\ UNCHANGED <<bloqueados, clave, dueno>>
    BY <1>6 DEF Encontrar, Mostrada, listas
  <2>3. TypeOK'
    BY <2>1, <2>2, LemaMostrada DEF TypeOK
  <2>4. Cadena'
    BY <2>2 DEF Cadena
  <2>5. EslabonesCiertos'
    <3> DEFINE n == Len(deadlock)
               L == Mostrada
    <3>0. n \in Nat \ {0} /\ DOMAIN L = 1..(n + 1) /\ Len(L) = n + 1 /\ DOMAIN deadlock = 1..n
      BY <2>1, LemaTurno, LemaMostrada DEF TypeOK
    <3>1. SUFFICES ASSUME NEW j \in 1..(n + 1)
                   PROVE  /\ L[j].pid \in Bloqueados
                          /\ clave[L[j].pid] = L[j].clave_pedida
                          /\ L[j].clave_tomada \in Claves /\ dueno[L[j].clave_tomada] = L[j].pid
                          /\ L[j].clave_pedida = L[IF j = n + 1 THEN 1 ELSE j + 1].clave_tomada
      <4> DEFINE Bien(s) == \A j \in DOMAIN s :
                   /\ s[j].pid \in Bloqueados
                   /\ clave[s[j].pid] = s[j].clave_pedida
                   /\ s[j].clave_tomada \in Claves /\ dueno[s[j].clave_tomada] = s[j].pid
                   /\ s[j].clave_pedida = s[IF j = Len(s) THEN 1 ELSE j + 1].clave_tomada
      <4>1. Bien(L)
        BY <3>0, <3>1
      <4>2. \A m \in DOMAIN lista_deadlocks' :
              \/ lista_deadlocks'[m] = L
              \/ /\ m \in DOMAIN lista_deadlocks
                 /\ lista_deadlocks'[m] = lista_deadlocks[m]
        BY <2>1, <2>2, LemaMostrada DEF TypeOK
      <4>3. \A m \in DOMAIN lista_deadlocks : Bien(lista_deadlocks[m])
        BY DEF EslabonesCiertos
      <4>4. \A m \in DOMAIN lista_deadlocks' : Bien(lista_deadlocks'[m])
        BY <4>1, <4>2, <4>3
      <4> QED
        BY <2>2, <4>4 DEF EslabonesCiertos, Bloqueados
    <3>2. L[1].pid = Analizado /\ L[1].clave_pedida = deadlock[1].clave_pedida
          /\ L[1].clave_tomada = Pedida
      BY <2>1, LemaMostrada DEF TypeOK
    <3>3. \A h \in 2..n : L[h] = deadlock[h]
      BY <2>1, <3>0, LemaMostrada, LemaAgregada
    <3>4. L[n + 1] = [pid |-> Dueno, clave_pedida |-> Pedida, clave_tomada |-> Tomada]
      BY <2>1, <3>0, LemaMostrada, LemaAgregada
    <3>5. /\ \A h \in 1..n :
               /\ deadlock[h].pid \in Bloqueados
               /\ clave[deadlock[h].pid] = deadlock[h].clave_pedida
          /\ \A h \in 2..n :
               /\ deadlock[h].clave_tomada \in Claves
               /\ dueno[deadlock[h].clave_tomada] = deadlock[h].pid
               /\ deadlock[h - 1].clave_pedida = deadlock[h].clave_tomada
      BY <2>1, <3>0 DEF Cadena
    <3>6. L[j].pid \in Bloqueados /\ clave[L[j].pid] = L[j].clave_pedida
      <4>1. CASE j = 1
        BY <2>1, <3>0, <3>2, <3>5, <4>1 DEF TypeOK
      <4>2. CASE j \in 2..n
        BY <3>0, <3>3, <3>5, <4>2
      <4>3. CASE j = n + 1
        BY <2>1, <3>4, <4>3, LemaTurno DEF Pedida
      <4> QED
        BY <3>0, <4>1, <4>2, <4>3
    <3>7. L[j].clave_tomada \in Claves /\ dueno[L[j].clave_tomada] = L[j].pid
      <4>1. CASE j = 1
        BY <2>1, <3>2, <4>1, LemaTurno
      <4>2. CASE j \in 2..n
        BY <3>0, <3>3, <3>5, <4>2
      <4>3. CASE j = n + 1
        BY <2>1, <3>4, <4>3, LemaTurno DEF Dueno
      <4> QED
        BY <3>0, <4>1, <4>2, <4>3
    <3>8. \A h \in 1..n : L[h].clave_pedida = deadlock[h].clave_pedida
      <4> TAKE h \in 1..n
      <4>1. CASE h = 1
        BY <3>2, <4>1
      <4>2. CASE h \in 2..n
        BY <3>3, <4>2
      <4> QED
        BY <3>0, <4>1, <4>2
    <3>9. L[j].clave_pedida = L[IF j = n + 1 THEN 1 ELSE j + 1].clave_tomada
      <4>1. CASE j = n + 1
        BY <3>2, <3>4, <4>1
      <4>2. CASE j = n
        <5>0. n \in Nat \ {0}
          BY <3>0
        <5>1. j + 1 = n + 1 /\ j # n + 1 /\ j \in 1..n
          <6> HIDE DEF n
          <6> QED BY <4>2, <5>0
        <5>2. deadlock[n].clave_pedida = Tomada
          BY <2>1, LemaTurno
        <5> QED
          BY <3>4, <3>8, <4>2, <5>1, <5>2
      <4>3. CASE j \in 1..(n - 1)
        <5>1. j + 1 \in 2..n /\ j # n + 1 /\ j \in 1..n /\ (j + 1) - 1 = j
          BY <3>0, <4>3
        <5>2. deadlock[j].clave_pedida = deadlock[j + 1].clave_tomada
          BY <3>5, <5>1
        <5> QED
          BY <3>3, <3>8, <5>1, <5>2
      <4> QED
        BY <3>0, <4>1, <4>2, <4>3
    <3> QED
      BY <3>6, <3>7, <3>9
  <2> QED
    BY <2>3, <2>4, <2>5
<1>7. CASE Seguir
  <2>1. DuenoBloqueado /\ deadlock' = Agregada /\ pc' = pc /\ pc = "while"
        /\ UNCHANGED <<bloqueados, clave, dueno, i, lista_deadlocks>>
    BY <1>7 DEF Seguir, DuenoBloqueado, listas
  <2>2. EslabonesCiertos'
    BY <2>1 DEF EslabonesCiertos, Bloqueados
  <2> DEFINE n == Len(deadlock)
  <2>3. n \in Nat \ {0} /\ DOMAIN deadlock = 1..n /\ deadlock'[1] = deadlock[1]
    BY <2>1, LemaTurno, LemaAgregada DEF TypeOK
  <2>4. TypeOK'
    BY <2>1, <2>3, LemaAgregada DEF TypeOK, Analizado
  <2>5. Cadena'
    <3>1. SUFFICES
            /\ \A j \in 1..(n + 1) :
                 /\ Agregada[j].pid \in Bloqueados
                 /\ clave[Agregada[j].pid] = Agregada[j].clave_pedida
                 /\ Agregada[j].clave_pedida \in Claves
            /\ \A j \in 2..(n + 1) :
                 /\ Agregada[j].clave_tomada \in Claves
                 /\ dueno[Agregada[j].clave_tomada] = Agregada[j].pid
                 /\ Agregada[j - 1].clave_pedida = Agregada[j].clave_tomada
      BY <2>1, LemaAgregada DEF Cadena, Bloqueados
    <3>2. \A j \in 1..n : Agregada[j] = deadlock[j]
      BY <2>1, LemaAgregada
    <3>3. Agregada[n + 1] = [pid |-> Dueno, clave_pedida |-> Pedida, clave_tomada |-> Tomada]
      BY <2>1, LemaAgregada
    <3>4. ASSUME NEW j \in 1..(n + 1)
          PROVE  /\ Agregada[j].pid \in Bloqueados
                 /\ clave[Agregada[j].pid] = Agregada[j].clave_pedida
                 /\ Agregada[j].clave_pedida \in Claves
      <4>1. CASE j \in 1..n
        BY <2>1, <2>3, <3>2, <4>1 DEF Cadena
      <4>2. CASE j = n + 1
        BY <2>1, <3>3, <4>2, LemaTurno DEF Pedida
      <4> QED
        BY <2>3, <4>1, <4>2
    <3>5. ASSUME NEW j \in 2..(n + 1)
          PROVE  /\ Agregada[j].clave_tomada \in Claves
                 /\ dueno[Agregada[j].clave_tomada] = Agregada[j].pid
                 /\ Agregada[j - 1].clave_pedida = Agregada[j].clave_tomada
      <4>1. CASE j \in 2..n
        <5>1. j \in 1..n /\ j - 1 \in 1..n /\ j \in DOMAIN deadlock \ {1}
          BY <2>3, <4>1
        <5> QED
          BY <2>1, <3>2, <5>1 DEF Cadena
      <4>2. CASE j = n + 1
        <5>1. j - 1 = n /\ n \in 1..n
          BY <2>3, <4>2
        <5> QED
          BY <2>1, <3>2, <3>3, <4>2, <5>1, LemaTurno DEF Dueno
      <4> QED
        BY <2>3, <4>1, <4>2
    <3> QED
      BY <3>4, <3>5
  <2> QED
    BY <2>2, <2>4, <2>5
<1>8. CASE UNCHANGED vars
  BY <1>8 DEF vars, TypeOK, Cadena, EslabonesCiertos, Analizado, Bloqueados
<1> QED
  BY <1>1, <1>2, <1>3, <1>4, <1>5, <1>6, <1>7, <1>8 DEF Next

\* The indices stay in their lists, and the lists hold what they should.
THEOREM Tipos == Spec => []TypeOK
<1>1. Init => IInv
  BY LemaInit
<1>2. IInv /\ [Next]_vars => IInv'
  BY LemaPaso
<1>3. IInv => TypeOK
  BY DEF IInv
<1> QED
  BY <1>1, <1>2, <1>3, PTL DEF Spec

\* Every list that consola_consultar_deadlock shows is a deadlock: its ESIs are blocked,
\* each by a key that the next one holds, the last one by a key of the first.
THEOREM LoMostradoEsDeadlock == Spec => []EslabonesCiertos
<1>1. Init => IInv
  BY LemaInit
<1>2. IInv /\ [Next]_vars => IInv'
  BY LemaPaso
<1>3. IInv => EslabonesCiertos
  BY DEF IInv
<1> QED
  BY <1>1, <1>2, <1>3, PTL DEF Spec

(***************************************************************************)
(* No ESI in two lists.                                                    *)
(***************************************************************************)
LEMMA LemaPasoUna ==
  IInv /\ NoSale /\ EnUnoSolo /\ [Next]_vars => NoSale' /\ EnUnoSolo'
<1> SUFFICES ASSUME IInv, NoSale, EnUnoSolo, [Next]_vars
             PROVE  NoSale' /\ EnUnoSolo'
  OBVIOUS
<1> USE DEF IInv
<1>1. CASE Saltear
  BY <1>1 DEF Saltear, NoSale, EnUnoSolo
<1>2. CASE Analizar
  <2>1. EnUnoSolo'
    BY <1>2 DEF Analizar, EnUnoSolo
  <2>2. CASE pc' = "nulo"
    BY <2>1, <2>2 DEF NoSale
  <2>3. CASE pc' # "nulo"
    <3>1. /\ deadlock' = <<[pid |-> Analizado, clave_pedida |-> clave[Analizado],
                           clave_tomada |-> Ninguna]>>
          /\ UNCHANGED <<bloqueados, i, lista_deadlocks>>
      BY <1>2, <2>3 DEF Analizar, listas
    <3>2. \A m \in DOMAIN lista_deadlocks : Analizado \notin Pids(lista_deadlocks[m])
      BY <1>2 DEF Analizar, buscar_esi_en_deadlock
    <3>3. Analizado' = Analizado
      BY <3>1 DEF Analizado
    <3>4. \A j \in DOMAIN deadlock' : deadlock'[j].pid = Analizado
      BY <3>1
    <3>5. \A m \in DOMAIN lista_deadlocks' :
            /\ Analizado' \notin Pids(lista_deadlocks'[m])
            /\ \A j \in DOMAIN deadlock' : deadlock'[j].pid \notin Pids(lista_deadlocks'[m])
      BY <3>1, <3>2, <3>3, <3>4
    <3>6. NoSale'
      BY <3>5 DEF NoSale, Pids
    <3> QED
      BY <2>1, <3>6
  <2> QED
    BY <2>2, <2>3
<1>3. CASE Mostrar
  BY <1>3 DEF Mostrar, NoSale, EnUnoSolo
<1>4. CASE SinRegistro
  BY <1>4 DEF SinRegistro, Abandonar, NoSale, EnUnoSolo
<1>5. CASE DuenoNoBloqueado
  BY <1>5 DEF DuenoNoBloqueado, NoSale, EnUnoSolo
<1>6. CASE Encontrar
  <2>1. DuenoBloqueado /\ dueno[Pedida] = Analizado /\ pc = "while"
    BY <1>6 DEF Encontrar, Cierra, DuenoBloqueado
  <2>2. lista_deadlocks' = Append(lista_deadlocks, Mostrada) /\ pc' = "for"
    BY <1>6 DEF Encontrar, Mostrada
  <2>3. NoSale'
    BY <2>2 DEF NoSale
  <2> DEFINE n == Len(deadlock)
  <2>4. n \in Nat \ {0} /\ DOMAIN Mostrada = 1..(n + 1) /\ DOMAIN deadlock = 1..n
    BY <2>1, LemaTurno, LemaMostrada DEF TypeOK
  <2>5. \A j \in 1..n : Mostrada[j].pid = deadlock[j].pid
    <3> TAKE j \in 1..n
    <3>1. CASE j = 1
      BY <2>1, <3>1, LemaMostrada
    <3>2. CASE j \in 2..n
      BY <2>1, <2>4, <3>2, LemaMostrada, LemaAgregada
    <3> QED
      BY <2>4, <3>1, <3>2
  <2>6. Mostrada[n + 1].pid = Dueno
    BY <2>1, <2>4, LemaMostrada, LemaAgregada
  <2>7. ASSUME NEW m \in DOMAIN lista_deadlocks
        PROVE  Pids(lista_deadlocks[m]) \cap Pids(Mostrada) = {}
    <3> DEFINE P == Pids(lista_deadlocks[m])
    <3>1. Analizado \notin P
          /\ \A j \in 1..n : deadlock[j].pid \in P => esi_aux \in P
      BY <2>1, <2>4 DEF NoSale
    <3>2. Dueno \notin P
      <4> SUFFICES ASSUME Dueno \in P PROVE FALSE
        OBVIOUS
      <4>1. dueno[clave[Dueno]] \in P
        BY LemaCerrada
      <4> QED
        BY <2>1, <3>1, <4>1 DEF Pedida
    <3>3. esi_aux \notin P
      <4> SUFFICES ASSUME esi_aux \in P PROVE FALSE
        OBVIOUS
      <4>1. dueno[clave[esi_aux]] \in P
        BY LemaCerrada
      <4> QED
        BY <3>2, <4>1 DEF Dueno, Tomada
    <3>4. \A j \in 1..(n + 1) : Mostrada[j].pid \notin P
      BY <2>4, <2>5, <2>6, <3>1, <3>2, <3>3
    <3> QED
      BY <2>4, <3>4 DEF Pids
  <2>8. EnUnoSolo'
    <3> DEFINE N == Len(lista_deadlocks)
    <3>1. /\ N \in Nat /\ DOMAIN lista_deadlocks = 1..N /\ DOMAIN lista_deadlocks' = 1..(N + 1)
          /\ \A m \in 1..N : lista_deadlocks'[m] = lista_deadlocks[m]
          /\ lista_deadlocks'[N + 1] = Mostrada
      BY <2>1, <2>2, LemaMostrada DEF TypeOK
    <3>2. ASSUME NEW m \in 1..(N + 1), NEW q \in 1..(N + 1), m # q
          PROVE  Pids(lista_deadlocks'[m]) \cap Pids(lista_deadlocks'[q]) = {}
      <4>1. CASE m \in 1..N /\ q \in 1..N
        BY <3>1, <3>2, <4>1 DEF EnUnoSolo
      <4>2. CASE m = N + 1 /\ q \in 1..N
        BY <2>7, <3>1, <4>2
      <4>3. CASE m \in 1..N /\ q = N + 1
        BY <2>7, <3>1, <4>3
      <4> QED
        BY <3>1, <3>2, <4>1, <4>2, <4>3
    <3>3. \A m, q \in DOMAIN lista_deadlocks' :
            m # q => Pids(lista_deadlocks'[m]) \cap Pids(lista_deadlocks'[q]) = {}
      BY <3>1, <3>2
    <3> QED
      BY <3>3 DEF EnUnoSolo, Pids
  <2> QED
    BY <2>3, <2>8
<1>7. CASE Seguir
  <2>1. DuenoBloqueado /\ deadlock' = Agregada /\ pc = "while"
        /\ UNCHANGED <<bloqueados, i, lista_deadlocks>>
    BY <1>7 DEF Seguir, DuenoBloqueado, listas
  <2>2. EnUnoSolo'
    BY <2>1 DEF EnUnoSolo
  <2> DEFINE n == Len(deadlock)
  <2>3. n \in Nat \ {0} /\ DOMAIN deadlock = 1..n
    BY <2>1, LemaTurno DEF TypeOK
  <2>4. DOMAIN deadlock' = 1..(n + 1) /\ Len(deadlock') = n + 1
        /\ (\A j \in 1..n : deadlock'[j] = deadlock[j]) /\ deadlock'[n + 1].pid = Dueno
    BY <2>1, LemaAgregada
  <2>5. esi_aux' = Dueno
    BY <2>4 DEF esi_aux
  <2>6. ASSUME NEW m \in DOMAIN lista_deadlocks, NEW j \in 1..(n + 1),
               deadlock'[j].pid \in Pids(lista_deadlocks[m])
        PROVE  Dueno \in Pids(lista_deadlocks[m])
    <3>1. CASE j \in 1..n
      <4>1. esi_aux \in Pids(lista_deadlocks[m])
        BY <2>1, <2>3, <2>4, <2>6, <3>1 DEF NoSale
      <4> QED
        BY <4>1, LemaCerrada DEF Dueno, Tomada
    <3>2. CASE j = n + 1
      BY <2>4, <2>6, <3>2
    <3> QED
      BY <2>3, <3>1, <3>2
  <2>7. \A m \in DOMAIN lista_deadlocks : Analizado \notin Pids(lista_deadlocks[m])
    BY <2>1 DEF NoSale
  <2>8. Analizado' = Analizado
    BY <2>1 DEF Analizado
  <2>9. \A m \in DOMAIN lista_deadlocks' :
          /\ Analizado' \notin Pids(lista_deadlocks'[m])
          /\ \A j \in DOMAIN deadlock' :
               deadlock'[j].pid \in Pids(lista_deadlocks'[m])
               => esi_aux' \in Pids(lista_deadlocks'[m])
    BY <2>1, <2>4, <2>5, <2>6, <2>7, <2>8
  <2>10. NoSale'
    BY <2>9 DEF NoSale, Pids
  <2> QED
    BY <2>2, <2>10
<1>8. CASE UNCHANGED vars
  BY <1>8 DEF vars, NoSale, EnUnoSolo, Analizado, esi_aux
<1> QED
  BY <1>1, <1>2, <1>3, <1>4, <1>5, <1>6, <1>7, <1>8 DEF Next

(***************************************************************************)
(* No ESI twice in a list.                                                 *)
(***************************************************************************)
\* Each element of the walk holds the key that the one before it waits for.
LEMMA LemaSeguido ==
  ASSUME TypeOK, Cadena, pc = "while", NEW j \in 1..(Len(deadlock) - 1)
  PROVE  dueno[clave[deadlock[j].pid]] = deadlock[j + 1].pid
<1>1. Len(deadlock) \in Nat /\ DOMAIN deadlock = 1..Len(deadlock)
  BY DEF TypeOK
<1>2. j \in DOMAIN deadlock /\ j + 1 \in DOMAIN deadlock \ {1} /\ (j + 1) - 1 = j
  BY <1>1
<1> QED BY <1>2 DEF Cadena

\* A walk that repeats an ESI leads only to those between the two.
LEMMA LemaAtrapado ==
  ASSUME TypeOK, Cadena, pc = "while",
         NEW a \in DOMAIN deadlock, NEW b \in DOMAIN deadlock,
         a < b, deadlock[a].pid = deadlock[b].pid,
         NEW e, \E j \in (a + 1)..b : e = deadlock[j].pid
  PROVE  \E j \in (a + 1)..b : dueno[clave[e]] = deadlock[j].pid
<1>1. Len(deadlock) \in Nat /\ DOMAIN deadlock = 1..Len(deadlock) /\ a \in Nat /\ b \in Nat
  BY DEF TypeOK
<1>2. PICK j \in (a + 1)..b : e = deadlock[j].pid
  OBVIOUS
<1>3. CASE j = b
  <2>1. a \in 1..(Len(deadlock) - 1) /\ a + 1 \in (a + 1)..b
    BY <1>1
  <2>2. dueno[clave[e]] = deadlock[a + 1].pid
    BY <1>2, <1>3, <2>1, LemaSeguido
  <2> QED BY <2>1, <2>2
<1>4. CASE j # b
  <2>1. j \in 1..(Len(deadlock) - 1) /\ j + 1 \in (a + 1)..b
    BY <1>1, <1>2, <1>4
  <2>2. dueno[clave[e]] = deadlock[j + 1].pid
    BY <1>2, <2>1, LemaSeguido
  <2> QED BY <2>1, <2>2
<1> QED BY <1>3, <1>4

LEMMA LemaPasoVez ==
  ASSUME IInv, SinVueltas, UnaVezEnSuLista, [Next]_vars
  PROVE  SinVueltas' /\ UnaVezEnSuLista'
<1> USE DEF IInv
<1>1. CASE Saltear
  BY <1>1 DEF Saltear, listas, SinVueltas, UnaVezEnSuLista
<1>2. CASE Analizar
  <2>1. UnaVezEnSuLista'
    BY <1>2 DEF Analizar, listas, UnaVezEnSuLista
  <2>2. CASE pc' = "nulo"
    BY <2>1, <2>2 DEF SinVueltas
  <2>3. CASE pc' # "nulo"
    <3>1. deadlock' = <<[pid |-> Analizado, clave_pedida |-> clave[Analizado],
                        clave_tomada |-> Ninguna]>>
      BY <1>2, <2>3 DEF Analizar
    <3>2. DOMAIN deadlock' = {1} /\ Len(deadlock') = 1
      BY <3>1
    <3>3. SinVueltas'
      BY <3>2 DEF SinVueltas
    <3> QED BY <2>1, <3>3
  <2> QED BY <2>2, <2>3
<1>3. CASE Mostrar
  BY <1>3 DEF Mostrar, listas, SinVueltas, UnaVezEnSuLista
<1>4. CASE SinRegistro
  BY <1>4 DEF SinRegistro, Abandonar, listas, SinVueltas, UnaVezEnSuLista
<1>5. CASE DuenoNoBloqueado
  BY <1>5 DEF DuenoNoBloqueado, listas, SinVueltas, UnaVezEnSuLista
<1>6. CASE Encontrar
  <2> DEFINE n == Len(deadlock)
             N == Len(lista_deadlocks)
  <2>1. DuenoBloqueado /\ dueno[clave[Dueno]] = Analizado /\ pc = "while"
    BY <1>6 DEF Encontrar, Cierra, DuenoBloqueado, Pedida
  <2>2. /\ lista_deadlocks' = Append(lista_deadlocks, Mostrada) /\ pc' = "for"
        /\ UNCHANGED <<bloqueados, clave, dueno>>
    BY <1>6 DEF Encontrar, Mostrada, listas
  <2>3. SinVueltas'
    BY <2>2 DEF SinVueltas
  <2>4. n \in Nat \ {0} /\ DOMAIN Mostrada = 1..(n + 1) /\ DOMAIN deadlock = 1..n
    BY <2>1, LemaTurno, LemaMostrada DEF TypeOK
  <2>5. \A j \in 1..n : Mostrada[j].pid = deadlock[j].pid
    <3> TAKE j \in 1..n
    <3>1. CASE j = 1
      BY <2>1, <3>1, LemaMostrada
    <3>2. CASE j \in 2..n
      BY <2>1, <2>4, <3>2, LemaMostrada, LemaAgregada
    <3> QED
      BY <2>4, <3>1, <3>2
  <2>6. Mostrada[n + 1].pid = Dueno /\ dueno[clave[esi_aux]] = Dueno /\ esi_aux = deadlock[n].pid
    BY <2>1, <2>4, LemaMostrada, LemaAgregada DEF Dueno, Tomada, esi_aux
  <2>7. \A j \in 2..n : deadlock[j].pid # Analizado
    BY <2>1, <2>4 DEF SinVueltas
  <2> HIDE DEF n
  <2>8. ASSUME NEW a \in 1..(n + 1), NEW b \in 1..(n + 1), a < b, Mostrada[a].pid = Mostrada[b].pid
        PROVE  dueno[clave[Mostrada[a].pid]] = Mostrada[a].pid
    <3>1. CASE b \in 1..n
      <4>1. a \in DOMAIN deadlock /\ b \in DOMAIN deadlock /\ deadlock[a].pid = deadlock[b].pid
        BY <2>4, <2>5, <2>8, <3>1
      <4>2. \E j \in (a + 1)..b : esi_aux = deadlock[j].pid
        BY <2>1, <2>8, <4>1 DEF SinVueltas
      <4>3. \E j \in (a + 1)..b : Dueno = deadlock[j].pid
        BY <2>1, <2>6, <2>8, <4>1, <4>2, LemaAtrapado
      <4>4. \E j \in (a + 1)..b : Analizado = deadlock[j].pid
        BY <2>1, <2>8, <4>1, <4>3, LemaAtrapado
      <4>5. \A j \in (a + 1)..b : j \in 2..n
        BY <2>4, <3>1
      <4> QED BY <2>7, <4>4, <4>5
    <3>2. CASE b = n + 1 /\ a = n
      BY <2>4, <2>5, <2>6, <2>8, <3>2
    <3>3. CASE b = n + 1 /\ a # n
      <4>1. a \in 1..n /\ a \in 1..(n - 1) /\ a + 1 \in 2..n
        BY <2>4, <2>8, <3>3
      <4>2. deadlock[a].pid = Dueno
        BY <2>5, <2>6, <2>8, <3>3, <4>1
      <4>3. dueno[clave[deadlock[a].pid]] = deadlock[a + 1].pid
        BY <2>1, <4>1, LemaSeguido DEF n
      <4> QED BY <2>1, <2>7, <4>1, <4>2, <4>3
    <3> QED BY <2>4, <3>1, <3>2, <3>3
  <2>9. UnaVezEnSuLista'
    <3>1. /\ N \in Nat /\ DOMAIN lista_deadlocks = 1..N /\ DOMAIN lista_deadlocks' = 1..(N + 1)
          /\ \A m \in 1..N : lista_deadlocks'[m] = lista_deadlocks[m]
          /\ lista_deadlocks'[N + 1] = Mostrada
      BY <2>1, <2>2, LemaMostrada DEF TypeOK
    <3> HIDE DEF N
    <3> DEFINE Bien(L) == \A a, b \in DOMAIN L :
                 a < b /\ L[a].pid = L[b].pid => dueno[clave[L[a].pid]] = L[a].pid
    <3>2. Bien(Mostrada)
      BY <2>4, <2>8
    <3>3. \A m \in 1..N : Bien(lista_deadlocks[m])
      BY <3>1 DEF UnaVezEnSuLista
    <3>4. \A m \in 1..(N + 1) : Bien(lista_deadlocks'[m])
      <4> TAKE m \in 1..(N + 1)
      <4>1. CASE m \in 1..N
        <5>1. lista_deadlocks'[m] = lista_deadlocks[m]
          BY <3>1, <4>1
        <5> QED BY <3>3, <4>1, <5>1
      <4>2. CASE m = N + 1
        BY <3>1, <3>2, <4>2
      <4> QED BY <3>1, <4>1, <4>2
    <3> QED BY <2>2, <3>1, <3>4 DEF UnaVezEnSuLista
  <2> QED BY <2>3, <2>9
<1>7. CASE Seguir
  <2> DEFINE n == Len(deadlock)
  <2>1. /\ DuenoBloqueado /\ deadlock' = Agregada /\ pc = "while" /\ dueno[Pedida] # Analizado
        /\ UNCHANGED <<bloqueados, clave, dueno, i, lista_deadlocks>>
    BY <1>7 DEF Seguir, DuenoBloqueado, listas, Cierra
  <2>2. UnaVezEnSuLista'
    BY <2>1 DEF UnaVezEnSuLista
  <2>3. n \in Nat \ {0} /\ DOMAIN deadlock = 1..n /\ deadlock[1].pid = Analizado
    BY <2>1, LemaTurno DEF TypeOK
  <2>4. DOMAIN deadlock' = 1..(n + 1) /\ Len(deadlock') = n + 1
        /\ (\A j \in 1..n : deadlock'[j] = deadlock[j]) /\ deadlock'[n + 1].pid = Dueno
    BY <2>1, LemaAgregada
  <2>5. /\ esi_aux' = Dueno /\ Analizado' = Analizado /\ dueno[clave[esi_aux]] = Dueno
        /\ esi_aux = deadlock[n].pid
    BY <2>1, <2>4 DEF esi_aux, Analizado, Dueno, Tomada
  <2>6. (dueno[Tomada])' # Analizado
    BY <2>1, <2>5 DEF Tomada, Pedida
  <2>7. Dueno # Analizado
    <3> SUFFICES ASSUME Dueno = Analizado PROVE FALSE
      OBVIOUS
    <3>1. n = 1
      BY <2>1 DEF SinVueltas, Dueno
    <3>2. Dueno = esi_aux
      BY <2>3, <2>5, <3>1
    <3> QED BY <2>1, <2>5, <3>2 DEF Pedida
  <2> HIDE DEF n
  <2>8. ASSUME NEW j \in 2..(n + 1) PROVE deadlock'[j].pid # Analizado
    <3>1. CASE j \in 2..n
      BY <2>1, <2>3, <2>4, <3>1 DEF SinVueltas
    <3>2. CASE j = n + 1
      BY <2>4, <2>7, <3>2
    <3> QED BY <2>3, <3>1, <3>2
  <2>9. ASSUME NEW a \in 1..(n + 1), NEW b \in 1..(n + 1), a < b,
               deadlock'[a].pid = deadlock'[b].pid
        PROVE  \E j \in (a + 1)..b : Dueno = deadlock'[j].pid
    <3>1. CASE b = n + 1
      <4>1. b \in (a + 1)..b
        BY <2>3, <2>9
      <4> QED BY <2>4, <3>1, <4>1
    <3>2. CASE b \in 1..n
      <4>1. a \in DOMAIN deadlock /\ b \in DOMAIN deadlock /\ deadlock[a].pid = deadlock[b].pid
        BY <2>3, <2>4, <2>9, <3>2
      <4>2. \E j \in (a + 1)..b : esi_aux = deadlock[j].pid
        BY <2>1, <2>9, <4>1 DEF SinVueltas
      <4>3. PICK j \in (a + 1)..b : Dueno = deadlock[j].pid
        BY <2>1, <2>5, <2>9, <4>1, <4>2, LemaAtrapado
      <4>4. j \in 1..n
        BY <2>3, <3>2, <4>3
      <4> QED BY <2>4, <4>3, <4>4
    <3> QED BY <2>3, <3>1, <3>2
  <2>10. SinVueltas'
    <3>1. \A j \in DOMAIN deadlock' \ {1} : deadlock'[j].pid # Analizado'
      BY <2>3, <2>4, <2>5, <2>8
    <3>2. \A a, b \in DOMAIN deadlock' :
            a < b /\ deadlock'[a].pid = deadlock'[b].pid
            => \E j \in (a + 1)..b : esi_aux' = deadlock'[j].pid
      BY <2>4, <2>5, <2>9
    <3> QED BY <2>5, <2>6, <3>1, <3>2 DEF SinVueltas
  <2> QED BY <2>2, <2>10
<1>8. CASE UNCHANGED vars
  BY <1>8 DEF vars, SinVueltas, UnaVezEnSuLista, Analizado, esi_aux, Tomada
<1> QED
  BY <1>1, <1>2, <1>3, <1>4, <1>5, <1>6, <1>7, <1>8 DEF Next

\* consola_consultar_deadlock shows no ESI in two deadlocks, because buscar_esi_en_deadlock
\* looks at every member of those shown, and none twice in a deadlock, because a walk that
\* repeats one never closes; but for an ESI that waits for a key of its own.
THEOREM NadieEnDosDeadlocks == Spec => []CadaUnoUnaVez
<1>1. Init => IInv /\ NoSale /\ SinVueltas /\ EnUnoSolo /\ UnaVezEnSuLista
  <2> SUFFICES ASSUME Init PROVE SinVueltas /\ UnaVezEnSuLista
    BY LemaInit
  <2> QED BY DEF Init, SinVueltas, UnaVezEnSuLista
<1>2. IInv /\ NoSale /\ SinVueltas /\ EnUnoSolo /\ UnaVezEnSuLista /\ [Next]_vars
      => IInv' /\ NoSale' /\ SinVueltas' /\ EnUnoSolo' /\ UnaVezEnSuLista'
  BY LemaPaso, LemaPasoUna, LemaPasoVez
<1>3. EnUnoSolo /\ UnaVezEnSuLista => CadaUnoUnaVez
  BY DEF CadaUnoUnaVez
<1> QED
  BY <1>1, <1>2, <1>3, PTL DEF Spec

(***************************************************************************)
(* Induction up to a number, from the library's well-founded order of the  *)
(* finite sets.                                                            *)
(***************************************************************************)
\* A set of natural numbers has a least one.
LEMMA Minimo ==
  ASSUME NEW S \in SUBSET Nat, S # {}
  PROVE  \E x \in S : \A y \in S : x <= y
<1> DEFINE U == {0..x : x \in S}
           R == StrictSubsetOrdering(Nat)
<1>1. IsWellFoundedOn(R, FiniteSubsetsOf(Nat))
  BY FS_StrictSubsetOrderingWellFounded
<1>2. U \subseteq FiniteSubsetsOf(Nat) /\ U # {}
  <2>1. \A x \in S : 0..x \in SUBSET Nat /\ IsFiniteSet(0..x)
    BY FS_Interval
  <2> QED BY <2>1 DEF FiniteSubsetsOf
<1> HIDE DEF R
<1>3. PICK u \in U : \A w \in U : ~(<<w, u>> \in R)
  BY <1>1, <1>2, WFMin
<1>4. PICK x \in S : u = 0..x
  OBVIOUS
<1>5. ASSUME NEW y \in S, y < x PROVE FALSE
  <2>1. /\ 0..y \in SUBSET Nat /\ 0..x \in SUBSET Nat
        /\ 0..y \subseteq 0..x /\ x \in 0..x /\ x \notin 0..y
    BY <1>5
  <2>2. <<0..y, 0..x>> \in StrictSubsetOrdering(Nat)
    BY <2>1 DEF StrictSubsetOrdering
  <2> QED BY <1>3, <1>4, <2>2 DEF R
<1> QED BY <1>5

\* What a has, and each number from a to b - 1 passes to the next, all of a..b have.
LEMMA Induccion ==
  ASSUME NEW a \in Nat, NEW b \in Nat, NEW P, a \in P, \A n \in a..(b - 1) : n \in P => n + 1 \in P
  PROVE  a..b \subseteq P
<1> SUFFICES ASSUME (a..b) \ P # {} PROVE FALSE
  OBVIOUS
<1> DEFINE Q == (a..b) \ P
<1>1. Q \in SUBSET Nat /\ Q # {}
  OBVIOUS
<1>2. PICK x \in Q : \A y \in Q : x <= y
  <2> HIDE DEF Q
  <2> QED BY <1>1, Minimo
<1>3. x # a /\ x - 1 \in a..(b - 1)
  OBVIOUS
<1>4. x - 1 \notin Q
  BY <1>2, <1>3
<1> QED BY <1>3, <1>4

(***************************************************************************)
(* Whom an ESI leads to, without counting turns.                           *)
(***************************************************************************)
\* An ESI, or what the table of keys says instead of one.
Titulares == ESIs \cup {Sistema, Libre}

\* The owner of the key that x waits for; who does not wait leads nowhere else.
Sigue(x) == IF Espera(x) THEN dueno[clave[x]] ELSE x

Turno == [x \in Titulares |-> Sigue(x)]

\* Nobody leads out of C.
Cerrado(g, C) == \A x \in C : g[x] \in C

\* x leads to y, in any number of turns: no set that x is in and that nobody leads
\* out of leaves y out.
Alcanza(g, x, y) == \A C \in SUBSET Titulares : x \in C /\ Cerrado(g, C) => y \in C

\* The ESI that is analysed leads to every element of the walk, and these to the last one.
Alcance ==
  pc = "while" =>
    \A j \in DOMAIN deadlock :
      /\ Alcanza(Turno, Analizado, deadlock[j].pid)
      /\ Alcanza(Turno, deadlock[j].pid, esi_aux)

\* In a deadlock that is shown every ESI leads to every other.
Vueltas ==
  \A m \in DOMAIN lista_deadlocks :
    /\ Pids(lista_deadlocks[m]) # {}
    /\ \A x, y \in Pids(lista_deadlocks[m]) : Alcanza(Turno, x, y)

\* Of the ESIs that the for loop has passed, those not shown lead to a key without record.
Vistos ==
  /\ \A j \in 1..(i - 1) :
       \/ Alcanza(Turno, bloqueados[j], Libre)
       \/ \E m \in DOMAIN lista_deadlocks : bloqueados[j] \in Pids(lista_deadlocks[m])
  /\ pc = "fin" => i > Len(bloqueados)

\* Where a turn of the search goes: to a holder, and no further than who is not an ESI.
LEMMA Siguiente ==
  ASSUME TypeOK
  PROVE  /\ \A x \in Titulares : Sigue(x) \in Titulares /\ Turno[x] = Sigue(x)
         /\ \A x \in Titulares \ ESIs : Sigue(x) = x
         /\ Bloqueados \subseteq ESIs
<1>1. Bloqueados \subseteq ESIs
  BY DEF TypeOK, Bloqueados, ToSet
<1>2. ASSUME NEW x \in Titulares PROVE Sigue(x) \in Titulares
  <2>1. CASE Espera(x)
    BY <1>1, <2>1 DEF TypeOK, Sigue, Espera, Titulares
  <2> QED BY <2>1 DEF Sigue
<1>3. ASSUME NEW x \in Titulares \ ESIs PROVE Sigue(x) = x
  BY <1>1 DEF Sigue, Espera
<1> QED BY <1>1, <1>2, <1>3 DEF Turno

\* To lead to is transitive.
LEMMA AlcanzaTransitiva ==
  ASSUME NEW g, NEW x, NEW y, NEW z, Alcanza(g, x, y), Alcanza(g, y, z)
  PROVE  Alcanza(g, x, z)
  BY DEF Alcanza

\* One more turn is still led to.
LEMMA AlcanzaSiguiente ==
  ASSUME NEW g, NEW x, NEW y, Alcanza(g, x, y)
  PROVE  Alcanza(g, x, x) /\ Alcanza(g, x, g[y])
  BY DEF Alcanza, Cerrado

\* The number of owners that Lleva counts up to.
Cota == Cardinality(ESIs)

\* It is a number: the ESIs are finitely many.
LEMMA CotaNat == Cota \in Nat
  BY NombresDistintos, FS_CardinalityType DEF Cota

\* Lleva is defined, and takes one turn at a time.
LEMMA LlevaEs ==
  ASSUME TypeOK
  PROVE  /\ Lleva \in [0..Cota -> [ESIs -> Titulares]]
         /\ \A e \in ESIs : Lleva[0][e] = e
         /\ \A n \in 1..Cota, e \in ESIs : Lleva[n][e] = Sigue(Lleva[n - 1][e])
<1> DEFINE K == Cota
           F == [ESIs -> Titulares]
           E(m, f) == [n \in 0..m |->
                     [e \in ESIs |-> IF n = 0 THEN e
                                     ELSE IF Espera(f[n - 1][e]) THEN dueno[clave[f[n - 1][e]]]
                                     ELSE f[n - 1][e]]]
           c == CHOOSE f : f = E(K, f)
           P == {m \in 0..K : \E f : f = E(m, f) /\ f \in [0..m -> F]}
<1>1. Lleva = c
  BY DEF Lleva, Cota
<1>2. K \in Nat
  BY CotaNat
<1> HIDE DEF K
<1>3. 0 \in P
  <2> DEFINE f == [n \in 0..0 |-> [e \in ESIs |-> e]]
  <2>1. f = E(0, f)
    OBVIOUS
  <2>2. f \in [0..0 -> F]
    BY DEF Titulares
  <2> HIDE DEF f, E
  <2> QED BY <1>2, <2>1, <2>2
<1>4. ASSUME NEW m \in 0..(K - 1), m \in P PROVE m + 1 \in P
  <2>1. PICK f : f = E(m, f) /\ f \in [0..m -> F]
    BY <1>4
  <2> DEFINE s == [e \in ESIs |-> Sigue(f[m][e])]
             h == [n \in 0..(m + 1) |-> IF n <= m THEN f[n] ELSE s]
  <2>2. f[m] \in F
    BY <1>2, <2>1
  <2>3. s \in F
    BY <2>2, Siguiente
  <2>4. h \in [0..(m + 1) -> F]
    BY <1>2, <2>1, <2>3
  <2>5. h = E(m + 1, h)
    <3>1. ASSUME NEW n \in 0..(m + 1)
          PROVE  h[n] = E(m + 1, h)[n]
      <4>1. CASE n = 0
        <5>0. f[0] = E(m, f)[0]
          <6> HIDE DEF E
          <6> QED BY <2>1
        <5>1. h[0] = f[0]
          BY <1>2
        <5>2. E(m, f)[0] = [e \in ESIs |-> e] /\ E(m + 1, h)[0] = [e \in ESIs |-> e]
          BY <1>2
        <5> HIDE DEF h, E
        <5> QED BY <4>1, <5>0, <5>1, <5>2
      <4>2. CASE n \in 1..m
        <5>0. f[n] = E(m, f)[n]
          <6> HIDE DEF E
          <6> QED BY <2>1
        <5>1. h[n] = f[n] /\ h[n - 1] = f[n - 1]
          BY <1>2, <4>2
        <5>2. E(m, f)[n] = [e \in ESIs |-> IF Espera(f[n - 1][e]) THEN dueno[clave[f[n - 1][e]]]
                                         ELSE f[n - 1][e]]
          BY <1>2, <4>2
        <5>3. E(m + 1, h)[n] = [e \in ESIs |-> IF Espera(h[n - 1][e]) THEN dueno[clave[h[n - 1][e]]]
                                         ELSE h[n - 1][e]]
          BY <1>2, <4>2
        <5> HIDE DEF h, E
        <5> QED BY <5>0, <5>1, <5>2, <5>3
      <4>3. CASE n = m + 1
        <5>1. h[n] = s /\ h[n - 1] = f[m] /\ n - 1 = m
          BY <1>2, <4>3
        <5>2. E(m + 1, h)[n] = [e \in ESIs |-> IF Espera(h[n - 1][e]) THEN dueno[clave[h[n - 1][e]]]
                                         ELSE h[n - 1][e]]
          BY <1>2, <4>3
        <5> HIDE DEF h, E
        <5> QED BY <5>1, <5>2 DEF Sigue
      <4> QED BY <1>2, <4>1, <4>2, <4>3
    <3>2. h = [n \in 0..(m + 1) |-> h[n]] /\ E(m + 1, h) = [n \in 0..(m + 1) |-> E(m + 1, h)[n]]
      OBVIOUS
    <3> HIDE DEF h, E
    <3> QED BY <3>1, <3>2
  <2> HIDE DEF h, E
  <2> QED BY <1>2, <2>4, <2>5
<1>5. K \in P
  <2> HIDE DEF P
  <2>1. 0..K \subseteq P
    BY <1>2, <1>3, <1>4, Induccion
  <2> QED BY <1>2, <2>1
<1>6. c = E(K, c)
  <2>1. \E f : f = E(K, f)
    BY <1>5
  <2> HIDE DEF E
  <2> QED BY <2>1
<1> HIDE DEF c
<1>7. /\ c[0] = [e \in ESIs |-> e]
      /\ \A n \in 1..K : c[n] = [e \in ESIs |-> Sigue(c[n - 1][e])]
  <2>1. \A n \in 0..K : c[n] = E(K, c)[n]
    <3> HIDE DEF E
    <3> QED BY <1>6
  <2>2. E(K, c)[0] = [e \in ESIs |-> e] /\ 0 \in 0..K
    BY <1>2
  <2>3. ASSUME NEW n \in 1..K PROVE c[n] = [e \in ESIs |-> Sigue(c[n - 1][e])]
    <3>1. n \in 0..K /\ n # 0
      BY <1>2
    <3>2. E(K, c)[n] = [e \in ESIs |-> IF Espera(c[n - 1][e]) THEN dueno[clave[c[n - 1][e]]]
                                     ELSE c[n - 1][e]]
      BY <3>1
    <3> HIDE DEF E
    <3> QED BY <2>1, <3>1, <3>2 DEF Sigue
  <2> HIDE DEF E
  <2> QED BY <2>1, <2>2, <2>3
<1>8. \A n \in 0..K : c[n] \in F
  <2> DEFINE Q == {n \in 0..K : c[n] \in F}
  <2>1. 0 \in Q
    <3>1. c[0] = [e \in ESIs |-> e] /\ 0 \in 0..K
      BY <1>2, <1>7
    <3> QED BY <3>1 DEF Titulares
  <2>2. ASSUME NEW n \in 0..(K - 1), n \in Q PROVE n + 1 \in Q
    <3>1. n + 1 \in 0..K /\ n + 1 \in 1..K /\ (n + 1) - 1 = n
      BY <1>2
    <3>2. c[n] \in F
      BY <2>2
    <3>3. c[n + 1] = [e \in ESIs |-> Sigue(c[n][e])]
      BY <1>7, <3>1
    <3>4. \A e \in ESIs : Sigue(c[n][e]) \in Titulares
      BY <3>2, Siguiente
    <3> QED BY <3>1, <3>3, <3>4
  <2> HIDE DEF Q
  <2>3. 0..K \subseteq Q
    BY <1>2, <2>1, <2>2, Induccion
  <2> QED BY <2>3 DEF Q
<1>9. c \in [0..K -> F]
  <2>1. c = [n \in 0..K |-> c[n]]
    BY <1>6
  <2> HIDE DEF F
  <2> QED BY <1>8, <2>1
<1>10. \A e \in ESIs : c[0][e] = e
  <2>1. c[0] = [e \in ESIs |-> e]
    BY <1>2, <1>7
  <2> QED BY <2>1
<1>11. ASSUME NEW n \in 1..K, NEW e \in ESIs PROVE c[n][e] = Sigue(c[n - 1][e])
  <2>1. c[n] = [x \in ESIs |-> Sigue(c[n - 1][x])]
    BY <1>7
  <2> QED BY <2>1
<1> QED BY <1>1, <1>9, <1>10, <1>11 DEF K

\* From somebody in a set that nobody leads out of, Lleva stays in it.
LEMMA LlevaDentro ==
  ASSUME TypeOK, NEW C \in SUBSET Titulares, Cerrado(Turno, C), NEW e \in ESIs, e \in C
  PROVE  \A n \in 0..Cota : Lleva[n][e] \in C
<1> DEFINE P == {n \in 0..Cota : Lleva[n][e] \in C}
<1>1. Cota \in Nat
  BY CotaNat
<1>2. 0 \in P
  BY <1>1, LlevaEs
<1>3. ASSUME NEW n \in 0..(Cota - 1), n \in P PROVE n + 1 \in P
  <2>1. n + 1 \in 1..Cota /\ n + 1 \in 0..Cota /\ (n + 1) - 1 = n
    BY <1>1
  <2>2. Lleva[n][e] \in C
    BY <1>3
  <2>3. Lleva[n + 1][e] = Sigue(Lleva[n][e])
    BY <2>1, LlevaEs
  <2>4. Sigue(Lleva[n][e]) \in C
    BY <2>2, Siguiente DEF Cerrado
  <2> QED BY <2>1, <2>3, <2>4
<1> HIDE DEF P
<1>4. 0..Cota \subseteq P
  BY <1>1, <1>2, <1>3, Induccion
<1> QED BY <1>4 DEF P

\* Who is not an ESI leads nowhere else.
LEMMA LlevaQuieta ==
  ASSUME TypeOK, NEW e \in ESIs, NEW n \in 0..Cota, Lleva[n][e] \notin ESIs
  PROVE  \A m \in n..Cota : Lleva[m][e] = Lleva[n][e]
<1> DEFINE P == {m \in n..Cota : Lleva[m][e] = Lleva[n][e]}
<1>1. Cota \in Nat /\ n \in Nat
  BY CotaNat
<1>2. n \in P
  BY <1>1
<1>3. Lleva[n][e] \in Titulares \ ESIs
  BY LlevaEs
<1>4. ASSUME NEW m \in n..(Cota - 1), m \in P PROVE m + 1 \in P
  <2>1. m + 1 \in 1..Cota /\ m + 1 \in n..Cota /\ (m + 1) - 1 = m
    BY <1>1
  <2>2. Lleva[m][e] = Lleva[n][e]
    BY <1>4
  <2>3. Lleva[m + 1][e] = Sigue(Lleva[m][e])
    BY <2>1, LlevaEs
  <2>4. Sigue(Lleva[n][e]) = Lleva[n][e]
    BY <1>3, Siguiente
  <2> QED BY <2>1, <2>2, <2>3, <2>4
<1> HIDE DEF P
<1>5. n..Cota \subseteq P
  BY <1>1, <1>2, <1>4, Induccion
<1> QED BY <1>5 DEF P

\* There are not ESIs enough for Lleva not to come to the same one twice.
LEMMA LlevaRepite ==
  ASSUME TypeOK, NEW e \in ESIs, \A n \in 0..Cota : Lleva[n][e] \in ESIs
  PROVE  \E b \in 1..Cota : Cerrado(Turno, {Lleva[n][e] : n \in 1..b})
<1> DEFINE f == [n \in 0..Cota |-> Lleva[n][e]]
<1>1. Cota \in Nat
  BY CotaNat
<1>2. f \in [0..Cota -> ESIs]
  OBVIOUS
<1>3. IsFiniteSet(0..Cota) /\ Cardinality(0..Cota) = Cota + 1 /\ Cota < Cardinality(0..Cota)
  BY <1>1, FS_Interval
<1>4. \E x, y \in 0..Cota : x # y /\ f[x] = f[y]
  <2> DEFINE D == 0..Cota
  <2>1. IsFiniteSet(ESIs) /\ Cardinality(ESIs) < Cardinality(D) /\ IsFiniteSet(D)
    BY <1>3, NombresDistintos DEF Cota
  <2>2. f \in [D -> ESIs]
    BY <1>2
  <2> HIDE DEF f, D
  <2>3. \E x, y \in D : x # y /\ f[x] = f[y]
    BY <2>1, <2>2, FS_PigeonHole
  <2> QED BY <2>3 DEF D
<1>5. PICK a \in 0..Cota, b \in 0..Cota : a < b /\ Lleva[a][e] = Lleva[b][e]
  BY <1>1, <1>4
<1>6. a + 1 \in 1..b /\ a + 1 \in 1..Cota /\ (a + 1) - 1 = a /\ b \in 1..Cota
  BY <1>1, <1>5
<1>7. ASSUME NEW n \in 1..b PROVE Turno[Lleva[n][e]] \in {Lleva[m][e] : m \in 1..b}
  <2>1. n \in 0..Cota
    BY <1>1, <1>6
  <2>2. Turno[Lleva[n][e]] = Sigue(Lleva[n][e])
    BY <2>1, Siguiente DEF Titulares
  <2>3. CASE n = b
    <3>1. Lleva[a + 1][e] = Sigue(Lleva[a][e])
      BY <1>6, LlevaEs
    <3> QED BY <1>5, <1>6, <2>2, <2>3, <3>1
  <2>4. CASE n # b
    <3>1. n + 1 \in 1..b /\ n + 1 \in 1..Cota /\ (n + 1) - 1 = n
      BY <1>1, <1>6, <2>4
    <3>2. Lleva[n + 1][e] = Sigue(Lleva[n][e])
      BY <3>1, LlevaEs
    <3> QED BY <2>2, <3>1, <3>2
  <2> QED BY <2>3, <2>4
<1> QED BY <1>6, <1>7 DEF Cerrado

\* ESIs that lead to each other and to nobody else are a deadlock, and Lleva goes
\* round it.
LEMMA EsCiclo ==
  ASSUME TypeOK, NEW P \in SUBSET ESIs, NEW e \in P,
         \A x \in P : Espera(x) /\ Sigue(x) \in P,
         \A x, y \in P : Alcanza(Turno, x, y)
  PROVE  EnCiclo(e) /\ {Lleva[n][e] : n \in 0..Cardinality(ESIs)} = P
<1>1. Cota \in Nat
  BY CotaNat
<1>2. P \in SUBSET Titulares /\ Cerrado(Turno, P)
  BY Siguiente DEF Titulares, Cerrado
<1>3. \A n \in 0..Cota : Lleva[n][e] \in P
  BY <1>2, LlevaDentro
<1>4. PICK b \in 1..Cota : Cerrado(Turno, {Lleva[n][e] : n \in 1..b})
  BY <1>3, LlevaRepite
<1> DEFINE C == {Lleva[n][e] : n \in 1..b}
<1>5. \A n \in 1..b : n \in 0..Cota
  BY <1>1
<1>6. C \in SUBSET Titulares /\ Lleva[1][e] \in C /\ Lleva[1][e] \in P
  <2>1. 1 \in 1..b /\ 1 \in 0..Cota
    BY <1>1
  <2> QED BY <1>2, <1>3, <1>5, <2>1
<1>7. P \subseteq C
  <2> HIDE DEF C
  <2> SUFFICES ASSUME NEW y \in P PROVE y \in C
    OBVIOUS
  <2>1. Alcanza(Turno, Lleva[1][e], y)
    BY <1>6
  <2> QED BY <1>4, <1>6, <2>1 DEF Alcanza, C
<1>8. PICK n \in 1..b : Lleva[n][e] = e
  BY <1>7
<1>9. EnCiclo(e)
  <2>1. DOMAIN Lleva = 0..Cota
    BY LlevaEs
  <2>2. n \in DOMAIN Lleva \ {0}
    BY <1>5, <2>1
  <2> QED BY <1>8, <2>2 DEF EnCiclo
<1>10. {Lleva[m][e] : m \in 0..Cota} = P
  BY <1>3, <1>5, <1>7
<1> QED BY <1>9, <1>10 DEF Cota

\* A member of a deadlock does not lead to a key without record.
LEMMA CicloNoLibre ==
  ASSUME TypeOK, NEW e \in ESIs, EnCiclo(e)
  PROVE  ~Alcanza(Turno, e, Libre)
<1>1. Cota \in Nat /\ DOMAIN Lleva = 0..Cota
  BY CotaNat, LlevaEs
<1>2. PICK n \in 1..Cota : Lleva[n][e] = e
  BY <1>1 DEF EnCiclo
<1> DEFINE C == {Lleva[m][e] : m \in 0..n}
<1>3. \A m \in 0..n : m \in 0..Cota /\ n \in m..Cota
  BY <1>1
<1>4. ASSUME NEW m \in 0..n PROVE Lleva[m][e] \in ESIs
  <2>1. ASSUME Lleva[m][e] \notin ESIs PROVE FALSE
    <3>1. Lleva[n][e] = Lleva[m][e]
      BY <1>3, <2>1, LlevaQuieta
    <3> QED BY <1>2, <2>1, <3>1
  <2> QED BY <2>1
<1>5. e \in C
  <2>1. 0 \in 0..n /\ Lleva[0][e] = e
    BY <1>1, LlevaEs
  <2> QED BY <2>1
<1>6. Cerrado(Turno, C)
  <2>1. ASSUME NEW m \in 0..n PROVE Turno[Lleva[m][e]] \in C
    <3>1. Turno[Lleva[m][e]] = Sigue(Lleva[m][e])
      BY <1>4, Siguiente DEF Titulares
    <3>2. CASE m = n
      <4>1. 1 \in 1..Cota /\ 1 \in 0..n /\ 1 - 1 = 0
        BY <1>1
      <4>2. Lleva[1][e] = Sigue(Lleva[0][e]) /\ Lleva[0][e] = e
        BY <4>1, LlevaEs
      <4> QED BY <1>2, <3>1, <3>2, <4>1, <4>2
    <3>3. CASE m # n
      <4>1. m + 1 \in 1..Cota /\ m + 1 \in 0..n /\ (m + 1) - 1 = m
        BY <1>1, <3>3
      <4>2. Lleva[m + 1][e] = Sigue(Lleva[m][e])
        BY <4>1, LlevaEs
      <4> QED BY <3>1, <4>1, <4>2
    <3> QED BY <3>2, <3>3
  <2> QED BY <2>1 DEF Cerrado
<1>7. C \subseteq ESIs
  BY <1>4
<1> HIDE DEF C
<1> QED BY <1>5, <1>6, <1>7, NombresDistintos DEF Alcanza, Titulares

\* Who leads to a key without record comes to it in as many turns as there are ESIs.
LEMMA LlegaALibre ==
  ASSUME TypeOK, NEW e \in ESIs, Alcanza(Turno, e, Libre)
  PROVE  LlevaAClaveLibre(e)
<1>1. Cota \in Nat /\ Lleva[0][e] = e
  BY CotaNat, LlevaEs
<1>2. CASE \A n \in 0..Cota : Lleva[n][e] \in ESIs
  <2>1. PICK b \in 1..Cota : Cerrado(Turno, {Lleva[n][e] : n \in 1..b})
    BY <1>2, LlevaRepite
  <2> DEFINE C == {Lleva[n][e] : n \in 1..b}
             D == C \cup {e}
  <2>2. C \subseteq ESIs
    <3>1. \A n \in 1..b : n \in 0..Cota
      BY <1>1
    <3> QED BY <1>2, <3>1
  <2>3. Turno[e] \in C
    <3>1. 1 \in 1..b /\ 1 \in 1..Cota /\ 1 - 1 = 0
      BY <1>1
    <3>2. Lleva[1][e] = Sigue(e)
      BY <1>1, <3>1, LlevaEs
    <3>3. Turno[e] = Sigue(e)
      BY Siguiente DEF Titulares
    <3> QED BY <3>1, <3>2, <3>3
  <2> HIDE DEF C
  <2>4. Cerrado(Turno, D)
    BY <2>1, <2>3 DEF Cerrado, C
  <2>5. Libre \in D
    BY <2>2, <2>4 DEF Alcanza, Titulares
  <2> QED BY <2>2, <2>5, NombresDistintos
<1>3. ASSUME NEW n \in 0..Cota, Lleva[n][e] \notin ESIs PROVE LlevaAClaveLibre(e)
  <2> DEFINE C == {Lleva[m][e] : m \in 0..n}
  <2>1. \A m \in 0..n : m \in 0..Cota /\ Lleva[m][e] \in Titulares
    BY <1>1, LlevaEs
  <2>2. Cerrado(Turno, C)
    <3>1. ASSUME NEW m \in 0..n PROVE Turno[Lleva[m][e]] \in C
      <4>1. Turno[Lleva[m][e]] = Sigue(Lleva[m][e])
        BY <2>1, Siguiente
      <4>2. CASE m = n
        BY <1>3, <2>1, <4>1, <4>2, Siguiente
      <4>3. CASE m # n
        <5>1. m + 1 \in 1..Cota /\ m + 1 \in 0..n /\ (m + 1) - 1 = m
          BY <1>1, <4>3
        <5>2. Lleva[m + 1][e] = Sigue(Lleva[m][e])
          BY <5>1, LlevaEs
        <5> QED BY <4>1, <5>1, <5>2
      <4> QED BY <4>2, <4>3
    <3> QED BY <3>1 DEF Cerrado
  <2>3. C \subseteq Titulares /\ e \in C
    <3>1. 0 \in 0..n
      OBVIOUS
    <3> QED BY <1>1, <2>1, <3>1
  <2>4. Libre \in C
    <3> HIDE DEF C
    <3> QED BY <2>2, <2>3 DEF Alcanza
  <2>5. PICK m \in 0..n : Lleva[m][e] = Libre
    BY <2>4
  <2>6. m \in 0..Cota /\ Cota \in m..Cota
    BY <1>1
  <2>7. Lleva[Cota][e] = Libre
    BY <2>5, <2>6, LlevaQuieta, NombresDistintos
  <2> QED BY <2>7 DEF LlevaAClaveLibre, Lejos, Cota
<1> QED BY <1>2, <1>3

(***************************************************************************)
(* All the deadlocks.                                                      *)
(***************************************************************************)
\* The walk, what was shown and what was passed over, together.
IFin == Alcance /\ Vueltas /\ Vistos

\* The lists do not change, so nobody leads to somebody else after a step.
LEMMA TurnoIgual ==
  ASSUME UNCHANGED listas
  PROVE  Turno' = Turno /\ Bloqueados' = Bloqueados
<1>1. Bloqueados' = Bloqueados
  BY DEF listas, Bloqueados
<1>2. \A x \in Titulares : Sigue(x)' = Sigue(x)
  BY <1>1 DEF Sigue, Espera, listas
<1> QED BY <1>1, <1>2 DEF Turno

\* What a turn of the while loop adds to what is known of the walk.
LEMMA LemaAlcance ==
  ASSUME IInv, Alcance, DuenoBloqueado
  PROVE  /\ Analizado \in ESIs
         /\ esi_aux \in Pids(deadlock) /\ Analizado \in Pids(deadlock)
         /\ Turno[esi_aux] = Dueno /\ Turno[Dueno] = dueno[Pedida]
         /\ \A x \in Pids(deadlock) : Alcanza(Turno, Analizado, x) /\ Alcanza(Turno, x, esi_aux)
         /\ Alcanza(Turno, Analizado, Dueno) /\ Alcanza(Turno, Dueno, Dueno)
         /\ \A x \in Pids(deadlock) : Alcanza(Turno, x, Dueno)
<1>0. TypeOK /\ Cadena /\ pc = "while" /\ Ninguna \notin Claves
  BY NombresDistintos DEF IInv, DuenoBloqueado
<1>1. /\ Len(deadlock) \in DOMAIN deadlock /\ 1 \in DOMAIN deadlock
      /\ deadlock[1].pid = Analizado
  BY <1>0 DEF TypeOK
<1>2. esi_aux \in Pids(deadlock) /\ Analizado \in Pids(deadlock)
  BY <1>1 DEF Pids, esi_aux
<1>3. Analizado \in ESIs
  BY <1>0 DEF TypeOK, Analizado
<1>4. Espera(esi_aux) /\ Espera(Dueno) /\ esi_aux \in Titulares /\ Dueno \in Titulares
  BY <1>0, LemaTurno, Siguiente DEF Espera, Titulares, Tomada, Pedida
<1>5. Turno[esi_aux] = Dueno /\ Turno[Dueno] = dueno[Pedida]
  BY <1>4 DEF Turno, Sigue, Dueno, Tomada, Pedida
<1>6. \A x \in Pids(deadlock) : Alcanza(Turno, Analizado, x) /\ Alcanza(Turno, x, esi_aux)
  BY <1>0 DEF Alcance, Pids
<1>7. \A x \in Pids(deadlock) : Alcanza(Turno, x, Dueno)
  BY <1>5, <1>6, AlcanzaSiguiente
<1>8. Alcanza(Turno, Dueno, Dueno)
  BY DEF Alcanza
<1> QED BY <1>2, <1>3, <1>5, <1>6, <1>7, <1>8

\* Every step keeps the three of them.
LEMMA LemaPasoFin ==
  ASSUME IInv, IFin, [Next]_vars
  PROVE  IFin'
<1>0. TypeOK /\ Cadena /\ Ninguna \notin Claves
  BY NombresDistintos DEF IInv
<1>1. Turno' = Turno /\ bloqueados' = bloqueados
  <2>1. UNCHANGED listas
    BY DEF Next, Saltear, Analizar, Mostrar, SinRegistro, DuenoNoBloqueado, Encontrar, Seguir,
           Abandonar, vars, listas
  <2> QED BY <2>1, TurnoIgual DEF listas
<1>2. CASE Saltear
  <2>1. /\ i' = i + 1 /\ lista_deadlocks' = lista_deadlocks /\ pc' = "for" /\ i \in Nat
        /\ \E m \in DOMAIN lista_deadlocks : bloqueados[i] \in Pids(lista_deadlocks[m])
    BY <1>0, <1>2 DEF Saltear, buscar_esi_en_deadlock, Analizado, TypeOK
  <2>2. Alcance' /\ Vueltas'
    BY <1>1, <2>1 DEF IFin, Alcance, Vueltas, Pids
  <2>3. Vistos'
    <3>1. \A j \in 1..(i' - 1) : j \in 1..(i - 1) \/ j = i
      BY <2>1
    <3> QED BY <1>1, <2>1, <3>1 DEF IFin, Vistos, Pids
  <2> QED BY <2>2, <2>3 DEF IFin
<1>3. CASE Analizar
  <2>1. i' = i /\ lista_deadlocks' = lista_deadlocks /\ pc' \in {"while", "nulo"}
    BY <1>3 DEF Analizar
  <2>2. Vueltas' /\ Vistos'
    BY <1>1, <2>1 DEF IFin, Vueltas, Vistos, Pids
  <2>3. Alcance'
    <3> SUFFICES ASSUME pc' = "while"
                 PROVE  \A j \in DOMAIN deadlock' :
                          /\ Alcanza(Turno', Analizado', deadlock'[j].pid)
                          /\ Alcanza(Turno', deadlock'[j].pid, esi_aux')
      BY DEF Alcance
    <3>1. deadlock' = <<[pid |-> Analizado, clave_pedida |-> clave[Analizado],
                        clave_tomada |-> Ninguna]>>
      BY <1>3 DEF Analizar
    <3>2. /\ DOMAIN deadlock' = {1} /\ Len(deadlock') = 1 /\ deadlock'[1].pid = Analizado
          /\ Analizado' = Analizado
      BY <1>1, <2>1, <3>1 DEF Analizado
    <3>3. Alcanza(Turno, Analizado, Analizado)
      BY DEF Alcanza
    <3> QED BY <1>1, <3>2, <3>3 DEF esi_aux
  <2> QED BY <2>2, <2>3 DEF IFin
<1>4. CASE Mostrar
  <2>1. i' = i /\ lista_deadlocks' = lista_deadlocks /\ pc' = "fin" /\ i > Len(bloqueados)
    BY <1>4 DEF Mostrar
  <2> QED BY <1>1, <2>1 DEF IFin, Alcance, Vueltas, Vistos, Pids
<1>5. CASE SinRegistro
  <2>1. i' = i + 1 /\ lista_deadlocks' = lista_deadlocks /\ pc' = "for" /\ i \in Nat /\ pc = "while"
    BY <1>0, <1>5 DEF SinRegistro, Abandonar, TypeOK
  <2>2. Alcance' /\ Vueltas'
    BY <1>1, <2>1 DEF IFin, Alcance, Vueltas, Pids
  <2>3. Alcanza(Turno, bloqueados[i], Libre)
    <3>1. CASE Dueno = Libre
      <4>1. Len(deadlock) \in DOMAIN deadlock
        BY <1>0, <2>1 DEF TypeOK
      <4>2. /\ Alcanza(Turno, Analizado, esi_aux)
            /\ Espera(esi_aux) /\ esi_aux \in Titulares
        BY <1>0, <2>1, <4>1, Siguiente DEF IFin, Alcance, esi_aux, Cadena, Espera, Titulares
      <4>3. Turno[esi_aux] = Libre
        BY <3>1, <4>2 DEF Turno, Sigue, Dueno, Tomada
      <4> QED BY <4>2, <4>3, AlcanzaSiguiente DEF Analizado
    <3>2. CASE DuenoBloqueado /\ dueno[Pedida] = Libre
      <4>1. Alcanza(Turno, Analizado, Dueno) /\ Turno[Dueno] = Libre
        BY <3>2, LemaAlcance DEF IFin
      <4> QED BY <4>1, AlcanzaSiguiente DEF Analizado
    <3> QED BY <1>5, <3>1, <3>2 DEF SinRegistro
  <2>4. Vistos'
    <3>1. \A j \in 1..(i' - 1) : j \in 1..(i - 1) \/ j = i
      BY <2>1
    <3> QED BY <1>1, <2>1, <2>3, <3>1 DEF IFin, Vistos, Pids
  <2> QED BY <2>2, <2>4 DEF IFin
<1>6. CASE DuenoNoBloqueado
  <2>1. i' = i /\ lista_deadlocks' = lista_deadlocks /\ pc' = "nulo"
    BY <1>6 DEF DuenoNoBloqueado
  <2> QED BY <1>1, <2>1 DEF IFin, Alcance, Vueltas, Vistos, Pids
<1>7. CASE Encontrar
  <2>1. DuenoBloqueado /\ dueno[Pedida] = Analizado /\ i \in Nat
    BY <1>0, <1>7 DEF Encontrar, Cierra, TypeOK
  <2>2. i' = i + 1 /\ pc' = "for" /\ lista_deadlocks' = Append(lista_deadlocks, Mostrada)
    BY <1>7 DEF Encontrar, Mostrada
  <2> DEFINE n == Len(deadlock)
             N == Len(lista_deadlocks)
             P == Pids(Mostrada)
  <2>3. /\ N \in Nat /\ DOMAIN lista_deadlocks = 1..N /\ DOMAIN lista_deadlocks' = 1..(N + 1)
        /\ \A m \in 1..N : lista_deadlocks'[m] = lista_deadlocks[m]
        /\ lista_deadlocks'[N + 1] = Mostrada
    BY <1>0, <2>1, <2>2, LemaMostrada DEF TypeOK
  <2>4. P = Pids(deadlock) \cup {Dueno}
    <3>1. n \in Nat \ {0} /\ DOMAIN Mostrada = 1..(n + 1) /\ DOMAIN deadlock = 1..n
      BY <1>0, <2>1, LemaTurno, LemaMostrada DEF TypeOK
    <3>2. \A j \in 1..n : Mostrada[j].pid = deadlock[j].pid
      <4> TAKE j \in 1..n
      <4>1. CASE j = 1
        BY <1>0, <2>1, <4>1, LemaMostrada
      <4>2. CASE j \in 2..n
        BY <1>0, <2>1, <3>1, <4>2, LemaMostrada, LemaAgregada
      <4> QED BY <3>1, <4>1, <4>2
    <3>3. Mostrada[n + 1].pid = Dueno
      BY <1>0, <2>1, <3>1, LemaMostrada, LemaAgregada
    <3> HIDE DEF n
    <3>4. \A j \in 1..(n + 1) : j \in 1..n \/ j = n + 1
      BY <3>1
    <3>5. \A j \in 1..n : j \in 1..(n + 1)
      BY <3>1
    <3>6. n + 1 \in 1..(n + 1)
      BY <3>1
    <3> QED BY <3>1, <3>2, <3>3, <3>4, <3>5, <3>6 DEF Pids
  <2>5. \A x, y \in P : Alcanza(Turno, x, y)
    <3>1. \A x \in P : Alcanza(Turno, Analizado, x)
      BY <2>1, <2>4, LemaAlcance DEF IFin
    <3>2. \A x \in P : Alcanza(Turno, x, Dueno)
      BY <2>1, <2>4, LemaAlcance DEF IFin
    <3>3. Turno[Dueno] = Analizado
      BY <2>1, LemaAlcance DEF IFin
    <3>4. \A x \in P : Alcanza(Turno, x, Analizado)
      BY <3>2, <3>3, AlcanzaSiguiente
    <3> HIDE DEF P
    <3> QED BY <3>1, <3>4, AlcanzaTransitiva
  <2>6. bloqueados[i] \in P
    BY <2>1, <2>4, LemaAlcance DEF IFin, Analizado
  <2> HIDE DEF P, N
  <2>7. Vueltas'
    <3>1. \A m \in DOMAIN lista_deadlocks' :
            /\ Pids(lista_deadlocks'[m]) # {}
            /\ \A x, y \in Pids(lista_deadlocks'[m]) : Alcanza(Turno, x, y)
      <4> SUFFICES ASSUME NEW m \in 1..(N + 1)
                   PROVE  /\ Pids(lista_deadlocks'[m]) # {}
                          /\ \A x, y \in Pids(lista_deadlocks'[m]) : Alcanza(Turno, x, y)
        BY <2>3
      <4>1. CASE m \in 1..N
        BY <2>3, <4>1 DEF IFin, Vueltas
      <4>2. CASE m = N + 1
        BY <2>3, <2>5, <2>6, <4>2 DEF P
      <4> QED BY <2>3, <4>1, <4>2
    <3> QED BY <1>1, <3>1 DEF Vueltas, Pids
  <2>8. Vistos'
    <3>1. \A j \in 1..(i' - 1) : j \in 1..(i - 1) \/ j = i
      BY <2>1, <2>2
    <3>2. bloqueados[i] \in Pids(lista_deadlocks'[N + 1]) /\ N + 1 \in DOMAIN lista_deadlocks'
      BY <2>3, <2>6 DEF P
    <3>3. ASSUME NEW m \in DOMAIN lista_deadlocks
          PROVE  m \in DOMAIN lista_deadlocks' /\ lista_deadlocks'[m] = lista_deadlocks[m]
      BY <2>3
    <3>4. \A j \in 1..(i' - 1) :
            \/ Alcanza(Turno, bloqueados[j], Libre)
            \/ \E m \in DOMAIN lista_deadlocks' : bloqueados[j] \in Pids(lista_deadlocks'[m])
      <4> TAKE j \in 1..(i' - 1)
      <4>1. CASE j = i
        BY <3>2, <4>1
      <4>2. CASE j \in 1..(i - 1)
        BY <3>3, <4>2 DEF IFin, Vistos
      <4> QED BY <3>1, <4>1, <4>2
    <3> QED BY <1>1, <2>2, <3>4 DEF Vistos, Pids
  <2>9. Alcance'
    BY <2>2 DEF Alcance
  <2> QED BY <2>7, <2>8, <2>9 DEF IFin
<1>8. CASE Seguir
  <2>1. DuenoBloqueado /\ deadlock' = Agregada /\ UNCHANGED <<i, lista_deadlocks, pc>>
    BY <1>8 DEF Seguir
  <2>2. Vueltas' /\ Vistos'
    BY <1>1, <2>1 DEF IFin, Vueltas, Vistos, Pids
  <2> DEFINE n == Len(deadlock)
  <2>3. /\ n \in Nat \ {0} /\ DOMAIN deadlock = 1..n
        /\ DOMAIN deadlock' = 1..(n + 1) /\ Len(deadlock') = n + 1
        /\ (\A j \in 1..n : deadlock'[j] = deadlock[j]) /\ deadlock'[n + 1].pid = Dueno
    BY <1>0, <2>1, LemaTurno, LemaAgregada DEF TypeOK
  <2>4. esi_aux' = Dueno /\ Analizado' = Analizado
    BY <1>1, <2>1, <2>3 DEF esi_aux, Analizado
  <2>5. ASSUME NEW j \in 1..(n + 1)
        PROVE  /\ Alcanza(Turno, Analizado, deadlock'[j].pid)
               /\ Alcanza(Turno, deadlock'[j].pid, Dueno)
    <3>1. CASE j \in 1..n
      <4>1. deadlock'[j].pid \in Pids(deadlock)
        BY <2>3, <3>1 DEF Pids
      <4> QED BY <2>1, <4>1, LemaAlcance DEF IFin
    <3>2. CASE j = n + 1
      BY <2>1, <2>3, <3>2, LemaAlcance DEF IFin
    <3> QED BY <2>3, <3>1, <3>2
  <2>6. Alcance'
    BY <1>1, <2>3, <2>4, <2>5 DEF Alcance
  <2> QED BY <2>2, <2>6 DEF IFin
<1>9. CASE UNCHANGED vars
  BY <1>1, <1>9 DEF vars, IFin, Alcance, Vueltas, Vistos, Pids, Analizado, esi_aux
<1> QED BY <1>2, <1>3, <1>4, <1>5, <1>6, <1>7, <1>8, <1>9 DEF Next

\* What is known of the walks says what the definition of a deadlock says.
LEMMA LemaFin ==
  ASSUME IInv, IFin
  PROVE  FinExacto
<1> DEFINE P(m) == Pids(lista_deadlocks[m])
           O(e) == {Lleva[n][e] : n \in 0..Cardinality(ESIs)}
<1>1. TypeOK /\ EslabonesCiertos
  BY DEF IInv
<1>2. ASSUME NEW m \in DOMAIN lista_deadlocks, NEW e \in P(m)
      PROVE  EnCiclo(e) /\ O(e) = P(m) /\ e \in ESIs
  <2>1. P(m) \subseteq Bloqueados
    BY <1>1 DEF EslabonesCiertos, Pids
  <2>2. P(m) \in SUBSET ESIs
    BY <1>1, <2>1, Siguiente
  <2>3. \A x \in P(m) : Espera(x) /\ Sigue(x) \in P(m)
    BY <1>1, <2>1, LemaCerrada, NombresDistintos DEF Espera, Sigue
  <2>4. \A x, y \in P(m) : Alcanza(Turno, x, y)
    BY DEF IFin, Vueltas
  <2> HIDE DEF P
  <2> QED BY <1>1, <1>2, <2>2, <2>3, <2>4, EsCiclo
<1>3. \A m \in DOMAIN lista_deadlocks : P(m) # {}
  BY DEF IFin, Vueltas
<1>4. SUFFICES ASSUME pc = "fin"
               PROVE  /\ {P(m) : m \in DOMAIN lista_deadlocks} = Ciclos
                      /\ \A e \in Bloqueados : EnCiclo(e) \/ LlevaAClaveLibre(e)
  BY DEF FinExacto
<1>5. ASSUME NEW e \in Bloqueados
      PROVE  Alcanza(Turno, e, Libre) \/ \E m \in DOMAIN lista_deadlocks : e \in P(m)
  <2>1. PICK j \in DOMAIN bloqueados : e = bloqueados[j]
    BY DEF Bloqueados, ToSet
  <2>2. j \in 1..(i - 1)
    BY <1>1, <1>4, <2>1 DEF IFin, Vistos, TypeOK
  <2> QED BY <2>1, <2>2 DEF IFin, Vistos
<1> HIDE DEF P
<1>6. ASSUME NEW e \in Bloqueados PROVE EnCiclo(e) \/ LlevaAClaveLibre(e)
  BY <1>1, <1>2, <1>5, LlegaALibre, Siguiente
<1>7. Ciclos = {O(e) : e \in {d \in ESIs : EnCiclo(d)}}
  BY DEF Ciclos
<1> HIDE DEF O
<1>8. ASSUME NEW m \in DOMAIN lista_deadlocks
      PROVE  P(m) \in {O(e) : e \in {d \in ESIs : EnCiclo(d)}}
  BY <1>2, <1>3
<1>9. ASSUME NEW e \in ESIs, EnCiclo(e)
      PROVE  \E m \in DOMAIN lista_deadlocks : O(e) = P(m)
  <2>1. e \in Bloqueados
    BY <1>9 DEF EnCiclo, Espera
  <2> QED BY <1>1, <1>2, <1>5, <1>9, <2>1, CicloNoLibre
<1> QED BY <1>6, <1>7, <1>8, <1>9

\* When consola_consultar_deadlock ends it has shown every deadlock there is, and the
\* ESIs it did not show wait, through others, for a key without record.
THEOREM MuestraTodos == Spec => []FinExacto
<1>1. Init => IInv /\ IFin
  <2> SUFFICES ASSUME Init PROVE IFin
    BY LemaInit
  <2> QED BY DEF Init, IFin, Alcance, Vueltas, Vistos
<1>2. IInv /\ IFin /\ [Next]_vars => IInv' /\ IFin'
  BY LemaPaso, LemaPasoFin
<1>3. IInv /\ IFin => FinExacto
  BY LemaFin
<1> QED
  BY <1>1, <1>2, <1>3, PTL DEF Spec
===============================================================================
