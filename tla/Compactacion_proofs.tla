-------------------------- MODULE Compactacion_proofs --------------------------
(***************************************************************************)
(* Theorems about Compactacion, for any Instancias, any threads of ESIs    *)
(* and any deaths: flag_thread always stands for a loop thread, and        *)
(* nothing of a compaction is left over when no round is under way.        *)
(*                                                                         *)
(* NadaSobra is about what is left at the end, and both semaphores may be  *)
(* anything in the middle.  What never changes is the account (Cuenta):    *)
(* each sem_wait() a thread owes and has already posted for is a post in   *)
(* semInstancias, a loop thread that took one, or a post in                *)
(* semInstanciasFin.  The waits that are owed are a set of pairs           *)
(* (Debidos), so that a step adds or removes one element of it.            *)
(***************************************************************************)
EXTENDS Compactacion, FiniteSetTheorems, TLAPS

\* The sem_wait() each thread owes, numbered, and has posted for.
Debidos == {p \in Hilos \X Nat : posts[p[1]] < p[2] /\ p[2] <= waits[p[1]]}

\* A round posts no more than it waits for, and owes nothing before and after.
Rondas ==
  \A h \in Hilos :
    /\ posts[h] <= waits[h]
    /\ ~ronda[h] => posts[h] = 0 /\ waits[h] = 0

Cuenta ==
  /\ IsFiniteSet(Debidos)
  /\ Cardinality(Debidos) = semInstancias + Cardinality(Atienden) + semInstanciasFin

IInv == TypeOK /\ Rondas /\ Cuenta

LEMMA LemaAtienden == IsFiniteSet(Atienden) /\ Cardinality(Atienden) \in Nat
<1>1. IsFiniteSet(1..MaxLazos)
  BY Cotas, FS_Interval
<1>2. IsFiniteSet(Lazos)
  BY <1>1, Cotas, FS_Product DEF Lazos
<1>3. IsFiniteSet(Atienden)
  BY <1>2, FS_Subset DEF Atienden
<1> QED
  BY <1>3, FS_CardinalityType

LEMMA LemaActivas == Cardinality(Activas) \in Nat
<1>1. IsFiniteSet(Activas)
  BY Cotas, FS_Subset DEF Activas
<1> QED
  BY <1>1, FS_CardinalityType

(***************************************************************************)
(* Types.                                                                  *)
(***************************************************************************)
LEMMA LemaTipos == TypeOK /\ [Next]_vars => TypeOK'
<1> SUFFICES ASSUME TypeOK, [Next]_vars PROVE TypeOK'
  OBVIOUS
<1> USE DEF TypeOK, Pasos
<1>1. ASSUME NEW n \in Instancias, Conectar(n) \/ Morir(n) \/ Chequear(n)
      PROVE  TypeOK'
  <2>1. CASE Conectar(n)
    <3>1. flag' \in [Instancias -> BOOLEAN] /\ lazo' \in [Lazos -> Pasos]
          /\ oyente' \in [Instancias -> BOOLEAN]
      <4>1. CASE flag[n]
        BY <2>1, <4>1 DEF Conectar
      <4>2. CASE ~flag[n]
        <5>1. PICK l \in Lazos : lazo' = [lazo EXCEPT ![l] = "espera"]
          BY <2>1, <4>2 DEF Conectar
        <5> QED
          BY <2>1, <4>2, <5>1 DEF Conectar
      <4> QED
        BY <4>1, <4>2
    <3>2. viva' \in [Instancias -> BOOLEAN] /\ vida' \in [Instancias -> Nat]
      BY <2>1 DEF Conectar
    <3>3. UNCHANGED <<conv, robada, semInstancias, semInstanciasFin, ronda, posts, waits, rondas,
                      estables, ordenes>>
      BY <2>1 DEF Conectar, hilo
    <3> QED
      BY <3>1, <3>2, <3>3
  <2>2. CASE Morir(n)
    BY <2>2 DEF Morir, hilo
  <2>3. CASE Chequear(n)
    BY <2>3 DEF Chequear, instancia, hilo
  <2> QED
    BY <1>1, <2>1, <2>2, <2>3
<1>2. ASSUME NEW l \in Lazos, Avanzar(l) \/ Robar(l)
      PROVE  TypeOK'
  <2>0. De(l) \in Instancias
    BY DEF De, Lazos
  <2>1. CASE Tomar(l)
    BY <2>1 DEF Tomar, Ir, instancia, hilo
  <2>2. CASE Ordenar(l)
    BY <2>0, <2>2 DEF Ordenar, Ir, instancia, hilo
  <2>3. CASE Desistir(l)
    BY <2>0, <2>3 DEF Desistir, Ir, Olvidar, instancia, hilo
  <2>4. CASE Responder(l)
    BY <2>4 DEF Responder, Ir, Olvidar, instancia, hilo
  <2>5. CASE Salir(l)
    BY <2>0, <2>5 DEF Salir, Ir, instancia, hilo
  <2>6. CASE Robar(l)
    BY <2>0, <2>6 DEF Robar, instancia, hilo
  <2> QED
    BY <1>2, <2>1, <2>2, <2>3, <2>4, <2>5, <2>6 DEF Avanzar
<1>3. ASSUME NEW h \in Hilos, Contar(h) \/ Ronda(h)
      PROVE  TypeOK'
  <2>1. CASE Contar(h)
    BY <2>1, LemaActivas DEF Contar, instancia, Activas
  <2>2. CASE Postear(h)
    BY <2>2 DEF Postear, instancia
  <2>3. CASE Esperar(h)
    BY <2>3 DEF Esperar, instancia
  <2>4. CASE Volver(h)
    BY <2>4 DEF Volver, instancia
  <2> QED
    BY <1>3, <2>1, <2>2, <2>3, <2>4 DEF Ronda
<1>4. CASE UNCHANGED vars
  BY <1>4 DEF vars
<1> QED
  BY <1>1, <1>2, <1>3, <1>4 DEF Next

LEMMA LemaTiposInit == Init => TypeOK
BY DEF Init, TypeOK, Pasos

\* The semaphores never go below zero, and every other variable has its type.
THEOREM Tipos == Spec => []TypeOK
BY LemaTiposInit, LemaTipos, PTL DEF Spec

(***************************************************************************)
(* flag_thread.                                                            *)
(***************************************************************************)
LEMMA LemaFlagPaso == TypeOK /\ FlagConLazo /\ [Next]_vars => FlagConLazo'
<1> SUFFICES ASSUME TypeOK, FlagConLazo, [Next]_vars,
                    NEW q \in Instancias, flag'[q]
             PROVE  \E l \in Lazos : De(l) = q /\ lazo'[l] \in {"espera", "turno", "compacta"}
  BY DEF FlagConLazo, Activas
<1> USE DEF TypeOK
<1>0. flag[q] => \E l \in Lazos : De(l) = q /\ lazo[l] \in {"espera", "turno", "compacta"}
  BY DEF FlagConLazo, Activas
<1>1. ASSUME UNCHANGED <<flag, lazo>>
      PROVE  \E l \in Lazos : De(l) = q /\ lazo'[l] \in {"espera", "turno", "compacta"}
  BY <1>0, <1>1
<1>2. ASSUME NEW n \in Instancias, Conectar(n)
      PROVE  \E l \in Lazos : De(l) = q /\ lazo'[l] \in {"espera", "turno", "compacta"}
  <2>1. CASE flag[n]
    BY <1>1, <1>2, <2>1 DEF Conectar
  <2>2. CASE ~flag[n]
    <3>1. PICK l \in Lazos : De(l) = n /\ lazo[l] = "no" /\ lazo' = [lazo EXCEPT ![l] = "espera"]
      BY <1>2, <2>2 DEF Conectar
    <3>2. flag' = [flag EXCEPT ![n] = TRUE]
      BY <1>2, <2>2 DEF Conectar
    <3>3. CASE q = n
      BY <3>1, <3>3
    <3>4. CASE q # n
      BY <1>0, <3>1, <3>2, <3>4
    <3> QED
      BY <3>3, <3>4
  <2> QED
    BY <2>1, <2>2
<1>3. ASSUME NEW n \in Instancias, Morir(n) \/ Chequear(n)
      PROVE  \E l \in Lazos : De(l) = q /\ lazo'[l] \in {"espera", "turno", "compacta"}
  <2>1. CASE Morir(n)
    BY <1>1, <2>1 DEF Morir
  <2>2. CASE Chequear(n)
    BY <1>0, <2>2 DEF Chequear
  <2> QED
    BY <1>3, <2>1, <2>2
<1>4. ASSUME NEW l \in Lazos, Tomar(l) \/ Ordenar(l) \/ Responder(l)
      PROVE  \E k \in Lazos : De(k) = q /\ lazo'[k] \in {"espera", "turno", "compacta"}
  <2>1. UNCHANGED flag /\ \E a \in {"espera", "turno", "compacta"} : lazo' = [lazo EXCEPT ![l] = a]
    BY <1>4 DEF Tomar, Ordenar, Responder, Ir
  <2> QED
    BY <1>0, <2>1
<1>5. ASSUME NEW l \in Lazos, Desistir(l) \/ Salir(l)
      PROVE  \E k \in Lazos : De(k) = q /\ lazo'[k] \in {"espera", "turno", "compacta"}
  <2>1. flag' = [flag EXCEPT ![De(l)] = FALSE] /\ \E a \in Pasos : lazo' = [lazo EXCEPT ![l] = a]
    BY <1>5 DEF Desistir, Salir, Ir, Pasos
  <2>2. De(l) \in Instancias /\ q # De(l) /\ flag[q]
    BY <2>1 DEF De, Lazos
  <2>3. PICK k \in Lazos : De(k) = q /\ lazo[k] \in {"espera", "turno", "compacta"}
    BY <1>0, <2>2
  <2>4. k # l /\ lazo'[k] = lazo[k]
    BY <2>1, <2>2, <2>3
  <2> QED
    BY <2>3, <2>4
<1>6. ASSUME NEW l \in Lazos, Robar(l)
      PROVE  \E k \in Lazos : De(k) = q /\ lazo'[k] \in {"espera", "turno", "compacta"}
  BY <1>1, <1>6 DEF Robar
<1>7. ASSUME NEW h \in Hilos, Contar(h) \/ Ronda(h)
      PROVE  \E k \in Lazos : De(k) = q /\ lazo'[k] \in {"espera", "turno", "compacta"}
  BY <1>1, <1>7 DEF Contar, Ronda, Postear, Esperar, Volver
<1>8. CASE UNCHANGED vars
  BY <1>1, <1>8 DEF vars
<1> QED
  BY <1>2, <1>3, <1>4, <1>5, <1>6, <1>7, <1>8 DEF Next, Avanzar

\* A post that indicarCompactacionATodasLasInstancias counts for an Instancia finds a
\* thread in loopInstancia for it, whoever died and came back before.
THEOREM ElFlagTieneHilo == Spec => []FlagConLazo
<1>1. Init => FlagConLazo
  BY DEF Init, FlagConLazo, Activas
<1> QED
  BY <1>1, LemaTiposInit, LemaTipos, LemaFlagPaso, PTL DEF Spec

(***************************************************************************)
(* The account of the semaphores.                                          *)
(***************************************************************************)
LEMMA LemaCuentaInit == Init => Rondas /\ Cuenta
<1> SUFFICES ASSUME Init PROVE Rondas /\ Cuenta
  OBVIOUS
<1>1. Rondas
  BY DEF Init, Rondas
<1>2. Debidos = {}
  BY DEF Init, Debidos
<1>3. Atienden = {}
  BY DEF Init, Atienden
<1>4. Cuenta
  BY <1>2, <1>3, FS_EmptySet DEF Init, Cuenta
<1> QED
  BY <1>1, <1>4

\* A step that changes neither the semaphores nor who owes and who attends.
LEMMA LemaIgual ==
  ASSUME Rondas, Cuenta, UNCHANGED <<semInstancias, semInstanciasFin, ronda, posts, waits>>,
         Atienden' = Atienden
  PROVE  Rondas' /\ Cuenta'
<1>1. Rondas'
  BY DEF Rondas
<1>2. Debidos' = Debidos
  BY DEF Debidos
<1> QED
  BY <1>1, <1>2 DEF Cuenta

\* A loop thread starts to attend, or ends, and nobody owes more or less.
LEMMA LemaEntra ==
  ASSUME NEW l \in Lazos, l \notin Atienden, Atienden' = Atienden \cup {l}
  PROVE  Cardinality(Atienden') = Cardinality(Atienden) + 1
BY LemaAtienden, FS_AddElement

LEMMA LemaSale ==
  ASSUME NEW l \in Lazos, l \in Atienden, Atienden' = Atienden \ {l}
  PROVE  Cardinality(Atienden') = Cardinality(Atienden) - 1
BY LemaAtienden, FS_RemoveElement

LEMMA LemaCuentaLazo ==
  ASSUME IInv, NEW l \in Lazos, Avanzar(l) \/ Robar(l)
  PROVE  Rondas' /\ Cuenta'
<1> USE DEF IInv
<1>1. UNCHANGED <<ronda, posts, waits>>
  BY DEF Avanzar, Tomar, Ordenar, Desistir, Responder, Salir, Robar, hilo
<1>2. Rondas' /\ Debidos' = Debidos
  BY <1>1 DEF Rondas, Debidos
<1>3. CASE Tomar(l)
  <2>1. l \notin Atienden /\ Atienden' = Atienden \cup {l}
    BY <1>3 DEF Tomar, Ir, Atienden, TypeOK
  <2>2. Cardinality(Atienden') = Cardinality(Atienden) + 1
    BY <2>1, LemaEntra
  <2> QED
    BY <1>2, <1>3, <2>2, LemaAtienden DEF Tomar, Cuenta, TypeOK
<1>4. CASE Desistir(l) \/ Responder(l)
  <2>1. l \in Atienden /\ Atienden' = Atienden \ {l}
    BY <1>4 DEF Desistir, Responder, Ir, Atienden, TypeOK
  <2>2. Cardinality(Atienden') = Cardinality(Atienden) - 1
    BY <2>1, LemaSale
  <2>3. semInstancias' = semInstancias /\ semInstanciasFin' = semInstanciasFin + 1
    BY <1>4 DEF Desistir, Responder
  <2>4. semInstancias \in Nat /\ semInstanciasFin \in Nat
    BY DEF TypeOK
  <2>5. Cardinality(Debidos) = semInstancias' + Cardinality(Atienden') + semInstanciasFin'
    BY <2>2, <2>3, <2>4, LemaAtienden DEF Cuenta
  <2> QED
    BY <1>2, <2>5 DEF Cuenta
<1>5. CASE Ordenar(l) \/ Salir(l) \/ Robar(l)
  <2>1. Atienden' = Atienden /\ UNCHANGED <<semInstancias, semInstanciasFin>>
    BY <1>5 DEF Ordenar, Salir, Robar, Ir, Atienden, TypeOK
  <2> QED
    BY <1>1, <2>1, LemaIgual
<1> QED
  BY <1>3, <1>4, <1>5 DEF Avanzar

LEMMA LemaCuentaRonda ==
  ASSUME IInv, NEW h \in Hilos, Contar(h) \/ Ronda(h)
  PROVE  Rondas' /\ Cuenta'
<1> USE DEF IInv
<1>0. Atienden' = Atienden
  BY DEF Contar, Ronda, Postear, Esperar, Volver, Atienden
<1>1. CASE Contar(h)
  <2>1. posts[h] = 0 /\ waits[h] = 0 /\ ~ronda[h]
    BY <1>1 DEF Contar, Rondas
  <2>2. /\ posts' = [posts EXCEPT ![h] = Cardinality(Activas)]
        /\ waits' = [waits EXCEPT ![h] = Cardinality(Activas)]
        /\ ronda' = [ronda EXCEPT ![h] = TRUE]
        /\ UNCHANGED <<semInstancias, semInstanciasFin>>
    BY <1>1 DEF Contar
  <2>3. Rondas'
    BY <2>2, LemaActivas DEF Rondas, TypeOK
  <2>4. Debidos' = Debidos
    <3> SUFFICES ASSUME NEW p \in Hilos \X Nat
                 PROVE  posts'[p[1]] < p[2] /\ p[2] <= waits'[p[1]]
                        <=> posts[p[1]] < p[2] /\ p[2] <= waits[p[1]]
      BY DEF Debidos
    <3>1. CASE p[1] = h
      BY <2>1, <2>2, <3>1, LemaActivas DEF TypeOK
    <3>2. CASE p[1] # h
      BY <2>2, <3>2 DEF TypeOK
    <3> QED
      BY <3>1, <3>2
  <2> QED
    BY <1>0, <2>2, <2>3, <2>4 DEF Cuenta
<1>2. CASE Postear(h)
  <2>1. /\ posts[h] > 0 /\ posts[h] \in Nat /\ waits[h] \in Nat /\ posts[h] <= waits[h]
        /\ posts' = [posts EXCEPT ![h] = posts[h] - 1]
        /\ semInstancias' = semInstancias + 1
        /\ UNCHANGED <<semInstanciasFin, ronda, waits>>
    BY <1>2 DEF Postear, Rondas, TypeOK
  <2>2. Rondas'
    BY <2>1 DEF Rondas, TypeOK
  <2> DEFINE nuevo == <<h, posts[h]>>
  <2>3. nuevo \notin Debidos
    BY <2>1 DEF Debidos
  <2>4. Debidos' = Debidos \cup {nuevo}
    <3>1. nuevo \in Hilos \X Nat /\ nuevo[1] = h /\ nuevo[2] = posts[h]
      BY <2>1
    <3>2. ASSUME NEW p \in Hilos \X Nat
          PROVE  posts'[p[1]] < p[2] /\ p[2] <= waits'[p[1]]
                 <=> (posts[p[1]] < p[2] /\ p[2] <= waits[p[1]]) \/ p = nuevo
      <4>1. CASE p[1] = h
        <5>1. posts'[h] = posts[h] - 1 /\ waits'[h] = waits[h] /\ p[2] \in Nat
          BY <2>1 DEF TypeOK
        <5>2. p = nuevo <=> p[2] = posts[h]
          BY <3>1, <4>1
        <5> QED
          BY <2>1, <4>1, <5>1, <5>2
      <4>2. CASE p[1] # h
        <5>1. posts'[p[1]] = posts[p[1]] /\ waits'[p[1]] = waits[p[1]] /\ p # nuevo
          BY <2>1, <3>1, <4>2 DEF TypeOK
        <5> QED
          BY <5>1
      <4> QED
        BY <4>1, <4>2
    <3> QED
      BY <3>1, <3>2 DEF Debidos
  <2>5. IsFiniteSet(Debidos') /\ Cardinality(Debidos') = Cardinality(Debidos) + 1
    BY <2>3, <2>4, FS_AddElement DEF Cuenta
  <2> QED
    BY <1>0, <2>1, <2>2, <2>5, LemaAtienden DEF Cuenta, TypeOK
<1>3. CASE Esperar(h)
  <2>1. /\ posts[h] = 0 /\ waits[h] > 0 /\ waits[h] \in Nat
        /\ waits' = [waits EXCEPT ![h] = waits[h] - 1]
        /\ semInstanciasFin > 0 /\ semInstanciasFin' = semInstanciasFin - 1
        /\ UNCHANGED <<semInstancias, ronda, posts>>
    BY <1>3 DEF Esperar, TypeOK
  <2>2. Rondas'
    BY <2>1 DEF Rondas, TypeOK
  <2> DEFINE pagado == <<h, waits[h]>>
  <2>3. pagado \in Debidos
    BY <2>1 DEF Debidos
  <2>4. Debidos' = Debidos \ {pagado}
    <3>1. pagado \in Hilos \X Nat /\ pagado[1] = h /\ pagado[2] = waits[h]
      BY <2>1
    <3>2. ASSUME NEW p \in Hilos \X Nat
          PROVE  posts'[p[1]] < p[2] /\ p[2] <= waits'[p[1]]
                 <=> (posts[p[1]] < p[2] /\ p[2] <= waits[p[1]]) /\ p # pagado
      <4>1. CASE p[1] = h
        <5>1. posts'[h] = posts[h] /\ waits'[h] = waits[h] - 1 /\ p[2] \in Nat
          BY <2>1 DEF TypeOK
        <5>2. p = pagado <=> p[2] = waits[h]
          BY <3>1, <4>1
        <5> QED
          BY <2>1, <4>1, <5>1, <5>2
      <4>2. CASE p[1] # h
        <5>1. posts'[p[1]] = posts[p[1]] /\ waits'[p[1]] = waits[p[1]] /\ p # pagado
          BY <2>1, <3>1, <4>2 DEF TypeOK
        <5> QED
          BY <5>1
      <4> QED
        BY <4>1, <4>2
    <3> QED
      BY <3>2 DEF Debidos
  <2>5. IsFiniteSet(Debidos') /\ Cardinality(Debidos') = Cardinality(Debidos) - 1
    BY <2>3, <2>4, FS_RemoveElement DEF Cuenta
  <2> QED
    BY <1>0, <2>1, <2>2, <2>5, LemaAtienden DEF Cuenta, TypeOK
<1>4. CASE Volver(h)
  <2>1. /\ waits[h] = 0 /\ posts[h] = 0 /\ ronda' = [ronda EXCEPT ![h] = FALSE]
        /\ UNCHANGED <<semInstancias, semInstanciasFin, posts, waits>>
    BY <1>4 DEF Volver, Rondas, TypeOK
  <2>2. Rondas'
    BY <2>1 DEF Rondas, TypeOK
  <2>3. Debidos' = Debidos
    BY <2>1 DEF Debidos
  <2> QED
    BY <1>0, <2>1, <2>2, <2>3 DEF Cuenta
<1> QED
  BY <1>1, <1>2, <1>3, <1>4 DEF Ronda

LEMMA LemaPaso == IInv /\ [Next]_vars => IInv'
<1> SUFFICES ASSUME IInv, [Next]_vars PROVE IInv'
  OBVIOUS
<1>1. TypeOK'
  BY LemaTipos DEF IInv
<1>2. ASSUME NEW n \in Instancias, Conectar(n) \/ Morir(n) \/ Chequear(n)
      PROVE  Rondas' /\ Cuenta'
  <2>1. UNCHANGED <<semInstancias, semInstanciasFin, ronda, posts, waits>>
    BY <1>2 DEF Conectar, Morir, Chequear, hilo
  <2>2. Atienden' = Atienden
    BY <1>2 DEF Conectar, Morir, Chequear, Atienden, IInv, TypeOK
  <2> QED
    BY <2>1, <2>2, LemaIgual DEF IInv
<1>3. CASE UNCHANGED vars
  <2>1. UNCHANGED <<semInstancias, semInstanciasFin, ronda, posts, waits>> /\ Atienden' = Atienden
    BY <1>3 DEF vars, Atienden
  <2> QED
    BY <1>1, <2>1, LemaIgual DEF IInv
<1> QED
  BY <1>1, <1>2, <1>3, LemaCuentaLazo, LemaCuentaRonda DEF Next, IInv

\* When no thread is in indicarCompactacionATodasLasInstancias, both semaphores are at
\* zero and no loop thread uses the socket of an Instancia.
THEOREM NadaSobraNunca == Spec => []NadaSobra
<1>1. Init => IInv
  BY LemaTiposInit, LemaCuentaInit DEF IInv
<1>2. IInv => NadaSobra
  <2> SUFFICES ASSUME IInv, EnRonda = {}
               PROVE  semInstancias = 0 /\ semInstanciasFin = 0 /\ Atienden = {}
    BY DEF NadaSobra
  <2>1. \A h \in Hilos : posts[h] = 0 /\ waits[h] = 0
    BY DEF IInv, EnRonda, Rondas
  <2>2. Debidos = {}
    BY <2>1 DEF Debidos
  <2>3. semInstancias + Cardinality(Atienden) + semInstanciasFin = 0
    BY <2>2, FS_EmptySet DEF IInv, Cuenta
  <2>4. semInstancias \in Nat /\ semInstanciasFin \in Nat
    BY DEF IInv, TypeOK
  <2>5. semInstancias = 0 /\ semInstanciasFin = 0 /\ Cardinality(Atienden) = 0
    BY <2>3, <2>4, LemaAtienden
  <2> QED
    BY <2>5, LemaAtienden, FS_EmptySet
<1> QED
  BY <1>1, <1>2, LemaPaso, PTL DEF Spec
===============================================================================
