----------------------------- MODULE Compactacion -----------------------------
(***************************************************************************)
(* How the Coordinador makes every Instancia compact, when one of them     *)
(* answers COMPACTAR to a SET:                                             *)
(* indicarCompactacionATodasLasInstancias (Coordinador.c), loopInstancia,  *)
(* chequearConectividadProceso and the connection of an Instancia          *)
(* (funcionesInstancia.c, Coordinador.c).                                  *)
(*                                                                         *)
(* The thread of the ESI counts the Instancias whose flag_thread is up,    *)
(* posts semInstancias that many times and waits for semInstanciasFin that *)
(* many times.  The loop thread of an Instancia takes a post, sends the    *)
(* order if the Instancia is connected, and posts semInstanciasFin.  The   *)
(* posts are not addressed to anybody, an Instancia may die and come back  *)
(* at any point, and its flag may be lowered by any thread that finds it   *)
(* disconnected while its loop thread still waits.                         *)
(***************************************************************************)
EXTENDS Integers, FiniteSets

CONSTANTS
  Instancias,   \* the Instancias, by name
  Hilos,        \* the threads of ESIs that may order a compaction
  PuedenMorir,  \* the Instancias that may die
  MaxRondas,    \* bound: compactions one thread orders
  MaxVidas,     \* bound: times an Instancia connects
  MaxLazos      \* bound: loop threads of one Instancia at the same time

ASSUME Cotas ==
  /\ IsFiniteSet(Instancias) /\ IsFiniteSet(Hilos)
  /\ PuedenMorir \subseteq Instancias
  /\ MaxRondas \in Nat /\ MaxVidas \in Nat /\ MaxLazos \in Nat

VARIABLES
  vida,      \* how many times each Instancia has connected
  viva,      \* the process of the Instancia is connected
  flag,      \* flag_thread
  oyente,    \* a thread of escucharMensajesEntrantes reads the same socket
  lazo,      \* where each thread in loopInstancia is
  conv,      \* the connection it sent its order through
  robada,    \* the answer it waits for was read by the other thread
  semInstancias,
  semInstanciasFin,
  ronda,     \* a thread is in indicarCompactacionATodasLasInstancias
  posts,     \* sem_post() it still has to do
  waits,     \* sem_wait() it still has to do
  \* History, read by properties only.
  rondas,    \* how many each thread has ordered
  estables,  \* Instancias counted by the round of each thread, and up ever since
  ordenes    \* compactions each of those was ordered since that round began

instancia == <<vida, viva, oyente>>
hilo == <<ronda, posts, waits, rondas>>
vars == <<vida, viva, flag, oyente, lazo, conv, robada, semInstancias, semInstanciasFin,
          ronda, posts, waits, rondas, estables, ordenes>>

Lazos == Instancias \X (1..MaxLazos)
De(l) == l[1]

Pasos == {"no", "espera", "turno", "compacta", "sale"}

\* The loop threads that have taken a post and have not answered it.
Atienden == {l \in Lazos : lazo[l] \in {"turno", "compacta"}}
Activas == {n \in Instancias : flag[n]}
EnRonda == {h \in Hilos : ronda[h]}

Init ==
  /\ vida = [n \in Instancias |-> 0]
  /\ viva = [n \in Instancias |-> FALSE]
  /\ flag = [n \in Instancias |-> FALSE]
  /\ oyente = [n \in Instancias |-> FALSE]
  /\ lazo = [l \in Lazos |-> "no"]
  /\ conv = [l \in Lazos |-> 0]
  /\ robada = [l \in Lazos |-> FALSE]
  /\ semInstancias = 0 /\ semInstanciasFin = 0
  /\ ronda = [h \in Hilos |-> FALSE]
  /\ posts = [h \in Hilos |-> 0] /\ waits = [h \in Hilos |-> 0]
  /\ rondas = [h \in Hilos |-> 0]
  /\ estables = [h \in Hilos |-> {}]
  /\ ordenes = [h \in Hilos |-> [n \in Instancias |-> 0]]

(***************************************************************************)
(* An Instancia.                                                           *)
(***************************************************************************)
\* interpretarOperacionInstancia: a thread enters loopInstancia, unless the flag
\* says that one is there; then it goes back to read the socket.
Conectar(n) ==
  /\ ~viva[n] /\ vida[n] < MaxVidas
  /\ viva' = [viva EXCEPT ![n] = TRUE]
  /\ vida' = [vida EXCEPT ![n] = @ + 1]
  /\ IF flag[n]
     THEN oyente' = [oyente EXCEPT ![n] = TRUE] /\ UNCHANGED <<flag, lazo>>
     ELSE /\ \E l \in Lazos :
               /\ De(l) = n /\ lazo[l] = "no"
               /\ lazo' = [lazo EXCEPT ![l] = "espera"]
          /\ flag' = [flag EXCEPT ![n] = TRUE]
          /\ UNCHANGED oyente
  /\ UNCHANGED <<conv, robada, semInstancias, semInstanciasFin, hilo, estables, ordenes>>

Morir(n) ==
  /\ n \in PuedenMorir /\ viva[n]
  /\ viva' = [viva EXCEPT ![n] = FALSE]
  /\ oyente' = [oyente EXCEPT ![n] = FALSE]
  /\ estables' = [h \in Hilos |-> estables[h] \ {n}]
  /\ ordenes' = [h \in Hilos |-> [ordenes[h] EXCEPT ![n] = 0]]
  /\ UNCHANGED <<vida, flag, lazo, conv, robada, semInstancias, semInstanciasFin, hilo>>

\* chequearConectividadProceso by the thread of an ESI or of the status command.
Chequear(n) ==
  /\ ~viva[n] /\ flag[n]
  /\ flag' = [flag EXCEPT ![n] = FALSE]
  /\ UNCHANGED <<instancia, lazo, conv, robada, semInstancias, semInstanciasFin, hilo,
                 estables, ordenes>>

(***************************************************************************)
(* A thread in loopInstancia.                                              *)
(***************************************************************************)
Ir(l, de, a) == lazo[l] = de /\ lazo' = [lazo EXCEPT ![l] = a]

\* The connection the thread reads its answer from is over.
Cortada(l) == ~viva[De(l)] \/ vida[De(l)] # conv[l]

Olvidar(l) ==
  /\ conv' = [conv EXCEPT ![l] = 0]
  /\ robada' = [robada EXCEPT ![l] = FALSE]

Tomar(l) ==
  /\ Ir(l, "espera", "turno")
  /\ semInstancias > 0
  /\ semInstancias' = semInstancias - 1
  /\ UNCHANGED <<instancia, flag, conv, robada, semInstanciasFin, hilo, estables, ordenes>>

\* Mutant: the end is also posted when the order is sent.
Ordenar_con_post(l) ==
  /\ Ir(l, "turno", "compacta")
  /\ viva[De(l)] /\ ~robada[l]
  /\ conv' = [conv EXCEPT ![l] = vida[De(l)]]
  /\ semInstanciasFin' = semInstanciasFin + 1
  /\ UNCHANGED <<instancia, flag, robada, semInstancias, hilo, estables, ordenes>>

\* The Instancia answers the check of its connection and is sent the order.
Ordenar(l) ==
  /\ Ir(l, "turno", "compacta")
  /\ viva[De(l)] /\ ~robada[l]
  /\ conv' = [conv EXCEPT ![l] = vida[De(l)]]
  /\ ordenes' = [h \in Hilos |->
                  IF De(l) \in estables[h] THEN [ordenes[h] EXCEPT ![De(l)] = @ + 1] ELSE ordenes[h]]
  /\ UNCHANGED <<instancia, flag, robada, semInstancias, semInstanciasFin, hilo, estables>>

\* Mutant: a thread that finds its Instancia disconnected ends without a post.
Desistir_sin_post(l) ==
  /\ Ir(l, "turno", "sale")
  /\ IF robada[l] THEN Cortada(l) ELSE ~viva[De(l)]
  /\ flag' = [flag EXCEPT ![De(l)] = FALSE]
  /\ Olvidar(l)
  /\ UNCHANGED <<instancia, semInstancias, semInstanciasFin, hilo, estables, ordenes>>

\* Mutant: the flag is lowered only when the thread leaves the loop.
Desistir_sin_bajar(l) ==
  /\ Ir(l, "turno", "sale")
  /\ IF robada[l] THEN Cortada(l) ELSE ~viva[De(l)]
  /\ Olvidar(l)
  /\ semInstanciasFin' = semInstanciasFin + 1
  /\ UNCHANGED <<instancia, flag, semInstancias, hilo, estables, ordenes>>

\* The check finds it disconnected: status = 0.
Desistir(l) ==
  /\ Ir(l, "turno", "sale")
  /\ IF robada[l] THEN Cortada(l) ELSE ~viva[De(l)]
  /\ flag' = [flag EXCEPT ![De(l)] = FALSE]
  /\ Olvidar(l)
  /\ semInstanciasFin' = semInstanciasFin + 1
  /\ UNCHANGED <<instancia, semInstancias, hilo, estables, ordenes>>

\* The Instancia has compacted, or recv() gives 0: status = -1, which goes on.
Responder(l) ==
  /\ Ir(l, "compacta", "espera")
  /\ Cortada(l) \/ ~robada[l]
  /\ Olvidar(l)
  /\ semInstanciasFin' = semInstanciasFin + 1
  /\ UNCHANGED <<instancia, flag, semInstancias, hilo, estables, ordenes>>

\* escucharMensajesEntrantes reads the answer: the loop waits for what is left of
\* the connection.
Robar(l) ==
  /\ oyente[De(l)] /\ viva[De(l)] /\ ~robada[l]
  /\ \/ lazo[l] = "turno"
     \/ lazo[l] = "compacta" /\ conv[l] = vida[De(l)]
  /\ robada' = [robada EXCEPT ![l] = TRUE]
  /\ conv' = [conv EXCEPT ![l] = vida[De(l)]]
  /\ UNCHANGED <<instancia, flag, lazo, semInstancias, semInstanciasFin, hilo, estables, ordenes>>

Salir(l) ==
  /\ Ir(l, "sale", "no")
  /\ flag' = [flag EXCEPT ![De(l)] = FALSE]
  /\ UNCHANGED <<instancia, conv, robada, semInstancias, semInstanciasFin, hilo, estables, ordenes>>

(***************************************************************************)
(* The thread of an ESI.                                                   *)
(***************************************************************************)
Contar(h) ==
  /\ ~ronda[h] /\ rondas[h] < MaxRondas
  /\ ronda' = [ronda EXCEPT ![h] = TRUE]
  /\ posts' = [posts EXCEPT ![h] = Cardinality(Activas)]
  /\ waits' = [waits EXCEPT ![h] = Cardinality(Activas)]
  /\ rondas' = [rondas EXCEPT ![h] = @ + 1]
  /\ estables' = [estables EXCEPT ![h] = Activas \cap {n \in Instancias : viva[n]}]
  /\ ordenes' = [ordenes EXCEPT ![h] = [n \in Instancias |-> 0]]
  /\ UNCHANGED <<instancia, flag, lazo, conv, robada, semInstancias, semInstanciasFin>>

Postear(h) ==
  /\ posts[h] > 0
  /\ posts' = [posts EXCEPT ![h] = @ - 1]
  /\ semInstancias' = semInstancias + 1
  /\ UNCHANGED <<instancia, flag, lazo, conv, robada, semInstanciasFin, ronda, waits, rondas,
                 estables, ordenes>>

Esperar(h) ==
  /\ posts[h] = 0 /\ waits[h] > 0
  /\ semInstanciasFin > 0
  /\ semInstanciasFin' = semInstanciasFin - 1
  /\ waits' = [waits EXCEPT ![h] = @ - 1]
  /\ UNCHANGED <<instancia, flag, lazo, conv, robada, semInstancias, ronda, posts, rondas,
                 estables, ordenes>>

Volver(h) ==
  /\ ronda[h] /\ waits[h] = 0
  /\ ronda' = [ronda EXCEPT ![h] = FALSE]
  /\ estables' = [estables EXCEPT ![h] = {}]
  /\ ordenes' = [ordenes EXCEPT ![h] = [n \in Instancias |-> 0]]
  /\ UNCHANGED <<instancia, flag, lazo, conv, robada, semInstancias, semInstanciasFin,
                 posts, waits, rondas>>

-------------------------------------------------------------------------------
Avanzar(l) == Tomar(l) \/ Ordenar(l) \/ Desistir(l) \/ Responder(l) \/ Salir(l)
Ronda(h) == Postear(h) \/ Esperar(h) \/ Volver(h)

Next ==
  \/ \E n \in Instancias : Conectar(n) \/ Morir(n) \/ Chequear(n)
  \/ \E l \in Lazos : Avanzar(l) \/ Robar(l)
  \/ \E h \in Hilos : Contar(h) \/ Ronda(h)

Spec == Init /\ [][Next]_vars

\* Every thread of the Coordinador is scheduled, a semaphore with posts lets some
\* waiting thread through, and an Instancia answers or its connection ends.
SpecJusta ==
  /\ Spec
  /\ WF_vars(\E l \in Lazos : Tomar(l))
  /\ \A l \in Lazos : WF_vars(Ordenar(l) \/ Desistir(l) \/ Responder(l) \/ Salir(l))
  /\ \A h \in Hilos : WF_vars(Ronda(h))

(***************************************************************************)
(* Properties.                                                             *)
(***************************************************************************)
\* Types of the variables.
TypeOK ==
  /\ vida \in [Instancias -> Nat]
  /\ viva \in [Instancias -> BOOLEAN] /\ flag \in [Instancias -> BOOLEAN]
  /\ oyente \in [Instancias -> BOOLEAN]
  /\ lazo \in [Lazos -> Pasos]
  /\ conv \in [Lazos -> Nat] /\ robada \in [Lazos -> BOOLEAN]
  /\ semInstancias \in Nat /\ semInstanciasFin \in Nat
  /\ ronda \in [Hilos -> BOOLEAN]
  /\ posts \in [Hilos -> Nat] /\ waits \in [Hilos -> Nat]
  /\ rondas \in [Hilos -> Nat]
  /\ estables \in [Hilos -> SUBSET Instancias]
  /\ ordenes \in [Hilos -> [Instancias -> Nat]]

\* Between rounds nothing is left over: no post that would send an Instancia to
\* compact with no thread waiting for it, no end that would let a later round
\* through early, and no loop thread on the socket of an Instancia, which the
\* thread of the ESI is about to send its sentence through again.
NadaSobra ==
  EnRonda = {} => semInstancias = 0 /\ semInstanciasFin = 0 /\ Atienden = {}

\* flag_thread never promises a thread that is not there: a post counted for an
\* Instancia finds a loop thread of it, and the round does not wait for nobody.
FlagConLazo ==
  \A n \in Activas : \E l \in Lazos : De(l) = n /\ lazo[l] \in {"espera", "turno", "compacta"}

\* A round ends, whatever Instancias die, leave a loop thread behind or come back
\* with a second one in the middle of it; unless one came back before anybody saw
\* it gone, so that two threads read its socket.
RondaTermina ==
  \A h \in Hilos : ronda[h] ~> ~ronda[h] \/ \E n \in Instancias : oyente[n]

\* Comment of indicarCompactacionATodasLasInstancias: several posts, "para que un
\* hilo instancia no entre dos veces y otro se quede sin compactar".
TodasUnaVez ==
  \A h \in Hilos : ronda[h] /\ waits[h] = 0 => \A n \in estables[h] : ordenes[h][n] = 1
===============================================================================
