--------------------------- MODULE DeteccionDeadlock ---------------------------
(***************************************************************************)
(* The console command "deadlock" of the Planificador:                     *)
(* consola_consultar_deadlock (src/Planificador/src/Planificador.c).       *)
(*                                                                         *)
(* For every blocked ESI the command follows the owner of the key it waits *)
(* for, the owner of the key that one waits for, and so on, until it comes *)
(* back to the ESI it started from.  The process has one thread, so the    *)
(* lists do not change meanwhile; they are any lists the handlers of       *)
(* module Planificador can leave, with owners that run, that have died, or *)
(* that are nobody, and keys whose record is gone.                         *)
(***************************************************************************)
EXTENDS Naturals, FiniteSets, SequencesExt

CONSTANTS
  ESIs,         \* pids
  Claves,       \* keys
  Ninguna,      \* a NULL key name
  Sistema,      \* pid -1
  Libre,        \* no record of the key in claves_bloqueadas
  MaxEslabones  \* bound: elements of the list of one analysis

ASSUME NombresDistintos ==
  /\ Sistema \notin ESIs /\ Libre \notin ESIs /\ Sistema # Libre
  /\ Ninguna \notin Claves
  /\ IsFiniteSet(ESIs)
  /\ MaxEslabones \in Nat \ {0}

VARIABLES
  bloqueados,       \* esi_bloqueados
  clave,            \* clave_bloqueo of each ESI
  dueno,            \* claves_bloqueadas: the pid of each record
  i,                \* the index of the for loop
  deadlock,         \* the list of this analysis; its last element is of esi_aux
  lista_deadlocks,  \* the lists that will be shown
  pc                \* for, while, fin; or nulo: a NULL pointer was dereferenced

listas == <<bloqueados, clave, dueno>>
vars == <<bloqueados, clave, dueno, i, deadlock, lista_deadlocks, pc>>

\* t_deadlock: an ESI, the key it waits for and the key it holds.
Eslabon == [pid : ESIs, clave_pedida : Claves, clave_tomada : Claves \cup {Ninguna}]

Bloqueados == ToSet(bloqueados)
Pids(s) == {s[j].pid : j \in DOMAIN s}
Analizado == bloqueados[i]
esi_aux == deadlock[Len(deadlock)].pid

Init ==
  /\ bloqueados \in UNION {SetToSeqs(B) : B \in SUBSET ESIs}
  /\ clave \in [ESIs -> Claves \cup {Ninguna}]
  /\ \A e \in ESIs \ Bloqueados : clave[e] = Ninguna
  /\ dueno \in [Claves -> ESIs \cup {Sistema, Libre}]
  /\ i = 1
  /\ deadlock = <<>>
  /\ lista_deadlocks = <<>>
  /\ pc = "for"

(***************************************************************************)
(* The head of the for loop.                                               *)
(***************************************************************************)
\* Mutant: only the ESI each deadlock was found from counts as being in it.
buscar_esi_en_deadlock_solo_primero(e) ==
  \E m \in DOMAIN lista_deadlocks : lista_deadlocks[m][1].pid = e

buscar_esi_en_deadlock(e) ==
  \E m \in DOMAIN lista_deadlocks : e \in Pids(lista_deadlocks[m])

\* Mutant: continue without i++.
Saltear_sin_avanzar ==
  /\ pc = "for"
  /\ i <= Len(bloqueados)
  /\ buscar_esi_en_deadlock(Analizado)
  /\ UNCHANGED vars

Saltear ==
  /\ pc = "for"
  /\ i <= Len(bloqueados)
  /\ buscar_esi_en_deadlock(Analizado)
  /\ i' = i + 1
  /\ UNCHANGED <<listas, deadlock, lista_deadlocks, pc>>

\* strdup(NULL) for an ESI that was blocked without a key.
Analizar ==
  /\ pc = "for"
  /\ i <= Len(bloqueados)
  /\ ~buscar_esi_en_deadlock(Analizado)
  /\ IF clave[Analizado] = Ninguna
     THEN pc' = "nulo" /\ UNCHANGED deadlock
     ELSE /\ pc' = "while"
          /\ deadlock' = <<[pid |-> Analizado, clave_pedida |-> clave[Analizado],
                            clave_tomada |-> Ninguna]>>
  /\ UNCHANGED <<listas, i, lista_deadlocks>>

Mostrar ==
  /\ pc = "for"
  /\ i > Len(bloqueados)
  /\ pc' = "fin"
  /\ UNCHANGED <<listas, i, deadlock, lista_deadlocks>>

(***************************************************************************)
(* A turn of the while loop: the owner of the key that esi_aux waits for   *)
(* is added to the list and becomes esi_aux.                               *)
(***************************************************************************)
Tomada == clave[esi_aux]
Dueno == dueno[Tomada]
Pedida == clave[Dueno]

\* seguir_buscando = 0 and list_destroy(deadlock).
Abandonar ==
  /\ i' = i + 1
  /\ deadlock' = <<>>
  /\ pc' = "for"
  /\ UNCHANGED <<listas, lista_deadlocks>>

Agregada == Append(deadlock, [pid |-> Dueno, clave_pedida |-> Pedida, clave_tomada |-> Tomada])

\* The owner was found in esi_bloqueados.
DuenoBloqueado == pc = "while" /\ Dueno \in Bloqueados /\ Pedida # Ninguna

SinRegistro ==
  /\ pc = "while"
  /\ \/ Dueno = Libre
     \/ DuenoBloqueado /\ dueno[Pedida] = Libre
  /\ Abandonar

\* The message "No hay deadlock" reads esi_aux->pid, and esi_aux is NULL; or the
\* owner is blocked without a key.
DuenoNoBloqueado ==
  /\ pc = "while"
  /\ Dueno # Libre
  /\ Dueno \in Bloqueados => Pedida = Ninguna
  /\ pc' = "nulo"
  /\ UNCHANGED <<listas, i, deadlock, lista_deadlocks>>

\* Mutant: the owner is compared with the ESI that was reached last, so that a
\* chain that only leads to a cycle is shown as one.
Cierra_en_cualquiera == dueno[Pedida] \in Pids(deadlock)

\* The last ESI waits for the one the analysis started from.
Cierra == dueno[Pedida] = Analizado

Encontrar ==
  /\ DuenoBloqueado
  /\ Cierra
  /\ lista_deadlocks' = Append(lista_deadlocks, [Agregada EXCEPT ![1].clave_tomada = Pedida])
  /\ i' = i + 1
  /\ deadlock' = <<>>
  /\ pc' = "for"
  /\ UNCHANGED listas

Seguir ==
  /\ Len(deadlock) < MaxEslabones
  /\ DuenoBloqueado
  /\ dueno[Pedida] # Libre
  /\ ~Cierra
  /\ deadlock' = Agregada
  /\ UNCHANGED <<listas, i, lista_deadlocks, pc>>

-------------------------------------------------------------------------------
Next ==
  \/ Saltear \/ Analizar \/ Mostrar
  \/ SinRegistro \/ DuenoNoBloqueado \/ Encontrar \/ Seguir

Spec == Init /\ [][Next]_vars

\* One thread runs the command from beginning to end.
SpecJusta == Spec /\ WF_vars(Next)

(***************************************************************************)
(* What a deadlock is, without walking: a set of ESIs that owners of keys  *)
(* lead round.                                                             *)
(***************************************************************************)
Espera(e) == e \in Bloqueados /\ clave[e] # Ninguna

\* Whom e leads to after n owners: a blocked ESI leads on to the owner of its key.
Lleva ==
  LET f[n \in 0..Cardinality(ESIs)] ==
        [e \in ESIs |-> IF n = 0 THEN e
                        ELSE IF Espera(f[n - 1][e]) THEN dueno[clave[f[n - 1][e]]]
                        ELSE f[n - 1][e]]
  IN  f

EnCiclo(e) ==
  LET f == Lleva IN Espera(e) /\ \E n \in DOMAIN f \ {0} : f[n][e] = e

Ciclos == {{Lleva[n][e] : n \in 0..Cardinality(ESIs)} : e \in {d \in ESIs : EnCiclo(d)}}

Lejos(e) == Lleva[Cardinality(ESIs)][e]

\* e is not in a deadlock and waits, through others, for an ESI that is.
LlevaACiclo(e) == ~EnCiclo(e) /\ EnCiclo(Lejos(e))

\* The chain of e ends in an ESI that waits for a key without record.
LlevaAClaveLibre(e) == Lejos(e) = Libre

(***************************************************************************)
(* Properties.                                                             *)
(***************************************************************************)
\* Types of the variables.
TypeOK ==
  /\ bloqueados \in Seq(ESIs)
  /\ clave \in [ESIs -> Claves \cup {Ninguna}]
  /\ dueno \in [Claves -> ESIs \cup {Sistema, Libre}]
  /\ i \in 1..(Len(bloqueados) + 1)
  /\ deadlock \in Seq(Eslabon)
  /\ lista_deadlocks \in Seq(Seq(Eslabon))
  /\ pc \in {"for", "while", "fin", "nulo"}
  /\ pc = "while" => i <= Len(bloqueados) /\ deadlock # <<>> /\ deadlock[1].pid = Analizado

\* What is shown as a deadlock is one: every ESI of the list is blocked on the
\* key it is shown to ask for, holds the key it is shown to hold, and what it
\* asks for is held by the next one, the last one by the first.  An operator who
\* kills a member of it frees a key that another member waits for.
EslabonesCiertos ==
  \A m \in DOMAIN lista_deadlocks :
    LET L == lista_deadlocks[m]
    IN  \A j \in DOMAIN L :
          /\ L[j].pid \in Bloqueados
          /\ clave[L[j].pid] = L[j].clave_pedida
          /\ L[j].clave_tomada \in Claves /\ dueno[L[j].clave_tomada] = L[j].pid
          /\ L[j].clave_pedida = L[IF j = Len(L) THEN 1 ELSE j + 1].clave_tomada

\* No ESI is in two of the lists that are shown.
EnUnoSolo ==
  \A m, n \in DOMAIN lista_deadlocks :
    m # n => Pids(lista_deadlocks[m]) \cap Pids(lista_deadlocks[n]) = {}

\* No list has an ESI twice; the ESI that waits for a key of its own is the exception.
UnaVezEnSuLista ==
  \A m \in DOMAIN lista_deadlocks :
    LET L == lista_deadlocks[m]
    IN  \A a, b \in DOMAIN L :
          a < b /\ L[a].pid = L[b].pid => dueno[clave[L[a].pid]] = L[a].pid

\* No deadlock is shown twice, from two of its members, no ESI is shown in two
\* deadlocks, and none is shown twice in the same one.  An ESI that waits for a key of
\* its own is shown as a deadlock with itself, twice: the list gets its first element
\* at the head of the for loop and again as the owner of what it waits for.
CadaUnoUnaVez == EnUnoSolo /\ UnaVezEnSuLista

\* When the command ends, it has shown every deadlock there is; and it only ends
\* if every other blocked ESI waits, through others, for a key without record.
FinExacto ==
  pc = "fin" =>
    /\ {Pids(lista_deadlocks[m]) : m \in DOMAIN lista_deadlocks} = Ciclos
    /\ \A e \in Bloqueados : EnCiclo(e) \/ LlevaAClaveLibre(e)

\* The command ends, or breaks, unless some blocked ESI leads to a deadlock that
\* it is not part of: that walk goes round the deadlock for ever.
Termina ==
  (\A e \in Bloqueados : ~LlevaACiclo(e)) ~> pc \in {"fin", "nulo"}

\* The command looks at the lists and breaks nothing (comment of
\* consola_consultar_deadlock: it serves to analyse the deadlocks there are).
SoloConsulta == pc # "nulo"
===============================================================================
