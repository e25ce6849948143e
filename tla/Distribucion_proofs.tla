--------------------------- MODULE Distribucion_proofs ---------------------------
(***************************************************************************)
(* Theorems about Distribucion, for any ESIs, keys and Instancias,         *)
(* whatever dies and comes back.                                           *)
(*                                                                         *)
(* What keeps the lists right, which no lock protects, is that the         *)
(* Planificador lets one ESI send at a time: while no ESI has died with a  *)
(* sentence in progress, one thread at most is at work (Orden), and what   *)
(* it saw in the lists before it waited is still there after (Recuerda),   *)
(* unless the thread of the command status has removed it (Encuentra).     *)
(* Whatever dies, every Instancia that the Coordinador knows has been      *)
(* connected, and what is not connected now has died (Conoce): from there  *)
(* come the causes of what breaks it otherwise (Causas).                   *)
(***************************************************************************)
EXTENDS Distribucion, WellFoundedInduction, TLAPS

\* A thread is at work only when there is an Instancia in the list, which only grows.
HayLista == \A h \in Hilos : hilo[h].pc # "nada" => lista_instancias # <<>>

\* One thread is at work, and its ESI is not over.
Orden ==
  huerfanos = {} =>
    /\ \A h \in terminados : hilo[h].pc = "nada"
    /\ \A g, h \in Hilos : hilo[g].pc # "nada" /\ hilo[h].pc # "nada" => g = h

\* What a thread saw before it waited.  A key that is about to be added is not there, and
\* only a GET adds it without an Instancia; one that is about to get an Instancia has none.
Sabe(h) ==
  LET r == hilo[h]
  IN  /\ r.pc = "agregar" \/ (r.pc \in {"elegir", "lazo"} /\ r.obj = 0) => ~existeClave(r.clave)
      /\ r.pc = "agregar" => r.op = "GET"
      /\ r.pc \in {"elegir", "lazo"} /\ r.obj # 0 => claves[r.obj].instancia = Nadie

Recuerda == huerfanos = {} => \A h \in Hilos : Sabe(h)

\* The object that a thread found is in the list, with an Instancia once it is time to send.
Vigente(h) ==
  LET r == hilo[h]
  IN  /\ r.pc # "nada" /\ r.obj # 0 => r.obj \in Con(r.clave)
      /\ r.pc \in {"eliminar", "enviar", "esperar"}
           \/ (r.pc \in {"comprobar", "consultar"} /\ r.op # "GET")
           => r.obj # 0 /\ claves[r.obj].instancia # Nadie
      /\ r.pc = "comprobar" => r.op # "GET"

Encuentra == huerfanos = {} /\ ~quito => \A h \in Hilos : Vigente(h)

Listas == Orden /\ Recuerda /\ SinDuplicadas /\ Encuentra /\ EncuentraLoSuyo

IInv == TypeOK /\ HayLista /\ Listas

(***************************************************************************)
(* The first of a set of objects.                                          *)
(***************************************************************************)
Menores == {p \in Nat \X Nat : p[1] < p[2]}

LEMMA LemaMenores == IsWellFoundedOn(Menores, Nat)
BY NatLessThanWellFounded, Zenon DEF OpToRel, Menores

LEMMA LemaMin ==
  ASSUME NEW S \in SUBSET Nat, S # {}
  PROVE  Min(S) \in S /\ \A y \in S : Min(S) <= y
<1>1. PICK x \in S : \A y \in S : ~(<<y, x>> \in Menores)
  BY LemaMenores, WFMin
<1>2. ASSUME NEW y \in S PROVE x <= y
  <2>1. <<y, x>> \in Nat \X Nat /\ ~(<<y, x>> \in Menores)
    BY <1>1
  <2>2. ~(y < x)
    BY <2>1 DEF Menores
  <2> QED BY <2>2
<1> QED BY <1>2 DEF Min

LEMMA LemaPrimero ==
  ASSUME TypeOK, NEW k, existeClave(k)
  PROVE  Primero(k) \in Con(k) /\ Con(k) \subseteq 1..Len(claves)
<1>1. Con(k) \subseteq 1..Len(claves) /\ Len(claves) \in Nat
  BY DEF TypeOK, Con
<1>2. Con(k) \in SUBSET Nat /\ Con(k) # {}
  BY <1>1 DEF existeClave
<1> QED BY <1>1, <1>2, LemaMin DEF Primero

\* eliminarClave only removes.
LEMMA LemaEliminar == \A k : eliminarClave(k) \subseteq lista_claves
BY DEF eliminarClave

(***************************************************************************)
(* Types.                                                                  *)
(***************************************************************************)
HiloBien ==
  /\ hilo \in [Hilos -> Estados(Len(claves))]
  /\ \A h \in Hilos : hilo[h].pc # "nada" => hilo[h].clave \in Claves

ListaBien == claves \in Seq(Objetos) /\ lista_claves \subseteq DOMAIN claves

StatusBien ==
  status \in [pc : {"nada", "simular", "lazo", "comprobar", "eliminar"}, obj : 0..Len(claves)]

ExternoBien ==
  /\ terminados \subseteq Hilos /\ huerfanos \subseteq terminados
  /\ dueno \in [Claves -> Hilos \union {Nadie}]

\* An Instancia, or the one that stands for none.
Destinos == Instancias \union {Nadie, ERROR}

LEMMA TipoUno ==
  ASSUME TypeOK, NEW h \in Hilos, NEW r \in Estados(Len(claves)), UNCHANGED claves,
         r.pc # "nada" => r.clave \in Claves,
         hilo' = [hilo EXCEPT ![h] = r]
  PROVE  HiloBien'
BY DEF TypeOK, HiloBien, Estados

LEMMA TipoVa ==
  ASSUME TypeOK, NEW h \in Hilos, hilo[h].pc # "nada", UNCHANGED claves,
         NEW x \in Pasos, Va(h, x)
  PROVE  HiloBien'
<1>0. hilo[h] \in Estados(Len(claves)) /\ hilo[h].clave \in Claves
  BY DEF TypeOK
<1>1. [hilo[h] EXCEPT !.pc = x] \in Estados(Len(claves))
  BY <1>0 DEF Estados, Pasos
<1>2. hilo' = [hilo EXCEPT ![h] = [hilo[h] EXCEPT !.pc = x]]
  BY DEF Va
<1>3. [hilo[h] EXCEPT !.pc = x].clave \in Claves
  BY <1>0 DEF Estados, Pasos
<1> QED BY <1>1, <1>2, <1>3, TipoUno

LEMMA TipoObjeto ==
  ASSUME TypeOK, NEW h \in Hilos, hilo[h].pc # "nada", UNCHANGED claves,
         NEW o \in 0..Len(claves), NEW x \in Pasos,
         hilo' = [hilo EXCEPT ![h].obj = o, ![h].pc = x]
  PROVE  HiloBien'
<1>0. hilo \in [Hilos -> Estados(Len(claves))] /\ hilo[h].clave \in Claves
  BY DEF TypeOK
<1>1. ASSUME NEW e \in Estados(Len(claves))
      PROVE  /\ [e EXCEPT !.obj = o, !.pc = x] \in Estados(Len(claves))
             /\ [e EXCEPT !.obj = o, !.pc = x].clave = e.clave
  <2>1. [e EXCEPT !.obj = o] \in Estados(Len(claves))
    BY DEF Estados
  <2>2. [[e EXCEPT !.obj = o] EXCEPT !.pc = x] \in Estados(Len(claves))
    BY <2>1 DEF Estados
  <2>3. [[e EXCEPT !.obj = o] EXCEPT !.pc = x] = [e EXCEPT !.obj = o, !.pc = x]
    BY DEF Estados
  <2> QED BY <2>2, <2>3 DEF Estados
<1>2. hilo' = [hilo EXCEPT ![h] = [hilo[h] EXCEPT !.obj = o, !.pc = x]]
  BY <1>0
<1> QED BY <1>0, <1>1, <1>2, TipoUno

LEMMA TipoProxima ==
  ASSUME TypeOK, NEW h \in Hilos, hilo[h].pc # "nada", UNCHANGED claves,
         NEW i \in Instancias, hilo' = [hilo EXCEPT ![h].proxima = i, ![h].pc = "esperar"]
  PROVE  HiloBien'
<1>0. hilo \in [Hilos -> Estados(Len(claves))] /\ hilo[h].clave \in Claves
  BY DEF TypeOK
<1>1. ASSUME NEW e \in Estados(Len(claves))
      PROVE  /\ [e EXCEPT !.proxima = i, !.pc = "esperar"] \in Estados(Len(claves))
             /\ [e EXCEPT !.proxima = i, !.pc = "esperar"].clave = e.clave
  <2>1. [e EXCEPT !.proxima = i] \in Estados(Len(claves))
    BY DEF Estados
  <2>2. [[e EXCEPT !.proxima = i] EXCEPT !.pc = "esperar"] \in Estados(Len(claves))
    BY <2>1 DEF Estados, Pasos
  <2>3. [[e EXCEPT !.proxima = i] EXCEPT !.pc = "esperar"]
          = [e EXCEPT !.proxima = i, !.pc = "esperar"]
    BY DEF Estados
  <2> QED BY <2>2, <2>3 DEF Estados
<1>2. hilo' = [hilo EXCEPT ![h] = [hilo[h] EXCEPT !.proxima = i, !.pc = "esperar"]]
  BY <1>0
<1> QED BY <1>0, <1>1, <1>2, TipoUno

LEMMA TipoReposo ==
  ASSUME TypeOK, NEW h \in Hilos, UNCHANGED claves, hilo' = [hilo EXCEPT ![h] = Reposo]
  PROVE  HiloBien'
<1>1. Reposo \in Estados(Len(claves)) /\ Reposo.pc = "nada"
  BY DEF TypeOK, Reposo, Estados, Pasos
<1> QED BY <1>1, TipoUno

LEMMA TipoResponder ==
  ASSUME TypeOK, NEW h \in Hilos, NEW rta, Responder(h, rta), UNCHANGED <<claves, huerfanos>>
  PROVE  HiloBien' /\ ExternoBien'
<1>1. HiloBien'
  BY TipoReposo DEF Responder
<1>2. terminados \subseteq terminados' /\ terminados' \subseteq Hilos
  BY DEF Responder, TypeOK
<1>3. ExternoBien'
  BY <1>2 DEF Responder, TypeOK, ExternoBien
<1> QED BY <1>1, <1>3

LEMMA TipoAgregar ==
  ASSUME TypeOK, NEW h \in Hilos, hilo[h].pc # "nada", NEW i \in Destinos,
         Agregar(h, i), UNCHANGED status
  PROVE  HiloBien' /\ ListaBien' /\ StatusBien'
<1> DEFINE nuevo == [clave |-> hilo[h].clave, instancia |-> i]
           r == [hilo[h] EXCEPT !.obj = Len(claves) + 1, !.pc = TrasGuardar(h)]
<1>1. nuevo \in Objetos /\ claves \in Seq(Objetos) /\ claves' = Append(claves, nuevo)
  BY DEF TypeOK, Objetos, Destinos, Agregar
<1> HIDE DEF nuevo
<1>2. claves' \in Seq(Objetos) /\ Len(claves') = Len(claves) + 1 /\ Len(claves) \in Nat
  BY <1>1
<1>3. ListaBien'
  BY <1>2 DEF ListaBien, Agregar, TypeOK
<1>4. StatusBien'
  BY <1>2 DEF StatusBien, TypeOK
<1>5. hilo[h].clave \in Claves /\ hilo \in [Hilos -> Estados(Len(claves))]
  BY DEF TypeOK
<1>6. r \in Estados(Len(claves')) /\ r.clave \in Claves
  <2>1. hilo[h] \in Estados(Len(claves)) /\ TrasGuardar(h) \in {"comprobar", "consultar"}
    BY <1>5 DEF TrasGuardar
  <2>2. ASSUME NEW n \in Nat, NEW e \in Estados(n), NEW x \in {"comprobar", "consultar"}
        PROVE  /\ [e EXCEPT !.obj = n + 1, !.pc = x] \in Estados(n + 1)
               /\ [e EXCEPT !.obj = n + 1, !.pc = x].clave = e.clave
    <3>1. [e EXCEPT !.obj = n + 1] \in Estados(n + 1)
      BY DEF Estados, Pasos
    <3>2. [[e EXCEPT !.obj = n + 1] EXCEPT !.pc = x] \in Estados(n + 1)
      BY <3>1 DEF Estados, Pasos
    <3>3. [[e EXCEPT !.obj = n + 1] EXCEPT !.pc = x] = [e EXCEPT !.obj = n + 1, !.pc = x]
      BY DEF Estados, Pasos
    <3> QED BY <3>2, <3>3 DEF Estados, Pasos
  <2> QED BY <1>2, <1>5, <2>1, <2>2
<1>7. hilo' = [hilo EXCEPT ![h] = r]
  BY DEF Agregar
<1> HIDE DEF r
<1>8. \A g \in Hilos : hilo[g] \in Estados(Len(claves'))
  BY <1>2, <1>5 DEF Estados, Pasos
<1>9. \A g \in Hilos : hilo'[g] = IF g = h THEN r ELSE hilo[g]
  BY <1>5, <1>7
<1>10. hilo' \in [Hilos -> Estados(Len(claves'))]
  BY <1>5, <1>6, <1>7, <1>8
<1>11. \A g \in Hilos : hilo'[g].pc # "nada" => hilo'[g].clave \in Claves
  BY <1>6, <1>9 DEF TypeOK
<1> QED BY <1>3, <1>4, <1>10, <1>11 DEF HiloBien

LEMMA TipoAsignar ==
  ASSUME TypeOK, NEW h \in Hilos, hilo[h].pc # "nada", NEW i \in Destinos,
         Asignar(h, i), UNCHANGED status
  PROVE  HiloBien' /\ ListaBien' /\ StatusBien'
<1>1. CASE hilo[h].obj = 0
  BY <1>1, TipoAgregar DEF Asignar
<1>2. CASE hilo[h].obj # 0
  <2>1. hilo[h].obj \in 1..Len(claves) /\ claves \in Seq(Objetos)
    BY <1>2 DEF TypeOK, Estados, Pasos
  <2>2. claves' = [claves EXCEPT ![hilo[h].obj].instancia = i] /\ Va(h, TrasGuardar(h))
        /\ UNCHANGED lista_claves
    BY <1>2 DEF Asignar
  <2>3. [claves[hilo[h].obj] EXCEPT !.instancia = i] \in Objetos
    <3>1. claves[hilo[h].obj] \in Objetos
      BY <2>1
    <3> QED BY <3>1 DEF Objetos, Destinos
  <2>4. claves' \in Seq(Objetos) /\ Len(claves') = Len(claves) /\ DOMAIN claves' = DOMAIN claves
    BY <2>1, <2>2, <2>3
  <2>5. [hilo[h] EXCEPT !.pc = TrasGuardar(h)] \in Estados(Len(claves))
        /\ [hilo[h] EXCEPT !.pc = TrasGuardar(h)].clave \in Claves
    BY DEF TypeOK, Estados, Pasos, TrasGuardar
  <2>6. hilo' = [hilo EXCEPT ![h] = [hilo[h] EXCEPT !.pc = TrasGuardar(h)]]
    BY <2>2 DEF Va
  <2>7. HiloBien'
    BY <2>4, <2>5, <2>6 DEF HiloBien, TypeOK
  <2>8. ListaBien' /\ StatusBien'
    BY <2>2, <2>4 DEF ListaBien, StatusBien, TypeOK
  <2> QED BY <2>7, <2>8
<1> QED BY <1>1, <1>2
LEMMA LemaCotas ==
  MaxLibres \in Nat /\ MaxSentencias \in Nat /\ MaxConsultas \in Nat /\ MaxVidas \in Nat
BY DistribucionBienFormada DEF DistribucionBienFormada

\* The rest of TypeOK.
RestoBien ==
  /\ algoritmo \in Algoritmos
  /\ lista_instancias \in Seq(Instancias) /\ IsInjective(lista_instancias)
  /\ libres \in [Instancias -> 0..MaxLibres]
  /\ flag \in [Instancias -> BOOLEAN] /\ viva \in [Instancias -> BOOLEAN]
  /\ vida \in [Instancias -> 0..MaxVidas]
  /\ indice_actual_lista \in -1..Len(lista_instancias)
  /\ sentencias \in 0..MaxSentencias /\ consultas \in 0..MaxConsultas
  /\ falla \in {"no", "nulo", "basura", "error", "letra", "texto"} /\ quito \in BOOLEAN

LEMMA LemaPartes ==
  TypeOK <=> HiloBien /\ ListaBien /\ StatusBien /\ ExternoBien /\ RestoBien
BY DEF TypeOK, HiloBien, ListaBien, StatusBien, ExternoBien, RestoBien

LEMMA LemaPartesDespues ==
  HiloBien' /\ ListaBien' /\ StatusBien' /\ ExternoBien' /\ RestoBien' => TypeOK'
BY DEF TypeOK, HiloBien, ListaBien, StatusBien, ExternoBien, RestoBien

LEMMA TipoFlags ==
  ASSUME RestoBien
  PROVE  /\ FlagsTrasCheck \in [Instancias -> BOOLEAN]
         /\ \A i : FlagTrasChequear(i) \in [Instancias -> BOOLEAN]
BY DEF RestoBien, FlagsTrasCheck, FlagTrasChequear

LEMMA TipoIndice ==
  ASSUME RestoBien, lista_instancias # <<>>
  PROVE  AvanzarIndice \in -1..Len(lista_instancias)
<1>1. Len(lista_instancias) \in Nat \ {0} /\ indice_actual_lista \in -1..Len(lista_instancias)
  BY DEF RestoBien
<1> QED BY <1>1 DEF AvanzarIndice

\* An Instancia that is chosen is one.
LEMMA TipoCandidata ==
  ASSUME NEW k, Elegida(k) # {}, Elegida(k) # {ERROR}
  PROVE  Candidata(k) \in Instancias
BY DEF Elegida, Conectada

LEMMA TipoSinInstancia ==
  ASSUME TypeOK, NEW h \in Hilos, hilo[h].pc # "nada", SinInstancia(h), UNCHANGED status
  PROVE  HiloBien' /\ ListaBien' /\ StatusBien' /\ falla' \in {falla, "error"}
<1>1. CASE Asignar(h, ERROR) /\ UNCHANGED falla
  BY <1>1, TipoAsignar DEF Destinos
<1>2. CASE Romper("error") /\ UNCHANGED <<hilo, lista>>
  BY <1>2 DEF Romper, lista, TypeOK, HiloBien, ListaBien, StatusBien
<1> QED BY <1>1, <1>2 DEF SinInstancia

LEMMA TipoRecibir ==
  ASSUME TypeOK, NEW h \in Hilos, NEW op \in {"GET", "SET", "STORE"}, NEW k \in Claves,
         Recibir(h, op, k)
  PROVE  TypeOK' /\ UNCHANGED <<lista, historia, falla, lista_instancias>>
<1>1. /\ UNCHANGED <<algoritmo, instancia, flag, lista, indice_actual_lista, status,
                     consultas, falla, historia>>
      /\ sentencias < MaxSentencias /\ sentencias' = sentencias + 1
  BY DEF Recibir
<1>2. HiloBien' /\ ExternoBien'
  <2>1. CASE lista_instancias = <<>> \/ (op # "GET" /\ ~existeClave(k))
    BY <1>1, <2>1, TipoResponder DEF Recibir, lista, historia
  <2>2. CASE ~(lista_instancias = <<>> \/ (op # "GET" /\ ~existeClave(k)))
    <3>2. [pc |-> "guardar", op |-> op, clave |-> k, obj |-> 0, proxima |-> Nadie,
           reintentos |-> 0] \in Estados(Len(claves))
      BY DEF TypeOK, Estados, Pasos
    <3>3. hilo' = [hilo EXCEPT ![h] =
                    [pc |-> "guardar", op |-> op, clave |-> k, obj |-> 0, proxima |-> Nadie,
                     reintentos |-> 0]]
      BY <2>2 DEF Recibir
    <3>4. HiloBien'
      BY <1>1, <3>2, <3>3, TipoUno DEF lista
    <3> QED BY <1>1, <2>2, <3>4 DEF Recibir, externo, historia, TypeOK, ExternoBien
  <2> QED BY <2>1, <2>2
<1>3. ListaBien' /\ StatusBien' /\ RestoBien'
  <2>1. ListaBien' /\ StatusBien'
    BY <1>1, LemaPartes DEF lista, ListaBien, StatusBien
  <2>2. sentencias' \in 0..MaxSentencias
    BY <1>1, LemaCotas, LemaPartes DEF RestoBien
  <2> QED BY <1>1, <2>1, <2>2, LemaPartes DEF instancia, historia, RestoBien
<1> QED BY <1>1, <1>2, <1>3, LemaPartesDespues DEF instancia

\* What the steps of a thread leave alone.
LEMMA TipoResto ==
  ASSUME RestoBien,
         UNCHANGED <<algoritmo, lista_instancias, viva, vida, sentencias, consultas, historia>>,
         libres' \in [Instancias -> 0..MaxLibres], flag' \in [Instancias -> BOOLEAN],
         indice_actual_lista' \in -1..Len(lista_instancias),
         falla' \in {"no", "nulo", "basura", "error", "letra", "texto"}
  PROVE  RestoBien'
BY DEF RestoBien, historia

LEMMA TipoGuardar ==
  ASSUME TypeOK, NEW h \in Hilos, guardarClaveInternamente(h)
  PROVE  TypeOK'
<1> DEFINE k == hilo[h].clave
           o == IF existeClave(k) THEN Primero(k) ELSE 0
           x == IF o = 0 /\ hilo[h].op = "GET" THEN "agregar"
                ELSE IF hilo[h].op # "GET" /\ (o = 0 \/ claves[o].instancia = Nadie)
                THEN "elegir" ELSE TrasGuardar(h)
<1>1. /\ hilo[h].pc = "guardar"
      /\ UNCHANGED <<algoritmo, instancia, flag, lista, indice_actual_lista, externo, status,
                     sentencias, consultas, historia>>
  BY DEF guardarClaveInternamente, En
<1>2. HiloBien' /\ falla' \in {falla, "basura"}
  <2>1. CASE Repetida(k) /\ hilo[h].op = "SET"
    BY <1>1, <2>1 DEF guardarClaveInternamente, Romper, TypeOK, HiloBien, lista
  <2>2. CASE Repetida(k) /\ hilo[h].op # "SET"
    BY <1>1, <2>2, TipoVa DEF guardarClaveInternamente, lista, Pasos
  <2>3. CASE ~Repetida(k)
    <3>1. hilo' = [hilo EXCEPT ![h].obj = o, ![h].pc = x] /\ UNCHANGED falla
      BY <2>3 DEF guardarClaveInternamente
    <3>2. o \in 0..Len(claves)
      <4>1. CASE existeClave(k)
        BY <4>1, LemaPrimero
      <4>2. CASE ~existeClave(k)
        BY <4>2 DEF TypeOK
      <4> QED BY <4>1, <4>2
    <3>3. x \in Pasos
      BY DEF Pasos, TrasGuardar
    <3> HIDE DEF o, x
    <3> QED BY <1>1, <3>1, <3>2, <3>3, TipoObjeto DEF lista
  <2> QED BY <2>1, <2>2, <2>3
<1>3. ListaBien' /\ StatusBien' /\ ExternoBien'
  BY <1>1, LemaPartes DEF lista, externo, historia, ListaBien, StatusBien, ExternoBien
<1>4. RestoBien'
  BY <1>1, <1>2, LemaPartes, TipoResto DEF instancia, RestoBien
<1> QED BY <1>2, <1>3, <1>4, LemaPartesDespues

LEMMA TipoElegir ==
  ASSUME TypeOK, HayLista, NEW h \in Hilos,
         AgregarSinInstancia(h) \/ EntrarASiguiente(h) \/ siguienteInstanciaSegunAlgoritmo(h)
  PROVE  TypeOK'
<1>1. RestoBien /\ ExternoBien /\ hilo[h].pc # "nada" /\ lista_instancias # <<>>
      /\ UNCHANGED <<algoritmo, instancia, externo, status, sentencias, consultas, historia>>
  BY LemaPartes
  DEF AgregarSinInstancia, EntrarASiguiente, siguienteInstanciaSegunAlgoritmo, En, HayLista
<1>2. HiloBien' /\ ListaBien' /\ StatusBien' /\ falla' \in {falla, "error", "nulo", "letra"}
  <2>1. CASE AgregarSinInstancia(h)
    BY <1>1, <2>1, TipoAgregar DEF AgregarSinInstancia, Destinos
  <2>2. CASE EntrarASiguiente(h)
    <3>1. \/ Romper("nulo") /\ UNCHANGED <<hilo, lista>>
          \/ Va(h, "lazo") /\ UNCHANGED <<lista, falla>>
          \/ SinInstancia(h)
      BY <2>2 DEF EntrarASiguiente
    <3>2. CASE Romper("nulo") /\ UNCHANGED <<hilo, lista>>
      BY <1>1, <3>2 DEF Romper, lista, TypeOK, HiloBien, ListaBien, StatusBien
    <3>3. CASE Va(h, "lazo") /\ UNCHANGED <<lista, falla>>
      <4>1. HiloBien'
        BY <1>1, <3>3, TipoVa DEF lista, Pasos
      <4> QED BY <1>1, <3>3, <4>1, LemaPartes DEF lista, ListaBien, StatusBien
    <3>4. CASE SinInstancia(h)
      BY <1>1, <3>4, TipoSinInstancia
    <3> QED BY <3>1, <3>2, <3>3, <3>4
  <2>3. CASE siguienteInstanciaSegunAlgoritmo(h)
    <3> DEFINE k == hilo[h].clave
    <3>0. CASE PasaDeLaZ(k)
      <4>1. Romper("letra") /\ UNCHANGED <<hilo, lista>>
        BY <2>3, <3>0 DEF siguienteInstanciaSegunAlgoritmo
      <4> QED BY <1>1, <4>1, LemaPartes DEF Romper, lista, HiloBien, ListaBien, StatusBien
    <3>1. CASE ~PasaDeLaZ(k) /\ Elegida(k) = {}
      <4>1. UNCHANGED <<hilo, lista, falla>>
        BY <2>3, <3>1 DEF siguienteInstanciaSegunAlgoritmo
      <4> QED BY <1>1, <4>1, LemaPartes DEF lista, HiloBien, ListaBien, StatusBien
    <3>2. CASE ~PasaDeLaZ(k) /\ Elegida(k) = {ERROR}
      <4>1. SinInstancia(h)
        BY <2>3, <3>2 DEF siguienteInstanciaSegunAlgoritmo
      <4> QED BY <1>1, <4>1, TipoSinInstancia
    <3>3. CASE ~PasaDeLaZ(k) /\ Elegida(k) # {} /\ Elegida(k) # {ERROR}
      <4>1. Asignar(h, Candidata(k)) /\ UNCHANGED falla
        BY <2>3, <3>3 DEF siguienteInstanciaSegunAlgoritmo
      <4>2. Candidata(k) \in Destinos
        BY <3>3, TipoCandidata DEF Destinos
      <4> QED BY <1>1, <4>1, <4>2, TipoAsignar
    <3> QED BY <3>0, <3>1, <3>2, <3>3
  <2> QED BY <2>1, <2>2, <2>3
<1>3. ExternoBien'
  BY <1>1 DEF externo, historia, ExternoBien
<1>4. /\ flag' \in [Instancias -> BOOLEAN]
      /\ indice_actual_lista' \in -1..Len(lista_instancias)
  <2>1. CASE AgregarSinInstancia(h)
    BY <1>1, <2>1 DEF AgregarSinInstancia, RestoBien
  <2>2. CASE EntrarASiguiente(h)
    BY <1>1, <2>2, TipoFlags DEF EntrarASiguiente, RestoBien
  <2>3. CASE siguienteInstanciaSegunAlgoritmo(h)
    <3>1. CASE PasaDeLaZ(hilo[h].clave)
      BY <1>1, <2>3, <3>1 DEF siguienteInstanciaSegunAlgoritmo, RestoBien
    <3>2. CASE ~PasaDeLaZ(hilo[h].clave)
      BY <1>1, <2>3, <3>2, TipoFlags, TipoIndice DEF siguienteInstanciaSegunAlgoritmo, RestoBien
    <3> QED BY <3>1, <3>2
  <2> QED BY <2>1, <2>2, <2>3
<1>5. RestoBien'
  BY <1>1, <1>2, <1>4, TipoResto DEF instancia, RestoBien
<1> QED BY <1>2, <1>3, <1>5, LemaPartesDespues

LEMMA TipoComprobar ==
  ASSUME TypeOK, NEW h \in Hilos, Comprobar(h) \/ Eliminar(h)
  PROVE  TypeOK'
<1>1. RestoBien /\ ListaBien /\ StatusBien /\ ExternoBien
      /\ hilo[h].pc # "nada" /\ UNCHANGED <<algoritmo, instancia, claves, indice_actual_lista,
                                            status, sentencias, consultas, historia>>
  BY LemaPartes DEF Comprobar, Eliminar, En, lista
<1>2. HiloBien' /\ ExternoBien' /\ lista_claves' \subseteq lista_claves
      /\ flag' \in [Instancias -> BOOLEAN] /\ falla' \in {falla, "nulo"}
  <2>1. CASE Comprobar(h)
    <3>1. \E x \in {"consultar", "eliminar"} : Va(h, x)
      BY <2>1 DEF Comprobar
    <3>2. HiloBien'
      BY <1>1, <3>1, TipoVa DEF Pasos
    <3> QED BY <1>1, <2>1, <3>2, TipoFlags
            DEF Comprobar, lista, externo, historia, ExternoBien
  <2>2. CASE Eliminar(h)
    <3>1. CASE lista_claves = {}
      <4>1. Romper("nulo") /\ UNCHANGED <<lista_claves, hilo, externo, flag>>
        BY <2>2, <3>1 DEF Eliminar
      <4> QED BY <1>1, <4>1, LemaPartes
              DEF Romper, externo, historia, HiloBien, ExternoBien, RestoBien
    <3>2. CASE lista_claves # {}
      BY <1>1, <2>2, <3>2, TipoResponder, LemaEliminar DEF Eliminar, historia, RestoBien
    <3> QED BY <3>1, <3>2
  <2> QED BY <2>1, <2>2
<1>3. ListaBien' /\ StatusBien'
  BY <1>1, <1>2 DEF ListaBien, StatusBien
<1>4. RestoBien'
  BY <1>1, <1>2, TipoResto DEF instancia, RestoBien
<1> QED BY <1>2, <1>3, <1>4, LemaPartesDespues

LEMMA TipoConsultar ==
  ASSUME TypeOK, NEW h \in Hilos, Consultar(h)
  PROVE  TypeOK'
<1> DEFINE op == hilo[h].op
           k == hilo[h].clave
           v == Veredicto(h, op, k)
<1>1. /\ hilo[h].pc = "consultar"
      /\ UNCHANGED <<algoritmo, instancia, flag, lista, indice_actual_lista, status,
                     sentencias, consultas, falla, historia>>
  BY DEF Consultar, En
<1>2. HiloBien' /\ ExternoBien'
  <2>1. CASE v = "CORRECTO" /\ op # "GET"
    <3>1. Va(h, "enviar") /\ UNCHANGED terminados
          /\ dueno' = IF op = "STORE" THEN [dueno EXCEPT ![k] = Nadie] ELSE dueno
      BY <2>1 DEF Consultar
    <3>2. HiloBien'
      BY <1>1, <3>1, TipoVa DEF lista, Pasos
    <3> QED BY <1>1, <3>1, <3>2 DEF historia, TypeOK, ExternoBien
  <2>2. CASE v = "CORRECTO" /\ h \notin terminados /\ op = "GET"
    <3>1. hilo' = [hilo EXCEPT ![h] = Reposo] /\ UNCHANGED terminados
          /\ dueno' = [dueno EXCEPT ![k] = h]
      BY <2>2 DEF Consultar
    <3>2. HiloBien'
      BY <1>1, <3>1, TipoReposo DEF lista
    <3> QED BY <1>1, <2>2, <3>1, <3>2 DEF historia, TypeOK, ExternoBien
  <2>3. CASE ~(v = "CORRECTO" /\ op # "GET") /\ ~(v = "CORRECTO" /\ h \notin terminados)
    BY <1>1, <2>3, TipoResponder DEF Consultar, lista, historia
  <2> QED BY <2>1, <2>2, <2>3
<1>3. ListaBien' /\ StatusBien'
  BY <1>1, LemaPartes DEF lista, ListaBien, StatusBien
<1>4. RestoBien'
  BY <1>1, LemaPartes, TipoResto DEF instancia, RestoBien
<1> QED BY <1>2, <1>3, <1>4, LemaPartesDespues

LEMMA TipoEnviar ==
  ASSUME TypeOK, NEW h \in Hilos, enviarSentenciaInstancia(h)
  PROVE  TypeOK'
<1> DEFINE k == hilo[h].clave
           i == claves[Primero(k)].instancia
<1>1. /\ hilo[h].pc = "enviar"
      /\ UNCHANGED <<algoritmo, instancia, lista, indice_actual_lista, status,
                     sentencias, consultas, historia>>
  BY DEF enviarSentenciaInstancia, En
<1>2. HiloBien /\ ExternoBien /\ RestoBien
  BY LemaPartes
<1>3. HiloBien' /\ ExternoBien' /\ falla' \in {falla, "nulo", "basura", "error"}
      /\ flag' \in [Instancias -> BOOLEAN]
  <2>1. CASE UNCHANGED <<hilo, flag, externo>> /\ \E f \in {"nulo", "basura", "error"} : Romper(f)
    BY <1>1, <1>2, <2>1 DEF Romper, lista, externo, historia, HiloBien, ExternoBien, RestoBien
  <2>2. CASE /\ UNCHANGED falla /\ flag' = FlagTrasChequear(i) /\ Conectada(i)
             /\ hilo' = [hilo EXCEPT ![h].proxima = i, ![h].pc = "esperar"]
             /\ UNCHANGED externo
    <3>1. i \in Instancias
      BY <2>2 DEF Conectada
    <3>2. HiloBien'
      BY <1>1, <2>2, <3>1, TipoProxima DEF lista
    <3> QED BY <1>1, <1>2, <2>2, <3>2, TipoFlags DEF externo, historia, ExternoBien
  <2>3. CASE UNCHANGED falla /\ flag' = FlagTrasChequear(i) /\ Responder(h, "ABORTAR")
    BY <1>1, <1>2, <2>3, TipoResponder, TipoFlags DEF lista, historia
  <2> QED BY <2>1, <2>2, <2>3 DEF enviarSentenciaInstancia
<1>4. ListaBien' /\ StatusBien'
  BY <1>1, LemaPartes DEF lista, ListaBien, StatusBien
<1>5. RestoBien'
  BY <1>1, <1>2, <1>3, TipoResto DEF instancia, RestoBien
<1> QED BY <1>3, <1>4, <1>5, LemaPartesDespues

LEMMA TipoLibres ==
  ASSUME RestoBien, NEW i, ActualizarLibres(i)
  PROVE  libres' \in [Instancias -> 0..MaxLibres]
BY DEF RestoBien, ActualizarLibres

LEMMA TipoRespuesta ==
  ASSUME TypeOK, NEW h \in Hilos, RecibirRespuesta(h)
  PROVE  TypeOK'
<1>1. /\ hilo[h].pc = "esperar" /\ ActualizarLibres(hilo[h].proxima)
      /\ UNCHANGED <<algoritmo, lista_instancias, viva, vida, flag, lista, indice_actual_lista,
                     status, sentencias, consultas, historia>>
  BY DEF RecibirRespuesta, En
<1>2. \/ /\ hilo[h].reintentos < 3
         /\ hilo' = [hilo EXCEPT ![h].reintentos = @ + 1, ![h].proxima = Nadie, ![h].pc = "enviar"]
         /\ UNCHANGED <<externo, falla>>
      \/ \E rta : Responder(h, rta) /\ UNCHANGED falla
      \/ Romper("texto") /\ UNCHANGED <<hilo, externo>>
  BY DEF RecibirRespuesta, Sigue
<1>3. HiloBien' /\ ExternoBien' /\ falla' \in {falla, "texto"}
  <2>1. CASE /\ hilo[h].reintentos < 3
             /\ hilo' = [hilo EXCEPT ![h].reintentos = @ + 1, ![h].proxima = Nadie, ![h].pc = "enviar"]
             /\ UNCHANGED <<externo, falla>>
    <3> DEFINE n == hilo[h].reintentos + 1
    <3>1. hilo \in [Hilos -> Estados(Len(claves))] /\ hilo[h].clave \in Claves
      BY <1>1 DEF TypeOK
    <3>2. hilo[h].reintentos \in 0..3 /\ hilo[h].reintentos < 3
      BY <2>1, <3>1 DEF Estados
    <3>3. n \in 0..3
      BY <3>2
    <3>4. hilo' = [hilo EXCEPT ![h] =
                    [hilo[h] EXCEPT !.reintentos = n, !.proxima = Nadie, !.pc = "enviar"]]
      BY <2>1, <3>1
    <3> HIDE DEF n
    <3>5. ASSUME NEW e \in Estados(Len(claves))
          PROVE  LET r == [e EXCEPT !.reintentos = n, !.proxima = Nadie, !.pc = "enviar"]
                 IN  r \in Estados(Len(claves)) /\ r.clave = e.clave
      <4>1. [[e EXCEPT !.reintentos = n] EXCEPT !.proxima = Nadie] \in Estados(Len(claves))
        BY <3>3 DEF Estados
      <4>2. [[[e EXCEPT !.reintentos = n] EXCEPT !.proxima = Nadie] EXCEPT !.pc = "enviar"]
              \in Estados(Len(claves))
        BY <4>1 DEF Estados, Pasos
      <4>3. [[[e EXCEPT !.reintentos = n] EXCEPT !.proxima = Nadie] EXCEPT !.pc = "enviar"]
              = [e EXCEPT !.reintentos = n, !.proxima = Nadie, !.pc = "enviar"]
        BY DEF Estados
      <4> QED BY <4>2, <4>3 DEF Estados
    <3>6. HiloBien'
      BY <1>1, <3>1, <3>4, <3>5, TipoUno DEF lista
    <3> QED BY <1>1, <2>1, <3>6, LemaPartes DEF externo, historia, ExternoBien
  <2>2. CASE \E rta : Responder(h, rta) /\ UNCHANGED falla
    BY <1>1, <2>2, TipoResponder DEF lista, historia
  <2>3. CASE Romper("texto") /\ UNCHANGED <<hilo, externo>>
    BY <1>1, <2>3, LemaPartes DEF Romper, lista, externo, historia, HiloBien, ExternoBien
  <2> QED BY <1>2, <2>1, <2>2, <2>3
<1>4. ListaBien' /\ StatusBien'
  BY <1>1, LemaPartes DEF lista, ListaBien, StatusBien
<1>5. RestoBien'
  BY <1>1, <1>3, LemaPartes, TipoLibres, TipoResto DEF RestoBien
<1> QED BY <1>3, <1>4, <1>5, LemaPartesDespues

LEMMA TipoStatus ==
  ASSUME StatusBien, UNCHANGED claves,
         NEW x \in {"nada", "simular", "lazo", "comprobar", "eliminar"}, Status(x)
  PROVE  StatusBien'
<1>1. status.obj \in 0..Len(claves) /\ 0 \in 0..Len(claves)
  BY DEF StatusBien
<1>2. status' = [pc |-> x, obj |-> IF x = "nada" THEN 0 ELSE status.obj]
  BY DEF Status
<1> QED BY <1>1, <1>2 DEF StatusBien

LEMMA TipoBuscar ==
  ASSUME TypeOK, NEW k \in Claves, buscar_clave(k)
  PROVE  TypeOK'
<1>1. /\ consultas < MaxConsultas /\ consultas' = consultas + 1
      /\ UNCHANGED <<algoritmo, instancia, flag, lista, indice_actual_lista, hilo, externo,
                     sentencias, falla, historia>>
  BY DEF buscar_clave
<1>2. HiloBien' /\ ListaBien' /\ ExternoBien'
  BY <1>1, LemaPartes DEF lista, externo, historia, HiloBien, ListaBien, ExternoBien
<1>3. StatusBien'
  <2>1. CASE ~existeClave(k)
    BY <1>1, <2>1, LemaPartes DEF buscar_clave, lista, StatusBien
  <2>2. CASE existeClave(k)
    <3>1. Primero(k) \in 0..Len(claves)
      BY <2>2, LemaPrimero
    <3> QED BY <1>1, <2>2, <3>1 DEF buscar_clave, lista, StatusBien
  <2> QED BY <2>1, <2>2
<1>4. RestoBien'
  BY <1>1, LemaCotas, LemaPartes DEF instancia, historia, RestoBien
<1> QED BY <1>2, <1>3, <1>4, LemaPartesDespues

LEMMA TipoSimular ==
  ASSUME StatusBien, RestoBien, UNCHANGED claves, SimularSinInstancia
  PROVE  StatusBien' /\ falla' \in {falla, "error"}
<1>1. CASE Status("nada") /\ UNCHANGED falla
  BY <1>1, TipoStatus
<1>2. CASE Romper("error") /\ UNCHANGED status
  BY <1>2 DEF Romper, StatusBien
<1> QED BY <1>1, <1>2 DEF SimularSinInstancia

LEMMA TipoPasoStatus ==
  ASSUME TypeOK, PasoStatus
  PROVE  TypeOK'
<1>1. HiloBien /\ ListaBien /\ StatusBien /\ ExternoBien /\ RestoBien
  BY LemaPartes
<1>2. /\ UNCHANGED <<algoritmo, instancia, claves, indice_actual_lista, hilo, externo,
                     sentencias, consultas, huerfanos>>
      /\ lista_claves' \subseteq lista_claves /\ quito' \in BOOLEAN
  BY <1>1, LemaEliminar DEF PasoStatus, EntrarASimular, Simular, ComprobarStatus, EliminarStatus,
                            lista, historia, RestoBien
<1>3. HiloBien' /\ ListaBien' /\ ExternoBien'
  BY <1>1, <1>2 DEF externo, HiloBien, ListaBien, ExternoBien
<1>4. StatusBien' /\ flag' \in [Instancias -> BOOLEAN]
      /\ falla' \in {falla, "error", "letra", "nulo"}
  <2>1. CASE EntrarASimular
    BY <1>1, <1>2, <2>1, TipoFlags, TipoStatus, TipoSimular DEF EntrarASimular
  <2>2. CASE Simular
    <3>0. CASE PasaDeLaZ(claves[status.obj].clave)
      BY <1>1, <1>2, <2>2, <3>0 DEF Simular, Romper, StatusBien, RestoBien
    <3>1. ASSUME ~PasaDeLaZ(claves[status.obj].clave)
          PROVE  \/ UNCHANGED <<status, falla>>
                 \/ SimularSinInstancia
                 \/ Status("nada") /\ UNCHANGED falla
      BY <2>2, <3>1 DEF Simular
    <3>2. ASSUME ~PasaDeLaZ(claves[status.obj].clave)
          PROVE  StatusBien' /\ falla' \in {falla, "error"}
      <4>1. CASE UNCHANGED <<status, falla>>
        BY <1>1, <1>2, <4>1 DEF StatusBien
      <4>2. CASE SimularSinInstancia
        BY <1>1, <1>2, <4>2, TipoSimular
      <4>3. CASE Status("nada") /\ UNCHANGED falla
        BY <1>1, <1>2, <4>3, TipoStatus
      <4> QED BY <3>1, <3>2, <4>1, <4>2, <4>3
    <3> QED BY <1>1, <2>2, <3>0, <3>2, TipoFlags DEF Simular
  <2>3. CASE ComprobarStatus
    <3>1. \E x \in {"nada", "eliminar"} : Status(x)
      BY <2>3 DEF ComprobarStatus
    <3>2. StatusBien'
      BY <1>1, <1>2, <3>1, TipoStatus
    <3> QED BY <1>1, <2>3, <3>2, TipoFlags DEF ComprobarStatus
  <2>4. CASE EliminarStatus
    <3>1. CASE lista_claves = {}
      BY <1>1, <1>2, <2>4, <3>1 DEF EliminarStatus, Romper, StatusBien, RestoBien
    <3>2. CASE lista_claves # {}
      BY <1>1, <1>2, <2>4, <3>2, TipoStatus DEF EliminarStatus, RestoBien
    <3> QED BY <3>1, <3>2
  <2> QED BY <2>1, <2>2, <2>3, <2>4 DEF PasoStatus
<1>5. RestoBien'
  BY <1>1, <1>2, <1>4 DEF instancia, RestoBien
<1> QED BY <1>3, <1>4, <1>5, LemaPartesDespues

LEMMA TipoConectar ==
  ASSUME TypeOK, NEW i \in Instancias, guardarEnListaDeInstancias(i)
  PROVE  TypeOK' /\ (lista_instancias # <<>> => lista_instancias' # <<>>)
<1>1. /\ vida[i] < MaxVidas
      /\ viva' = [viva EXCEPT ![i] = TRUE]
      /\ vida' = [vida EXCEPT ![i] = vida[i] + 1]
      /\ flag' = [flag EXCEPT ![i] = (algoritmo = "LSU")]
      /\ UNCHANGED <<algoritmo, lista, indice_actual_lista, hilo, externo, status,
                     sentencias, consultas, falla, historia>>
  BY DEF guardarEnListaDeInstancias
<1>2. RestoBien
  BY LemaPartes
<1>3. vida' \in [Instancias -> 0..MaxVidas]
  <2>1. vida \in [Instancias -> 0..MaxVidas] /\ vida[i] + 1 \in 0..MaxVidas
    BY <1>1, <1>2, LemaCotas DEF RestoBien
  <2> QED BY <1>1, <2>1
<1>4. viva' \in [Instancias -> BOOLEAN] /\ flag' \in [Instancias -> BOOLEAN]
  BY <1>1, <1>2 DEF RestoBien
<1>5. /\ lista_instancias' \in Seq(Instancias) /\ IsInjective(lista_instancias')
      /\ indice_actual_lista' \in -1..Len(lista_instancias')
      /\ libres' \in [Instancias -> 0..MaxLibres]
      /\ lista_instancias # <<>> => lista_instancias' # <<>>
  <2>1. CASE i \in ToSet(lista_instancias)
    BY <1>1, <1>2, <2>1, TipoLibres DEF guardarEnListaDeInstancias, RestoBien
  <2>2. CASE i \notin ToSet(lista_instancias)
    <3>1. lista_instancias' = Append(lista_instancias, i) /\ UNCHANGED libres
      BY <2>2 DEF guardarEnListaDeInstancias
    <3>2. lista_instancias \in Seq(Instancias) /\ IsInjective(lista_instancias)
      BY <1>2 DEF RestoBien
    <3>3. \A n \in 1..Len(lista_instancias) : lista_instancias[n] # i
      BY <2>2, <3>2 DEF ToSet
    <3>4. /\ lista_instancias' \in Seq(Instancias)
          /\ Len(lista_instancias') = Len(lista_instancias) + 1 /\ Len(lista_instancias) \in Nat
          /\ \A n \in 1..Len(lista_instancias) : lista_instancias'[n] = lista_instancias[n]
          /\ lista_instancias'[Len(lista_instancias) + 1] = i
      BY <3>1, <3>2
    <3>5. IsInjective(lista_instancias')
      BY <3>2, <3>3, <3>4 DEF IsInjective
    <3>6. indice_actual_lista' \in -1..Len(lista_instancias')
      BY <1>1, <1>2, <3>4 DEF RestoBien
    <3>7. lista_instancias' # <<>>
      BY <3>4
    <3> QED BY <1>2, <3>1, <3>4, <3>5, <3>6, <3>7 DEF RestoBien
  <2> QED BY <2>1, <2>2
<1>6. RestoBien'
  BY <1>1, <1>2, <1>3, <1>4, <1>5 DEF historia, RestoBien
<1>7. HiloBien' /\ ListaBien' /\ StatusBien' /\ ExternoBien'
  BY <1>1, LemaPartes
  DEF lista, externo, historia, HiloBien, ListaBien, StatusBien, ExternoBien
<1> QED BY <1>5, <1>6, <1>7, LemaPartesDespues

LEMMA TipoMuertes ==
  ASSUME TypeOK,
         \/ \E i \in Instancias : MorirInstancia(i)
         \/ \E h \in Hilos : MorirESI(h)
  PROVE  TypeOK'
<1>1. HiloBien /\ ListaBien /\ StatusBien /\ ExternoBien /\ RestoBien
  BY LemaPartes
<1>2. ASSUME NEW i \in Instancias, MorirInstancia(i)
      PROVE  TypeOK'
  <2>1. HiloBien' /\ ListaBien' /\ StatusBien' /\ ExternoBien'
    BY <1>1, <1>2
    DEF MorirInstancia, lista, externo, historia, HiloBien, ListaBien, StatusBien, ExternoBien
  <2>2. RestoBien'
    BY <1>1, <1>2 DEF MorirInstancia, historia, RestoBien
  <2> QED BY <2>1, <2>2, LemaPartesDespues
<1>3. ASSUME NEW h \in Hilos, MorirESI(h)
      PROVE  TypeOK'
  <2>1. HiloBien' /\ ListaBien' /\ StatusBien'
    BY <1>1, <1>3 DEF MorirESI, lista, HiloBien, ListaBien, StatusBien
  <2>2. RestoBien'
    BY <1>1, <1>3 DEF MorirESI, instancia, RestoBien
  <2>3. ExternoBien'
    BY <1>1, <1>3 DEF MorirESI, ExternoBien
  <2> QED BY <2>1, <2>2, <2>3, LemaPartesDespues
<1> QED BY <1>2, <1>3

LEMMA TipoInit == Init => TypeOK
<1> SUFFICES ASSUME Init PROVE TypeOK
  OBVIOUS
<1>1. HiloBien /\ ListaBien /\ StatusBien
  BY DEF Init, Reposo, HiloBien, ListaBien, StatusBien, Estados, Pasos
<1>2. ExternoBien
  BY DEF Init, ExternoBien
<1>3. RestoBien
  <2>1. << >> \in Seq(Instancias) /\ Len(<< >>) = 0 /\ DOMAIN << >> = {}
    OBVIOUS
  <2>2. IsInjective(<< >>)
    BY <2>1 DEF IsInjective
  <2>3. libres \in [Instancias -> 0..MaxLibres] /\ vida \in [Instancias -> 0..MaxVidas]
    BY LemaCotas DEF Init
  <2>4. sentencias \in 0..MaxSentencias /\ consultas \in 0..MaxConsultas
    BY LemaCotas DEF Init
  <2>5. flag \in [Instancias -> BOOLEAN] /\ viva \in [Instancias -> BOOLEAN]
    BY DEF Init
  <2>6. lista_instancias = << >> /\ indice_actual_lista = -1
    BY DEF Init
  <2>7. indice_actual_lista \in -1..Len(lista_instancias)
    BY <2>1, <2>6
  <2>8. lista_instancias \in Seq(Instancias) /\ IsInjective(lista_instancias)
    BY <2>1, <2>2, <2>6
  <2>9. algoritmo \in Algoritmos /\ falla = "no" /\ quito = FALSE
    BY DEF Init
  <2> QED BY <2>3, <2>4, <2>5, <2>7, <2>8, <2>9 DEF RestoBien
<1> QED BY <1>1, <1>2, <1>3, LemaPartes

LEMMA TipoIgual == TypeOK /\ UNCHANGED vars => TypeOK'
<1> SUFFICES ASSUME TypeOK, UNCHANGED vars PROVE TypeOK'
  OBVIOUS
<1>1. HiloBien' /\ ListaBien' /\ StatusBien' /\ ExternoBien' /\ RestoBien'
  BY LemaPartes DEF vars, lista, instancia, externo, historia,
                    HiloBien, ListaBien, StatusBien, ExternoBien, RestoBien
<1> QED BY <1>1, LemaPartesDespues

LEMMA TipoPaso ==
  ASSUME TypeOK, HayLista, NEW h \in Hilos, Paso(h)
  PROVE  TypeOK'
BY TipoGuardar, TipoElegir, TipoComprobar, TipoConsultar, TipoEnviar, TipoRespuesta DEF Paso

LEMMA TipoNext == TypeOK /\ HayLista /\ [Next]_vars => TypeOK'
<1> SUFFICES ASSUME TypeOK, HayLista, [Next]_vars PROVE TypeOK'
  OBVIOUS
<1>1. CASE UNCHANGED vars
  BY <1>1, TipoIgual
<1>2. CASE \E h \in Hilos, op \in {"GET", "SET", "STORE"}, k \in Claves : Recibir(h, op, k)
  BY <1>2, TipoRecibir
<1>3. CASE \E h \in Hilos : Paso(h)
  BY <1>3, TipoPaso
<1>4. CASE \E k \in Claves : buscar_clave(k)
  BY <1>4, TipoBuscar
<1>5. CASE PasoStatus
  BY <1>5, TipoPasoStatus
<1>6. CASE \E i \in Instancias : guardarEnListaDeInstancias(i) \/ MorirInstancia(i)
  BY <1>6, TipoConectar, TipoMuertes
<1>7. CASE \E h \in Hilos : MorirESI(h)
  BY <1>7, TipoMuertes
<1> QED BY <1>1, <1>2, <1>3, <1>4, <1>5, <1>6, <1>7 DEF Next

(***************************************************************************)
(* HayLista.                                                               *)
(***************************************************************************)
LEMMA HayListaNext == TypeOK /\ HayLista /\ [Next]_vars => HayLista'
<1> SUFFICES ASSUME TypeOK, HayLista, [Next]_vars PROVE HayLista'
  OBVIOUS
<1>1. lista_instancias # <<>> => lista_instancias' # <<>>
  <2>1. CASE UNCHANGED lista_instancias
    BY <2>1
  <2>2. CASE \E i \in Instancias : guardarEnListaDeInstancias(i)
    BY <2>2, TipoConectar
  <2> QED BY <2>1, <2>2
          DEF Next, Recibir, Paso, guardarClaveInternamente, AgregarSinInstancia,
              EntrarASiguiente, siguienteInstanciaSegunAlgoritmo, Comprobar, Eliminar, Consultar,
              enviarSentenciaInstancia, RecibirRespuesta, buscar_clave, PasoStatus,
              EntrarASimular, Simular, ComprobarStatus, EliminarStatus, MorirInstancia, MorirESI,
              instancia, vars
<1>2. CASE lista_instancias # <<>>
  BY <1>1, <1>2 DEF HayLista
<1>3. CASE lista_instancias = <<>>
  <2>1. \A h \in Hilos : hilo[h].pc = "nada"
    BY <1>3 DEF HayLista
  <2>2. CASE \E h \in Hilos, op \in {"GET", "SET", "STORE"}, k \in Claves : Recibir(h, op, k)
    <3>1. PICK h \in Hilos : \E op \in {"GET", "SET", "STORE"}, k \in Claves : Recibir(h, op, k)
      BY <2>2
    <3>2. hilo' = [hilo EXCEPT ![h] = Reposo]
      BY <1>3, <3>1 DEF Recibir, Responder
    <3> QED BY <2>1, <3>2 DEF TypeOK, HayLista, Reposo
  <2>3. CASE UNCHANGED hilo
    BY <2>1, <2>3 DEF HayLista
  <2> QED BY <2>1, <2>2, <2>3
          DEF Next, Paso, guardarClaveInternamente, AgregarSinInstancia, EntrarASiguiente,
              siguienteInstanciaSegunAlgoritmo, Comprobar, Eliminar, Consultar,
              enviarSentenciaInstancia, RecibirRespuesta, En, buscar_clave, PasoStatus,
              EntrarASimular, Simular, ComprobarStatus, EliminarStatus,
              guardarEnListaDeInstancias, MorirInstancia, MorirESI, vars
<1> QED BY <1>2, <1>3

(***************************************************************************)
(* What a step changes in a thread.                                        *)
(***************************************************************************)
Solo(h) == \A g \in Hilos \ {h} : hilo'[g] = hilo[g]

LEMMA LemaVa ==
  ASSUME TypeOK, NEW h \in Hilos, NEW x, Va(h, x)
  PROVE  /\ Solo(h) /\ hilo'[h].pc = x /\ hilo'[h].obj = hilo[h].obj
         /\ hilo'[h].clave = hilo[h].clave /\ hilo'[h].op = hilo[h].op
<1>1. hilo \in [Hilos -> Estados(Len(claves))]
  BY DEF TypeOK
<1> QED BY <1>1 DEF Va, Solo, Estados

LEMMA LemaObjeto ==
  ASSUME TypeOK, NEW h \in Hilos, NEW o, NEW x, hilo' = [hilo EXCEPT ![h].obj = o, ![h].pc = x]
  PROVE  /\ Solo(h) /\ hilo'[h].pc = x /\ hilo'[h].obj = o
         /\ hilo'[h].clave = hilo[h].clave /\ hilo'[h].op = hilo[h].op
<1>1. hilo \in [Hilos -> Estados(Len(claves))]
  BY DEF TypeOK
<1> QED BY <1>1 DEF Solo, Estados

LEMMA LemaProxima ==
  ASSUME TypeOK, NEW h \in Hilos, NEW y,
         hilo' = [hilo EXCEPT ![h].proxima = y, ![h].pc = "esperar"]
  PROVE  /\ Solo(h) /\ hilo'[h].pc = "esperar" /\ hilo'[h].obj = hilo[h].obj
         /\ hilo'[h].proxima = y /\ hilo'[h].clave = hilo[h].clave /\ hilo'[h].op = hilo[h].op
<1>1. hilo \in [Hilos -> Estados(Len(claves))]
  BY DEF TypeOK
<1> QED BY <1>1 DEF Solo, Estados

LEMMA LemaReposo ==
  ASSUME TypeOK, NEW h \in Hilos, hilo' = [hilo EXCEPT ![h] = Reposo]
  PROVE  Solo(h) /\ hilo'[h].pc = "nada"
BY DEF TypeOK, Solo, Reposo

\* Nobody else is at work when a thread is.
LEMMA LemaUno ==
  ASSUME Orden, huerfanos = {}, NEW h \in Hilos, hilo[h].pc # "nada"
  PROVE  h \notin terminados /\ \A g \in Hilos \ {h} : hilo[g].pc = "nada"
BY DEF Orden

\* When one thread works, it is enough to look at what it sees.
LEMMA LemaSolo ==
  ASSUME huerfanos = {}, UNCHANGED huerfanos, Orden, terminados \subseteq Hilos,
         NEW h \in Hilos, h \notin terminados, Solo(h),
         \A g \in Hilos \ {h} : hilo[g].pc = "nada",
         terminados' \subseteq terminados \union {h},
         hilo'[h].pc # "nada" => terminados' = terminados,
         Sabe(h)', ~quito' => Vigente(h)'
  PROVE  Orden' /\ Recuerda' /\ Encuentra'
<1>1. \A g \in Hilos \ {h} : hilo'[g].pc = "nada"
  BY DEF Solo
<1>2. Orden'
  BY <1>1 DEF Orden
<1>3. \A g \in Hilos \ {h} : Sabe(g)' /\ Vigente(g)'
  BY <1>1 DEF Sabe, Vigente
<1> QED BY <1>2, <1>3 DEF Recuerda, Encuentra

\* A thread that is over with its sentence has nothing to remember.
LEMMA LemaNada == \A h \in Hilos : hilo'[h].pc = "nada" => Sabe(h)' /\ Vigente(h)'
BY DEF Sabe, Vigente

\* Objects that are only removed, and never renamed, stay alone.
LEMMA LemaCon ==
  ASSUME TypeOK, SinDuplicadas, huerfanos = {}, lista_claves' \subseteq lista_claves,
         \A o \in DOMAIN claves : claves'[o].clave = claves[o].clave
  PROVE  (\A k : Con(k)' \subseteq Con(k)) /\ SinDuplicadas'
<1>1. \A k : Con(k)' \subseteq Con(k)
  BY DEF Con, TypeOK
<1>2. \A k \in Claves : Repetida(k)' => Repetida(k)
  BY <1>1 DEF Repetida
<1> QED BY <1>1, <1>2 DEF SinDuplicadas

(***************************************************************************)
(* The steps of a thread, while no ESI has died with a sentence.           *)
(***************************************************************************)

\* A thread that answers, or whose next step is any, without a new object.
LEMMA LemaListas ==
  ASSUME TypeOK, Listas, huerfanos = {}, UNCHANGED historia,
         NEW h \in Hilos, hilo[h].pc # "nada", Solo(h),
         lista_claves' \subseteq lista_claves,
         \A o \in DOMAIN claves : claves'[o].clave = claves[o].clave,
         terminados' \subseteq terminados \union {h},
         hilo'[h].pc # "nada" => terminados' = terminados,
         falla' \in {"nulo", "basura"} => quito,
         Sabe(h)', ~quito => Vigente(h)'
  PROVE  Listas'
<1>1. h \notin terminados /\ (\A g \in Hilos \ {h} : hilo[g].pc = "nada") /\ Orden
      /\ terminados \subseteq Hilos /\ SinDuplicadas
  BY LemaUno DEF Listas, TypeOK
<1>2. Orden' /\ Recuerda' /\ Encuentra'
  BY <1>1, LemaSolo DEF historia
<1>3. SinDuplicadas'
  BY <1>1, LemaCon
<1>4. EncuentraLoSuyo'
  BY DEF EncuentraLoSuyo, historia
<1> QED BY <1>2, <1>3, <1>4 DEF Listas

LEMMA LemaResponder ==
  ASSUME TypeOK, NEW h \in Hilos, NEW rta, Responder(h, rta)
  PROVE  Solo(h) /\ hilo'[h].pc = "nada" /\ terminados' \subseteq terminados \union {h}
BY LemaReposo DEF Responder

\* The thread of a sentence that is over.
LEMMA ListasNada ==
  ASSUME TypeOK, Listas, huerfanos = {}, UNCHANGED <<historia, falla, claves>>, falla = "no",
         NEW h \in Hilos, hilo[h].pc # "nada", Solo(h), hilo'[h].pc = "nada",
         lista_claves' \subseteq lista_claves, terminados' \subseteq terminados \union {h}
  PROVE  Listas'
BY LemaNada, LemaListas

LEMMA ListasGuardar ==
  ASSUME TypeOK, Listas, huerfanos = {}, NEW h \in Hilos, guardarClaveInternamente(h)
  PROVE  Listas'
<1> DEFINE k == hilo[h].clave
           o == IF existeClave(k) THEN Primero(k) ELSE 0
           x == IF o = 0 /\ hilo[h].op = "GET" THEN "agregar"
                ELSE IF hilo[h].op # "GET" /\ (o = 0 \/ claves[o].instancia = Nadie)
                THEN "elegir" ELSE TrasGuardar(h)
<1>1. /\ hilo[h].pc = "guardar" /\ falla = "no" /\ k \in Claves
      /\ UNCHANGED <<lista, externo, historia>>
  BY DEF guardarClaveInternamente, En, TypeOK
<1>2. ~Repetida(k)
  BY <1>1 DEF Listas, SinDuplicadas
<1>3. hilo' = [hilo EXCEPT ![h].obj = o, ![h].pc = x] /\ UNCHANGED falla
  BY <1>2 DEF guardarClaveInternamente
<1>4. o = 0 \/ o \in Con(k)
  BY LemaPrimero
<1>5. o = 0 => ~existeClave(k)
  BY LemaPrimero DEF TypeOK
<1>6. /\ Solo(h) /\ hilo'[h].pc = x /\ hilo'[h].obj = o
      /\ hilo'[h].clave = k /\ hilo'[h].op = hilo[h].op
  <2> HIDE DEF o, x
  <2> QED BY <1>3, LemaObjeto
<1>7. /\ x = "agregar" => o = 0 /\ hilo[h].op = "GET"
      /\ x = "elegir" => o = 0 \/ claves[o].instancia = Nadie
      /\ x # "elegir" /\ hilo[h].op # "GET" => o # 0 /\ claves[o].instancia # Nadie
      /\ x \in {"agregar", "elegir", "comprobar", "consultar"}
      /\ x = "comprobar" => hilo[h].op # "GET"
  BY DEF TrasGuardar
<1>8. UNCHANGED <<claves, lista_claves>>
  BY <1>1 DEF lista
<1> HIDE DEF o, x, k
<1>9. Sabe(h)'
  BY <1>5, <1>6, <1>7, <1>8 DEF Sabe, existeClave, Con
<1>10. Vigente(h)'
  BY <1>4, <1>6, <1>7, <1>8 DEF Vigente, Con
<1> QED BY <1>1, <1>3, <1>6, <1>8, <1>9, <1>10, LemaListas DEF externo

\* A step of a thread whose object stays the same.
LEMMA ListasVa ==
  ASSUME TypeOK, Listas, huerfanos = {}, UNCHANGED <<historia, claves, lista_claves, terminados>>,
         NEW h \in Hilos, hilo[h].pc # "nada", Solo(h),
         hilo'[h].clave = hilo[h].clave, hilo'[h].op = hilo[h].op,
         hilo'[h].obj = hilo[h].obj,
         <<hilo[h].pc, hilo'[h].pc>> \in
           {<<"elegir", "lazo">>, <<"comprobar", "consultar">>, <<"comprobar", "eliminar">>,
            <<"enviar", "esperar">>, <<"esperar", "enviar">>}
         \/ (hilo[h].pc = "consultar" /\ hilo'[h].pc = "enviar" /\ hilo[h].op # "GET"),
         falla' \in {"nulo", "basura"} => quito
  PROVE  Listas'
<1>1. Sabe(h) /\ (~quito => Vigente(h))
  BY DEF Listas, Recuerda, Encuentra
<1>2. Sabe(h)'
  BY <1>1 DEF Sabe, existeClave, Con
<1>3. ~quito => Vigente(h)'
  BY <1>1 DEF Vigente, Con
<1> QED BY <1>2, <1>3, LemaListas

\* A key that is not in the list is added.
LEMMA ListasAgregar ==
  ASSUME TypeOK, Listas, huerfanos = {}, UNCHANGED <<historia, falla, terminados>>, falla = "no",
         NEW h \in Hilos, hilo[h].pc # "nada", NEW i \in Destinos, Agregar(h, i),
         ~existeClave(hilo[h].clave), i = Nadie => hilo[h].op = "GET"
  PROVE  Listas'
<1>a. PICK n : n = Len(claves) + 1
  OBVIOUS
<1>b. PICK k \in Claves : k = hilo[h].clave
  BY DEF TypeOK
<1> DEFINE nuevo == [clave |-> k, instancia |-> i]
<1>1. n \in Nat /\ n \notin DOMAIN claves /\ claves' = Append(claves, nuevo)
      /\ lista_claves' = lista_claves \union {n} /\ claves \in Seq(Objetos)
      /\ lista_claves \subseteq DOMAIN claves
  BY <1>a, <1>b DEF Agregar, TypeOK
<1>2. nuevo \in Objetos /\ nuevo.clave = k /\ nuevo.instancia = i
  BY DEF Objetos, Destinos
<1>3. hilo' = [hilo EXCEPT ![h].obj = n, ![h].pc = TrasGuardar(h)]
  BY <1>a DEF Agregar
<1> HIDE DEF nuevo
<1>4. claves'[n] = nuevo /\ \A o \in DOMAIN claves : claves'[o] = claves[o]
  BY <1>a, <1>1, <1>2
<1>5. /\ Solo(h) /\ hilo'[h].pc = TrasGuardar(h) /\ hilo'[h].obj = n
      /\ hilo'[h].clave = k /\ hilo'[h].op = hilo[h].op
  <2>1. /\ Solo(h) /\ hilo'[h].pc = TrasGuardar(h) /\ hilo'[h].obj = n
        /\ hilo'[h].clave = hilo[h].clave /\ hilo'[h].op = hilo[h].op
    BY <1>3, LemaObjeto
  <2> QED BY <1>b, <2>1
<1>6. Con(k)' = {n}
  <2>1. Con(k) = {}
    BY <1>b DEF existeClave
  <2> QED BY <1>1, <1>2, <1>4, <2>1 DEF Con
<1>7. \A c : c # k => Con(c)' = Con(c)
  BY <1>1, <1>2, <1>4 DEF Con
<1>8. SinDuplicadas'
  <2>1. \A c \in Claves : ~Repetida(c)
    BY DEF Listas, SinDuplicadas
  <2>2. ASSUME NEW c \in Claves PROVE ~Repetida(c)'
    <3>1. CASE c = k
      BY <1>6, <3>1 DEF Repetida
    <3>2. CASE c # k
      BY <1>7, <2>1, <3>2 DEF Repetida
    <3> QED BY <3>1, <3>2
  <2> QED BY <2>2 DEF SinDuplicadas
<1>9. TrasGuardar(h) \in {"comprobar", "consultar"}
      /\ (TrasGuardar(h) = "comprobar" => hilo[h].op # "GET")
  BY DEF TrasGuardar
<1>10. Sabe(h)'
  BY <1>5, <1>9 DEF Sabe
<1>11. n # 0
  BY <1>a DEF TypeOK
<1>12. Vigente(h)'
  <2>1. n \in lista_claves' /\ claves'[n].clave = k
    BY <1>1, <1>2, <1>4
  <2>2. hilo[h].op # "GET" => claves'[n].instancia # Nadie
    BY <1>2, <1>4
  <2> QED BY <1>5, <1>9, <1>11, <2>1, <2>2 DEF Vigente, Con
<1>13. Orden' /\ Recuerda' /\ Encuentra'
  BY <1>5, <1>10, <1>12, LemaUno, LemaSolo DEF historia, Listas, TypeOK
<1>14. EncuentraLoSuyo'
  BY DEF EncuentraLoSuyo, historia
<1> QED BY <1>8, <1>13, <1>14 DEF Listas

\* The key that a thread chose an Instancia for gets it.
LEMMA ListasAsignar ==
  ASSUME TypeOK, Listas, huerfanos = {}, UNCHANGED <<historia, falla, terminados>>, falla = "no",
         NEW h \in Hilos, hilo[h].pc \in {"elegir", "lazo"},
         NEW i \in Destinos \ {Nadie}, Asignar(h, i)
  PROVE  Listas'
<1>1. Sabe(h) /\ (~quito => Vigente(h))
  BY DEF Listas, Recuerda, Encuentra
<1>2. CASE hilo[h].obj = 0
  <2>1. ~existeClave(hilo[h].clave) /\ Agregar(h, i)
    BY <1>1, <1>2 DEF Sabe, Asignar
  <2> QED BY <2>1, ListasAgregar
<1>3. CASE hilo[h].obj # 0
  <2>1. PICK o : o = hilo[h].obj
    OBVIOUS
  <2>2. /\ claves' = [claves EXCEPT ![o].instancia = i]
        /\ Va(h, TrasGuardar(h)) /\ UNCHANGED lista_claves
    BY <1>3, <2>1 DEF Asignar
  <2>3. claves \in Seq(Objetos) /\ o \in DOMAIN claves
    BY <1>3, <2>1 DEF TypeOK, Estados
  <2>4. claves'[o].instancia = i /\ \A p \in DOMAIN claves : claves'[p].clave = claves[p].clave
    <3>1. \A p \in DOMAIN claves : claves[p] \in Objetos
      BY <2>3
    <3>2. \A p \in DOMAIN claves :
            claves'[p] = IF p = o THEN [claves[o] EXCEPT !.instancia = i] ELSE claves[p]
      BY <2>2, <2>3
    <3> QED BY <2>3, <3>1, <3>2 DEF Objetos
  <2>5. /\ Solo(h) /\ hilo'[h].pc = TrasGuardar(h) /\ hilo'[h].obj = o
        /\ hilo'[h].clave = hilo[h].clave /\ hilo'[h].op = hilo[h].op
    BY <2>1, <2>2, LemaVa
  <2>6. TrasGuardar(h) \in {"comprobar", "consultar"}
        /\ (TrasGuardar(h) = "comprobar" => hilo[h].op # "GET")
    BY DEF TrasGuardar
  <2>7. Sabe(h)'
    BY <2>5, <2>6 DEF Sabe
  <2>8. ~quito => o \in lista_claves' /\ claves'[o].clave = hilo'[h].clave
    BY <1>1, <1>3, <2>1, <2>2, <2>3, <2>4, <2>5 DEF Vigente, Con
  <2>9. ~quito => Vigente(h)'
    BY <1>3, <2>1, <2>4, <2>5, <2>6, <2>8 DEF Vigente, Con
  <2> QED BY <2>2, <2>4, <2>5, <2>7, <2>9, LemaListas
<1> QED BY <1>2, <1>3

\* Nothing changes for the thread.
LEMMA ListasIgual ==
  ASSUME TypeOK, Listas, huerfanos = {},
         UNCHANGED <<historia, claves, lista_claves, terminados, hilo>>,
         falla' \in {"nulo", "basura"} => quito
  PROVE  Listas'
<1>1. Orden' /\ Recuerda' /\ SinDuplicadas' /\ Encuentra'
  BY DEF Listas, historia, Orden, Recuerda, Sabe, SinDuplicadas, Repetida, Encuentra, Vigente,
         existeClave, Con
<1> QED BY <1>1 DEF Listas, EncuentraLoSuyo, historia

LEMMA LemaNombres == Nadie \notin Instancias /\ ERROR # Nadie
BY DistribucionBienFormada DEF DistribucionBienFormada

LEMMA ListasSinInstancia ==
  ASSUME TypeOK, Listas, huerfanos = {}, UNCHANGED <<historia, terminados>>, falla = "no",
         NEW h \in Hilos, hilo[h].pc \in {"elegir", "lazo"}, SinInstancia(h)
  PROVE  Listas'
<1>1. CASE Asignar(h, ERROR) /\ UNCHANGED falla
  BY <1>1, LemaNombres, ListasAsignar DEF Destinos
<1>2. CASE Romper("error") /\ UNCHANGED <<hilo, lista>>
  BY <1>2, ListasIgual DEF Romper, lista
<1> QED BY <1>1, <1>2 DEF SinInstancia

LEMMA ListasElegir ==
  ASSUME TypeOK, Listas, huerfanos = {}, NEW h \in Hilos,
         AgregarSinInstancia(h) \/ EntrarASiguiente(h) \/ siguienteInstanciaSegunAlgoritmo(h)
  PROVE  Listas'
<1>1. UNCHANGED <<historia, terminados>> /\ falla = "no"
  BY DEF AgregarSinInstancia, EntrarASiguiente, siguienteInstanciaSegunAlgoritmo, En, externo
<1>2. Sabe(h) /\ (~quito => Vigente(h))
  BY DEF Listas, Recuerda, Encuentra
<1>3. CASE AgregarSinInstancia(h)
  <2>1. hilo[h].pc = "agregar" /\ Agregar(h, Nadie) /\ UNCHANGED falla
    BY <1>3 DEF AgregarSinInstancia, En
  <2> QED BY <1>1, <1>2, <2>1, ListasAgregar DEF Sabe, Destinos
<1>4. CASE EntrarASiguiente(h)
  <2>1. hilo[h].pc = "elegir"
    BY <1>4 DEF EntrarASiguiente, En
  <2>2. CASE hilo[h].obj # 0 /\ ~existeClave(hilo[h].clave)
    <3>1. quito
      BY <1>2, <2>1, <2>2 DEF Vigente, existeClave
    <3> QED BY <1>1, <1>4, <2>2, <3>1, ListasIgual DEF EntrarASiguiente, lista
  <2>3. CASE Va(h, "lazo") /\ UNCHANGED <<lista, falla>>
    <3>1. /\ Solo(h) /\ hilo'[h].pc = "lazo" /\ hilo'[h].obj = hilo[h].obj
          /\ hilo'[h].clave = hilo[h].clave /\ hilo'[h].op = hilo[h].op
      BY <2>3, LemaVa
    <3> QED BY <1>1, <2>1, <2>3, <3>1, ListasVa DEF lista
  <2>4. CASE SinInstancia(h)
    BY <1>1, <2>1, <2>4, ListasSinInstancia
  <2> QED BY <1>4, <2>2, <2>3, <2>4 DEF EntrarASiguiente
<1>5. CASE siguienteInstanciaSegunAlgoritmo(h)
  <2> DEFINE k == hilo[h].clave
  <2>1. hilo[h].pc = "lazo"
    BY <1>5 DEF siguienteInstanciaSegunAlgoritmo, En
  <2>a. CASE PasaDeLaZ(k)
    BY <1>1, <1>5, <2>a, ListasIgual DEF siguienteInstanciaSegunAlgoritmo, Romper, lista
  <2>2. CASE ~PasaDeLaZ(k) /\ Elegida(k) = {}
    BY <1>1, <1>5, <2>2, ListasIgual DEF siguienteInstanciaSegunAlgoritmo, lista
  <2>3. CASE ~PasaDeLaZ(k) /\ Elegida(k) = {ERROR}
    <3>1. SinInstancia(h)
      BY <1>5, <2>3 DEF siguienteInstanciaSegunAlgoritmo
    <3> QED BY <1>1, <2>1, <3>1, ListasSinInstancia
  <2>4. CASE ~PasaDeLaZ(k) /\ Elegida(k) # {} /\ Elegida(k) # {ERROR}
    <3>1. Asignar(h, Candidata(k)) /\ UNCHANGED falla
      BY <1>5, <2>4 DEF siguienteInstanciaSegunAlgoritmo
    <3>2. Candidata(k) \in Destinos \ {Nadie}
      BY <2>4, TipoCandidata, LemaNombres DEF Destinos
    <3> QED BY <1>1, <2>1, <3>1, <3>2, ListasAsignar
  <2> QED BY <2>a, <2>2, <2>3, <2>4
<1> QED BY <1>3, <1>4, <1>5

LEMMA ListasComprobar ==
  ASSUME TypeOK, Listas, huerfanos = {}, NEW h \in Hilos, Comprobar(h) \/ Eliminar(h)
  PROVE  Listas'
<1>1. UNCHANGED <<historia, claves>> /\ falla = "no" /\ hilo[h].pc # "nada"
  BY DEF Comprobar, Eliminar, En, lista
<1>2. CASE Comprobar(h)
  <2>1. /\ hilo[h].pc = "comprobar" /\ UNCHANGED <<lista_claves, terminados, falla>>
        /\ \E x \in {"consultar", "eliminar"} : Va(h, x)
    BY <1>2 DEF Comprobar, En, lista, externo
  <2>2. /\ Solo(h) /\ hilo'[h].pc \in {"consultar", "eliminar"} /\ hilo'[h].obj = hilo[h].obj
        /\ hilo'[h].clave = hilo[h].clave /\ hilo'[h].op = hilo[h].op
    BY <2>1, LemaVa
  <2> QED BY <1>1, <2>1, <2>2, ListasVa
<1>3. CASE Eliminar(h)
  <2>1. CASE lista_claves = {}
    <3>1. hilo[h].pc = "eliminar" /\ UNCHANGED <<lista_claves, hilo, terminados>>
      BY <1>3, <2>1 DEF Eliminar, En, externo
    <3>2. ~quito => hilo[h].obj \in Con(hilo[h].clave)
      BY <3>1 DEF Listas, Encuentra, Vigente
    <3>3. quito
      BY <2>1, <3>2 DEF Con
    <3> QED BY <1>1, <3>1, <3>3, ListasIgual
  <2>2. CASE lista_claves # {}
    <3>1. Responder(h, "ABORTAR") /\ lista_claves' \subseteq lista_claves /\ UNCHANGED falla
      BY <1>3, <2>2, LemaEliminar DEF Eliminar
    <3> QED BY <1>1, <3>1, LemaResponder, ListasNada
  <2> QED BY <2>1, <2>2
<1> QED BY <1>2, <1>3

LEMMA ListasConsultar ==
  ASSUME TypeOK, Listas, huerfanos = {}, NEW h \in Hilos, Consultar(h)
  PROVE  Listas'
<1> DEFINE op == hilo[h].op
           v == Veredicto(h, op, hilo[h].clave)
<1>1. UNCHANGED <<historia, falla, claves, lista_claves>> /\ falla = "no"
      /\ hilo[h].pc = "consultar"
  BY DEF Consultar, En, lista
<1>2. CASE v = "CORRECTO" /\ op # "GET"
  <2>1. Va(h, "enviar") /\ UNCHANGED terminados
    BY <1>2 DEF Consultar
  <2>2. /\ Solo(h) /\ hilo'[h].pc = "enviar" /\ hilo'[h].obj = hilo[h].obj
        /\ hilo'[h].clave = hilo[h].clave /\ hilo'[h].op = hilo[h].op
    BY <2>1, LemaVa
  <2> QED BY <1>1, <1>2, <2>1, <2>2, ListasVa
<1>3. CASE v = "CORRECTO" /\ op = "GET" /\ h \notin terminados
  <2>1. hilo' = [hilo EXCEPT ![h] = Reposo] /\ UNCHANGED terminados
    BY <1>3 DEF Consultar
  <2> QED BY <1>1, <2>1, LemaReposo, ListasNada
<1>4. CASE ~(v = "CORRECTO" /\ op # "GET") /\ ~(v = "CORRECTO" /\ h \notin terminados)
  <2>1. Responder(h, v)
    BY <1>4 DEF Consultar
  <2> QED BY <1>1, <2>1, LemaResponder, ListasNada
<1> QED BY <1>2, <1>3, <1>4

LEMMA ListasEnviar ==
  ASSUME TypeOK, Listas, huerfanos = {}, NEW h \in Hilos, enviarSentenciaInstancia(h)
  PROVE  Listas'
<1> DEFINE k == hilo[h].clave
           i == claves[Primero(k)].instancia
<1>1. UNCHANGED <<historia, claves, lista_claves>> /\ falla = "no" /\ hilo[h].pc = "enviar"
      /\ k \in Claves
  BY DEF enviarSentenciaInstancia, En, lista, TypeOK
<1>2. ~Repetida(k) /\ (~quito => Vigente(h))
  BY <1>1 DEF Listas, SinDuplicadas, Encuentra
<1>3. ~quito => existeClave(k) /\ Primero(k) = hilo[h].obj /\ i # Nadie
  <2>1. SUFFICES ASSUME ~quito
                 PROVE  existeClave(k) /\ Primero(k) = hilo[h].obj /\ i # Nadie
    OBVIOUS
  <2>2. hilo[h].obj \in Con(k) /\ claves[hilo[h].obj].instancia # Nadie
    BY <1>1, <1>2, <2>1 DEF Vigente
  <2>3. existeClave(k) /\ Primero(k) \in Con(k)
    BY <2>2, LemaPrimero DEF existeClave
  <2>4. Primero(k) = hilo[h].obj
    BY <1>2, <2>2, <2>3 DEF Repetida
  <2> QED BY <2>2, <2>3, <2>4
<1>4. CASE ~existeClave(k) \/ i = Nadie
  <2>1. quito /\ UNCHANGED <<hilo, externo>>
    BY <1>3, <1>4 DEF enviarSentenciaInstancia
  <2> QED BY <1>1, <2>1, ListasIgual DEF externo
<1>5. CASE Romper("error") /\ UNCHANGED <<hilo, flag, externo>>
  BY <1>1, <1>5, ListasIgual DEF Romper, externo
<1>6. CASE /\ UNCHANGED <<falla, externo>>
           /\ hilo' = [hilo EXCEPT ![h].proxima = i, ![h].pc = "esperar"]
  <2>1. /\ Solo(h) /\ hilo'[h].pc = "esperar" /\ hilo'[h].obj = hilo[h].obj
        /\ hilo'[h].clave = k /\ hilo'[h].op = hilo[h].op
    <3>1. PICK j : j = i
      OBVIOUS
    <3>2. hilo' = [hilo EXCEPT ![h].proxima = j, ![h].pc = "esperar"]
      BY <1>6, <3>1
    <3> QED BY <3>2, LemaProxima
  <2>2. falla' = "no" /\ UNCHANGED terminados
    BY <1>1, <1>6 DEF externo
  <2> QED BY <1>1, <2>1, <2>2, ListasVa
<1>7. CASE Responder(h, "ABORTAR") /\ UNCHANGED falla
  BY <1>1, <1>7, LemaResponder, ListasNada
<1>8. CASE existeClave(k) /\ i # Nadie
  <2>1. \/ Romper("error") /\ UNCHANGED <<hilo, flag, externo>>
        \/ /\ UNCHANGED <<falla, externo>>
           /\ hilo' = [hilo EXCEPT ![h].proxima = i, ![h].pc = "esperar"]
        \/ Responder(h, "ABORTAR") /\ UNCHANGED falla
    BY <1>2, <1>8 DEF enviarSentenciaInstancia
  <2> QED BY <2>1, <1>5, <1>6, <1>7
<1> QED BY <1>4, <1>8

LEMMA ListasRespuesta ==
  ASSUME TypeOK, Listas, huerfanos = {}, NEW h \in Hilos, RecibirRespuesta(h)
  PROVE  Listas'
<1>1. UNCHANGED <<historia, claves, lista_claves>> /\ falla = "no"
      /\ hilo[h].pc = "esperar"
  BY DEF RecibirRespuesta, En, lista
<1>2. CASE /\ hilo' = [hilo EXCEPT ![h].reintentos = @ + 1, ![h].proxima = Nadie, ![h].pc = "enviar"]
           /\ UNCHANGED <<externo, falla>>
  <2>1. /\ Solo(h) /\ hilo'[h].pc = "enviar" /\ hilo'[h].obj = hilo[h].obj
        /\ hilo'[h].clave = hilo[h].clave /\ hilo'[h].op = hilo[h].op
    <3>1. hilo \in [Hilos -> Estados(Len(claves))]
      BY DEF TypeOK
    <3> QED BY <1>2, <3>1 DEF Solo, Estados
  <2> QED BY <1>1, <1>2, <2>1, ListasVa DEF externo
<1>3. CASE \E rta : Responder(h, rta) /\ UNCHANGED falla
  BY <1>1, <1>3, LemaResponder, ListasNada
<1>4. CASE Romper("texto") /\ UNCHANGED <<hilo, externo>>
  BY <1>1, <1>4, ListasIgual DEF Romper, externo
<1> QED BY <1>2, <1>3, <1>4 DEF RecibirRespuesta

LEMMA ListasPaso ==
  ASSUME TypeOK, Listas, huerfanos = {}, NEW h \in Hilos, Paso(h)
  PROVE  Listas'
BY ListasGuardar, ListasElegir, ListasComprobar, ListasConsultar, ListasEnviar, ListasRespuesta
DEF Paso

(***************************************************************************)
(* The other steps.                                                        *)
(***************************************************************************)

\* Nobody is at work when an ESI sends.
LEMMA ListasRecibir ==
  ASSUME TypeOK, Listas, huerfanos = {}, NEW h \in Hilos, NEW op \in {"GET", "SET", "STORE"},
         NEW k \in Claves, Recibir(h, op, k)
  PROVE  Listas'
<1>1. /\ h \notin terminados /\ terminados \subseteq Hilos
      /\ \A g \in Hilos : hilo[g].pc = "nada"
  BY DEF Recibir, Listas, Orden, TypeOK
<1>2. UNCHANGED <<claves, lista_claves, historia, falla>>
  BY DEF Recibir, lista
<1>3. /\ Solo(h) /\ terminados' \subseteq terminados \union {h}
      /\ \/ hilo'[h].pc = "nada"
         \/ hilo'[h].pc = "guardar" /\ hilo'[h].obj = 0 /\ terminados' = terminados
  <2>1. CASE lista_instancias = <<>> \/ (op # "GET" /\ ~existeClave(k))
    BY <2>1, LemaResponder DEF Recibir
  <2>2. CASE ~(lista_instancias = <<>> \/ (op # "GET" /\ ~existeClave(k)))
    <3>1. hilo' = [hilo EXCEPT ![h] = [pc |-> "guardar", op |-> op, clave |-> k, obj |-> 0,
                                       proxima |-> Nadie, reintentos |-> 0]] /\ UNCHANGED externo
      BY <2>2 DEF Recibir
    <3> QED BY <3>1 DEF externo, TypeOK, Solo
  <2> QED BY <2>1, <2>2
<1>4. Sabe(h)' /\ Vigente(h)'
  BY <1>3 DEF Sabe, Vigente
<1>5. Orden' /\ Recuerda' /\ Encuentra'
  BY <1>1, <1>2, <1>3, <1>4, LemaSolo DEF historia, Listas
<1>6. SinDuplicadas' /\ EncuentraLoSuyo'
  BY <1>2, LemaCon DEF Listas, EncuentraLoSuyo, historia
<1> QED BY <1>5, <1>6 DEF Listas

\* The thread of the command status only removes keys, and then says so.
LEMMA ListasStatus ==
  ASSUME TypeOK, Listas, huerfanos = {}, PasoStatus
  PROVE  Listas'
<1>1. UNCHANGED <<claves, hilo, terminados, huerfanos>>
  BY DEF PasoStatus, EntrarASimular, Simular, ComprobarStatus, EliminarStatus,
         lista, externo, historia
<1>2. CASE EntrarASimular \/ Simular \/ ComprobarStatus
  <2>1. UNCHANGED <<lista_claves, historia>> /\ falla' \notin {"nulo", "basura"}
    BY <1>2 DEF EntrarASimular, Simular, ComprobarStatus, EnStatus, SimularSinInstancia, Romper,
                lista
  <2> QED BY <1>1, <2>1, ListasIgual
<1>3. CASE EliminarStatus
  <2>1. lista_claves' \subseteq lista_claves /\ quito' = TRUE
    BY <1>3, LemaEliminar DEF EliminarStatus
  <2>2. (\A k : Con(k)' \subseteq Con(k)) /\ SinDuplicadas'
    BY <1>1, <2>1, LemaCon DEF Listas
  <2>3. \A h \in Hilos : Sabe(h) => Sabe(h)'
    BY <1>1, <2>1 DEF Sabe, existeClave, Con
  <2>4. Orden' /\ Recuerda' /\ Encuentra' /\ EncuentraLoSuyo'
    BY <1>1, <2>1, <2>3 DEF Listas, Orden, Recuerda, Encuentra, EncuentraLoSuyo
  <2> QED BY <2>2, <2>4 DEF Listas
<1> QED BY <1>2, <1>3 DEF PasoStatus

\* An ESI that dies between two sentences.
LEMMA ListasMorir ==
  ASSUME TypeOK, Listas, huerfanos = {}, NEW h \in Hilos, MorirESI(h), UNCHANGED huerfanos
  PROVE  Listas'
<1>1. hilo[h].pc = "nada"
  BY DEF MorirESI
<1>2. terminados' = terminados \union {h} /\ UNCHANGED <<claves, lista_claves, hilo, quito, falla>>
  BY DEF MorirESI, lista
<1>3. Orden'
  BY <1>1, <1>2 DEF Listas, Orden
<1>4. Recuerda' /\ SinDuplicadas' /\ Encuentra' /\ EncuentraLoSuyo'
  BY <1>2 DEF Listas, Recuerda, Sabe, SinDuplicadas, Repetida, Encuentra, Vigente,
              existeClave, Con, EncuentraLoSuyo
<1> QED BY <1>3, <1>4 DEF Listas

\* Once an ESI has died with a sentence, nothing is promised.
LEMMA ListasHuerfanos == huerfanos' # {} => Listas'
BY DEF Listas, Orden, Recuerda, SinDuplicadas, Encuentra, EncuentraLoSuyo

LEMMA HuerfanosCrecen == [Next]_vars => huerfanos \subseteq huerfanos'
BY DEF Next, Recibir, Paso, guardarClaveInternamente, AgregarSinInstancia, EntrarASiguiente,
       siguienteInstanciaSegunAlgoritmo, Comprobar, Eliminar, Consultar,
       enviarSentenciaInstancia, RecibirRespuesta, buscar_clave, PasoStatus, EntrarASimular,
       Simular, ComprobarStatus, EliminarStatus, guardarEnListaDeInstancias, MorirInstancia,
       MorirESI, historia, vars

LEMMA ListasNext == IInv /\ [Next]_vars => Listas'
<1> SUFFICES ASSUME TypeOK, Listas, [Next]_vars, huerfanos' = {}
             PROVE  Listas'
  BY ListasHuerfanos DEF IInv
<1>0. huerfanos = {} /\ UNCHANGED huerfanos
  BY HuerfanosCrecen
<1>1. CASE UNCHANGED vars
  BY <1>0, <1>1, ListasIgual DEF Listas, EncuentraLoSuyo, vars, lista, externo
<1>2. CASE \E h \in Hilos, op \in {"GET", "SET", "STORE"}, k \in Claves : Recibir(h, op, k)
  BY <1>0, <1>2, ListasRecibir
<1>3. CASE \E h \in Hilos : Paso(h)
  BY <1>0, <1>3, ListasPaso
<1>4. CASE \E k \in Claves : buscar_clave(k)
  BY <1>0, <1>4, ListasIgual DEF buscar_clave, EnStatus, lista, externo
<1>5. CASE PasoStatus
  BY <1>0, <1>5, ListasStatus
<1>6. CASE \E i \in Instancias : guardarEnListaDeInstancias(i) \/ MorirInstancia(i)
  BY <1>0, <1>6, ListasIgual DEF guardarEnListaDeInstancias, MorirInstancia, lista, externo
<1>7. CASE \E h \in Hilos : MorirESI(h)
  BY <1>0, <1>7, ListasMorir
<1> QED BY <1>1, <1>2, <1>3, <1>4, <1>5, <1>6, <1>7 DEF Next

LEMMA IInvInit == Init => IInv
<1> SUFFICES ASSUME Init PROVE IInv
  OBVIOUS
<1>1. \A h \in Hilos : hilo[h].pc = "nada" /\ hilo[h].obj = 0
  BY DEF Init, Reposo
<1>2. HayLista /\ Orden /\ Recuerda /\ Encuentra
  BY <1>1 DEF Init, HayLista, Orden, Recuerda, Sabe, Encuentra, Vigente
<1>3. SinDuplicadas /\ EncuentraLoSuyo
  BY DEF Init, SinDuplicadas, Repetida, Con, EncuentraLoSuyo
<1> QED BY <1>2, <1>3, TipoInit DEF IInv, Listas

LEMMA IInvNext == IInv /\ [Next]_vars => IInv'
BY TipoNext, HayListaNext, ListasNext DEF IInv

LEMMA IInvSiempre == Spec => []IInv
BY IInvInit, IInvNext, PTL DEF Spec

(***************************************************************************)
(* Why the Coordinador breaks otherwise.                                   *)
(***************************************************************************)

\* Every Instancia that the Coordinador knows has connected.
VidaBien ==
  /\ \A n \in DOMAIN lista_instancias : vida[lista_instancias[n]] >= 1
  /\ \A i \in Instancias : viva[i] => vida[i] >= 1

\* A key is given to an Instancia that has connected, or to ERROR after one has died.
ObjetosBien ==
  \A o \in DOMAIN claves :
    /\ claves[o].instancia \in Instancias => vida[claves[o].instancia] >= 1
    /\ claves[o].instancia = ERROR => Murio

\* An answer is awaited from an Instancia that has connected.
EsperaBien ==
  \A h \in Hilos : hilo[h].pc = "esperar" =>
    hilo[h].proxima \in Instancias /\ vida[hilo[h].proxima] >= 1

\* The command status works on a key, with an Instancia in the list.
MiraBien == status.pc # "nada" => status.obj # 0 /\ lista_instancias # <<>>

Conoce == VidaBien /\ ObjetosBien /\ EsperaBien /\ MiraBien

\* The rest of NoCae.
Causas ==
  /\ falla = "error" => Murio
  /\ falla = "letra" => \E k \in Claves : PasaDeLaZ(k)
  /\ falla = "texto" =>
       Murio \/ huerfanos # {} \/ consultas > 0 \/ \E h \in Hilos : hilo[h].reintentos = 3

CInv == IInv /\ Conoce /\ Causas

LEMMA LemaMuerta ==
  ASSUME TypeOK, VidaBien, NEW n \in DOMAIN lista_instancias, ~viva[lista_instancias[n]]
  PROVE  Murio
<1>1. lista_instancias[n] \in Instancias
  BY DEF TypeOK
<1> QED BY <1>1 DEF VidaBien, Murio, TypeOK

LEMMA LemaNoHay ==
  ASSUME TypeOK, VidaBien, lista_instancias # <<>>, ~Hay
  PROVE  Murio
<1>1. 1 \in DOMAIN lista_instancias
  BY DEF TypeOK
<1> QED BY <1>1, LemaMuerta DEF Hay

\* LSU chooses an Instancia of the list.
LEMMA LemaLSU ==
  ASSUME TypeOK, lista_instancias # <<>>
  PROVE  \E n \in DOMAIN lista_instancias : siguienteLSU = lista_instancias[n]
<1>1. 1 \in DOMAIN lista_instancias /\ DOMAIN lista_instancias \in SUBSET Nat
  BY DEF TypeOK
<1>2. CASE Mejores = {}
  BY <1>1, <1>2 DEF siguienteLSU
<1>3. CASE Mejores # {}
  <2> DEFINE usadas(n) == MaxLibres - libres[lista_instancias[n]]
             U == {usadas(n) : n \in Mejores}
  <2>1. \A n \in Mejores :
          n \in DOMAIN lista_instancias /\ libres[lista_instancias[n]] \in 0..MaxLibres
    BY DEF Mejores, TypeOK
  <2>2. \A n \in Mejores : usadas(n) \in Nat
    BY <2>1, LemaCotas
  <2>3. U \in SUBSET Nat /\ U # {}
    BY <1>3, <2>2
  <2>4. PICK m \in Mejores : \A n \in Mejores : usadas(m) <= usadas(n)
    <3>1. Min(U) \in U /\ \A y \in U : Min(U) <= y
      BY <2>3, LemaMin
    <3> QED BY <3>1
  <2>5. m \in Maximos
    BY <2>1, <2>4, LemaCotas DEF Maximos
  <2>6. Maximos \subseteq DOMAIN lista_instancias
    BY <2>1 DEF Maximos
  <2>7. Min(Maximos) \in Maximos
    <3>1. Maximos \in SUBSET Nat /\ Maximos # {}
      BY <1>1, <2>5, <2>6
    <3> QED BY <3>1, LemaMin
  <2> QED BY <1>3, <2>6, <2>7 DEF siguienteLSU
<1> QED BY <1>2, <1>3

\* The letters that KE gives to all the Instancias are more than there are.
LEMMA LemaRangos ==
  ASSUME NEW cant \in Nat \ {0}, NEW letra \in 0..25
  PROVE  (letra \div (RangoDeLetras(cant) + 1)) + 1 \in 1..cant
<1> DEFINE q == 25 \div cant
           r == 25 % cant
           R == RangoDeLetras(cant)
           d == letra \div (R + 1)
<1>1. q \in Nat /\ r \in Nat /\ r < cant /\ 25 = cant * q + r
  OBVIOUS
<1>2. R = IF r > 0 THEN q + 1 ELSE q
  BY <1>1 DEF RangoDeLetras, CANTIDAD_LETRAS
<1>3. R \in Nat /\ cant * R >= 25
  <2>1. CASE r > 0
    <3>1. R = q + 1 /\ cant * (q + 1) = cant * q + cant
      BY <1>1, <1>2, <2>1
    <3> QED BY <1>1, <3>1
  <2>2. CASE ~(r > 0)
    BY <1>1, <1>2, <2>2
  <2> QED BY <2>1, <2>2
<1> HIDE DEF q, r, R
<1>4. d \in Nat /\ (R + 1) * d <= letra
  BY <1>3
<1> HIDE DEF d
<1>5. (R + 1) * cant > 25
  <2>1. (R + 1) * cant = cant * R + cant
    BY <1>3
  <2>2. cant * R \in Nat
    BY <1>3
  <2> QED BY <1>3, <2>1, <2>2
<1>6. d < cant
  <2>1. SUFFICES ASSUME d >= cant PROVE FALSE
    BY <1>4
  <2>2. PICK e \in Nat : d = cant + e
    <3>1. d - cant \in Nat /\ d = cant + (d - cant)
      BY <1>4, <2>1
    <3> QED BY <3>1
  <2>3. (R + 1) * d = (R + 1) * cant + (R + 1) * e /\ (R + 1) * e \in Nat
        /\ (R + 1) * cant \in Nat
    BY <1>3, <2>2
  <2> QED BY <1>4, <1>5, <2>3
<1> QED BY <1>4, <1>6 DEF d, R

LEMMA LemaKE ==
  ASSUME TypeOK, lista_instancias # <<>>, NEW k \in Claves, Letra[k] # 26
  PROVE  \E n \in DOMAIN lista_instancias : siguienteKeyExplicit(k) = lista_instancias[n]
<1>1. Len(lista_instancias) \in Nat \ {0} /\ DOMAIN lista_instancias = 1..Len(lista_instancias)
  BY DEF TypeOK
<1>2. Letra[k] \in 0..25
  <2>1. Letra[k] \in 0..26
    BY DistribucionBienFormada DEF DistribucionBienFormada
  <2> QED BY <2>1
<1> QED BY <1>1, <1>2, LemaRangos DEF siguienteKeyExplicit

\* ERROR is what LSU and KE give when the Instancia they chose is down.
LEMMA LemaElegida ==
  ASSUME TypeOK, VidaBien, lista_instancias # <<>>, NEW k \in Claves, ~PasaDeLaZ(k),
         Elegida(k) = {ERROR}
  PROVE  Murio
<1>1. ERROR \notin Instancias /\ algoritmo \in {"EQL", "LSU", "KE"}
  BY DistribucionBienFormada DEF DistribucionBienFormada, TypeOK
<1>2. ~Conectada(Candidata(k)) /\ algoritmo # "EQL"
  BY <1>1 DEF Elegida, Conectada
<1>3. \E n \in DOMAIN lista_instancias : Candidata(k) = lista_instancias[n]
  <2>1. CASE algoritmo = "LSU"
    BY <2>1, LemaLSU DEF Candidata
  <2>2. CASE algoritmo = "KE"
    BY <2>2, LemaKE DEF Candidata, PasaDeLaZ
  <2> QED BY <1>1, <1>2, <2>1, <2>2
<1>4. PICK n \in DOMAIN lista_instancias : Candidata(k) = lista_instancias[n]
  BY <1>3
<1>5. lista_instancias[n] \in Instancias
  BY DEF TypeOK
<1> QED BY <1>2, <1>4, <1>5, LemaMuerta DEF Conectada

\* No Instancia lives less, and what has died has died.
LEMMA LemaMurio ==
  ASSUME TypeOK, [Next]_vars
  PROVE  (Murio => Murio') /\ \A i \in Instancias : vida[i] >= 1 => vida'[i] >= 1
<1>1. CASE UNCHANGED <<viva, vida>>
  BY <1>1 DEF Murio
<1>2. CASE \E i \in Instancias : guardarEnListaDeInstancias(i)
  <2>1. PICK i \in Instancias : guardarEnListaDeInstancias(i)
    BY <1>2
  <2>2. /\ \A j \in Instancias : vida[j] \in Nat
        /\ \A j \in Instancias : vida'[j] = IF j = i THEN vida[i] + 1 ELSE vida[j]
        /\ \A j \in Instancias : viva'[j] = IF j = i THEN TRUE ELSE viva[j]
        /\ ~viva[i]
    <3>1. vida' = [vida EXCEPT ![i] = @ + 1] /\ viva' = [viva EXCEPT ![i] = TRUE] /\ ~viva[i]
      BY <2>1 DEF guardarEnListaDeInstancias
    <3> QED BY <3>1, LemaCotas DEF TypeOK
  <2>3. ASSUME Murio PROVE Murio'
    <3>1. PICK j \in Instancias : vida[j] > (IF viva[j] THEN 1 ELSE 0)
      BY <2>3 DEF Murio
    <3>2. vida'[j] > (IF viva'[j] THEN 1 ELSE 0)
      <4>1. CASE j = i
        <5>1. vida'[j] = vida[j] + 1 /\ vida[j] > 0 /\ vida[j] \in Nat /\ viva'[j]
          BY <2>2, <3>1, <4>1
        <5> QED BY <5>1
      <4>2. CASE j # i
        BY <2>2, <3>1, <4>2
      <4> QED BY <4>1, <4>2
    <3> QED BY <3>2 DEF Murio
  <2> QED BY <2>2, <2>3
<1>3. CASE \E i \in Instancias : MorirInstancia(i)
  <2>1. PICK i \in Instancias : MorirInstancia(i)
    BY <1>3
  <2>2. /\ \A j \in Instancias : vida[j] \in Nat
        /\ vida' = vida
        /\ \A j \in Instancias : viva'[j] = IF j = i THEN FALSE ELSE viva[j]
        /\ viva[i] = TRUE
    <3>1. vida' = vida /\ viva' = [viva EXCEPT ![i] = FALSE] /\ viva[i]
      BY <2>1 DEF MorirInstancia
    <3> QED BY <3>1, LemaCotas DEF TypeOK
  <2>3. ASSUME Murio PROVE Murio'
    <3>1. PICK j \in Instancias : vida[j] > (IF viva[j] THEN 1 ELSE 0)
      BY <2>3 DEF Murio
    <3>2. vida'[j] > (IF viva'[j] THEN 1 ELSE 0)
      <4>1. CASE j = i
        <5>1. vida'[j] = vida[j] /\ vida[j] \in Nat /\ viva[j] = TRUE /\ viva'[j] = FALSE
          BY <2>2, <4>1
        <5>2. vida[j] > 1
          BY <3>1, <5>1
        <5> QED BY <5>1, <5>2
      <4>2. CASE j # i
        BY <2>2, <3>1, <4>2
      <4> QED BY <4>1, <4>2
    <3> QED BY <3>2 DEF Murio
  <2> QED BY <2>2, <2>3
<1> QED BY <1>1, <1>2, <1>3
        DEF Next, Recibir, Paso, guardarClaveInternamente, AgregarSinInstancia, EntrarASiguiente,
            siguienteInstanciaSegunAlgoritmo, Comprobar, Eliminar, Consultar,
            enviarSentenciaInstancia, RecibirRespuesta, buscar_clave, PasoStatus, EntrarASimular,
            Simular, ComprobarStatus, EliminarStatus, MorirESI, instancia, vars

LEMMA VidaNext == TypeOK /\ VidaBien /\ [Next]_vars => VidaBien'
<1> SUFFICES ASSUME TypeOK, VidaBien, [Next]_vars PROVE VidaBien'
  OBVIOUS
<1>1. CASE UNCHANGED <<lista_instancias, viva, vida>>
  BY <1>1 DEF VidaBien
<1>2. CASE \E i \in Instancias : guardarEnListaDeInstancias(i)
  <2>1. PICK i \in Instancias : guardarEnListaDeInstancias(i)
    BY <1>2
  <2>2. vida[i] \in Nat /\ vida' = [vida EXCEPT ![i] = @ + 1] /\ viva' = [viva EXCEPT ![i] = TRUE]
    BY <2>1, LemaCotas DEF guardarEnListaDeInstancias, TypeOK
  <2>3. \A j \in Instancias : vida'[j] = IF j = i THEN vida[i] + 1 ELSE vida[j]
    BY <2>2 DEF TypeOK
  <2>4. \A j \in Instancias : viva'[j] => vida'[j] >= 1
    BY <2>2, <2>3 DEF VidaBien, TypeOK
  <2>5. \A n \in DOMAIN lista_instancias' :
          lista_instancias'[n] = i
          \/ (n \in DOMAIN lista_instancias /\ lista_instancias'[n] = lista_instancias[n])
    <3>1. lista_instancias' = lista_instancias \/ lista_instancias' = Append(lista_instancias, i)
      BY <2>1 DEF guardarEnListaDeInstancias
    <3>2. lista_instancias \in Seq(Instancias)
      BY DEF TypeOK
    <3> QED BY <3>1, <3>2
  <2>6. \A n \in DOMAIN lista_instancias' : vida'[lista_instancias'[n]] >= 1
    <3>1. \A n \in DOMAIN lista_instancias : lista_instancias[n] \in Instancias
      BY DEF TypeOK
    <3> QED BY <2>2, <2>3, <2>5, <3>1 DEF VidaBien
  <2> QED BY <2>4, <2>6 DEF VidaBien
<1>3. CASE \E i \in Instancias : MorirInstancia(i)
  BY <1>3 DEF MorirInstancia, VidaBien, TypeOK
<1> QED BY <1>1, <1>2, <1>3
        DEF Next, Recibir, Paso, guardarClaveInternamente, AgregarSinInstancia, EntrarASiguiente,
            siguienteInstanciaSegunAlgoritmo, Comprobar, Eliminar, Consultar,
            enviarSentenciaInstancia, RecibirRespuesta, buscar_clave, PasoStatus, EntrarASimular,
            Simular, ComprobarStatus, EliminarStatus, MorirESI, instancia, vars

\* What Asignar does to the objects.
LEMMA LemaObjetos ==
  ASSUME TypeOK, NEW h \in Hilos, NEW i,
         Agregar(h, i) \/ (Asignar(h, i) /\ i # Nadie /\ hilo[h].pc # "nada")
  PROVE  /\ lista_claves \subseteq lista_claves'
         /\ \A o \in DOMAIN claves :
              /\ o \in DOMAIN claves' /\ claves'[o].clave = claves[o].clave
              /\ claves[o].instancia # Nadie => claves'[o].instancia # Nadie
         /\ \A o \in DOMAIN claves' :
              claves'[o].instancia = i
              \/ (o \in DOMAIN claves /\ claves'[o].instancia = claves[o].instancia)
         /\ Solo(h) /\ hilo'[h].pc \in {"comprobar", "consultar"}
<1>0. claves \in Seq(Objetos) /\ TrasGuardar(h) \in {"comprobar", "consultar"}
  BY DEF TypeOK, TrasGuardar
<1>1. CASE Agregar(h, i)
  <2>1. claves' = Append(claves, [clave |-> hilo[h].clave, instancia |-> i])
    BY <1>1 DEF Agregar
  <2>2. Solo(h) /\ hilo'[h].pc = TrasGuardar(h)
    <3>1. PICK o, x : o = Len(claves) + 1 /\ x = TrasGuardar(h)
      OBVIOUS
    <3>2. hilo' = [hilo EXCEPT ![h].obj = o, ![h].pc = x]
      BY <1>1, <3>1 DEF Agregar
    <3>3. Solo(h) /\ hilo'[h].pc = x
      <4>1. hilo \in [Hilos -> Estados(Len(claves))]
        BY DEF TypeOK
      <4> QED BY <3>2, <4>1 DEF Solo, Estados
    <3> QED BY <3>1, <3>3
  <2>3. /\ \A o \in DOMAIN claves : o \in DOMAIN claves' /\ claves'[o] = claves[o]
        /\ \A o \in DOMAIN claves' : o \in DOMAIN claves \/ claves'[o].instancia = i
    BY <1>0, <2>1
  <2> QED BY <1>0, <1>1, <2>2, <2>3 DEF Agregar
<1>2. CASE ~Agregar(h, i)
  <2>0. Asignar(h, i) /\ hilo[h].obj # 0 /\ i # Nadie
    BY <1>2 DEF Asignar
  <2>1. PICK p : p = hilo[h].obj
    OBVIOUS
  <2>2. p \in DOMAIN claves
    BY <2>0, <2>1 DEF TypeOK, Estados
  <2>3. claves' = [claves EXCEPT ![p].instancia = i] /\ UNCHANGED lista_claves
        /\ Va(h, TrasGuardar(h))
    BY <2>0, <2>1 DEF Asignar
  <2>4. \A o \in DOMAIN claves : claves[o] \in Objetos
    BY <1>0
  <2>5. /\ DOMAIN claves' = DOMAIN claves
        /\ \A o \in DOMAIN claves :
             claves'[o] = IF o = p THEN [claves[p] EXCEPT !.instancia = i] ELSE claves[o]
    BY <1>0, <2>2, <2>3
  <2>6. [claves[p] EXCEPT !.instancia = i].clave = claves[p].clave
        /\ [claves[p] EXCEPT !.instancia = i].instancia = i
    BY <2>2, <2>4 DEF Objetos
  <2>7. Solo(h) /\ hilo'[h].pc = TrasGuardar(h)
    BY <2>3, LemaVa
  <2> QED BY <1>0, <2>0, <2>3, <2>5, <2>6, <2>7
<1> QED BY <1>1, <1>2

\* A key gets an Instancia that is up, or ERROR once one has died.
LEMMA LemaElige ==
  ASSUME TypeOK, HayLista, Conoce, NEW h \in Hilos,
         AgregarSinInstancia(h) \/ EntrarASiguiente(h) \/ siguienteInstanciaSegunAlgoritmo(h)
  PROVE  \/ UNCHANGED lista /\ (UNCHANGED hilo \/ Va(h, "lazo"))
         \/ \E i \in Destinos :
              /\ Agregar(h, i) \/ (Asignar(h, i) /\ i # Nadie /\ hilo[h].pc # "nada")
              /\ i \in Instancias => vida[i] >= 1
              /\ i = ERROR => Murio
<1>1. VidaBien /\ lista_instancias # <<>> /\ hilo[h].pc # "nada" /\ hilo[h].clave \in Claves
  BY DEF AgregarSinInstancia, EntrarASiguiente, siguienteInstanciaSegunAlgoritmo, En, HayLista,
         Conoce, TypeOK
<1>2. ERROR \in Destinos /\ ERROR # Nadie /\ ERROR \notin Instancias
      /\ Nadie \in Destinos /\ Nadie \notin Instancias
  BY DistribucionBienFormada DEF DistribucionBienFormada, Destinos
<1>3. CASE AgregarSinInstancia(h)
  BY <1>2, <1>3 DEF AgregarSinInstancia
<1>4. CASE EntrarASiguiente(h)
  <2>1. ~Hay => Murio
    BY <1>1, LemaNoHay
  <2> QED BY <1>1, <1>2, <1>4, <2>1 DEF EntrarASiguiente, SinInstancia, lista
<1>5. CASE siguienteInstanciaSegunAlgoritmo(h)
  <2> DEFINE k == hilo[h].clave
  <2>1. CASE PasaDeLaZ(k) \/ Elegida(k) = {}
    BY <1>5, <2>1 DEF siguienteInstanciaSegunAlgoritmo, lista
  <2>2. CASE ~PasaDeLaZ(k) /\ Elegida(k) = {ERROR}
    <3>1. Murio
      BY <1>1, <2>2, LemaElegida
    <3>2. SinInstancia(h)
      BY <1>5, <2>2 DEF siguienteInstanciaSegunAlgoritmo
    <3> QED BY <1>1, <1>2, <3>1, <3>2 DEF SinInstancia
  <2>3. CASE ~PasaDeLaZ(k) /\ Elegida(k) # {} /\ Elegida(k) # {ERROR}
    <3>1. Asignar(h, Candidata(k))
      BY <1>5, <2>3 DEF siguienteInstanciaSegunAlgoritmo
    <3>2. Candidata(k) \in Instancias /\ viva[Candidata(k)]
      BY <2>3 DEF Elegida, Conectada
    <3> QED BY <1>1, <1>2, <3>1, <3>2 DEF VidaBien, Destinos
  <2> QED BY <2>1, <2>2, <2>3
<1> QED BY <1>3, <1>4, <1>5

\* A step keeps what the objects are, and the names of the keys.
LEMMA ObjetosNext ==
  ASSUME TypeOK, HayLista, Conoce, [Next]_vars
  PROVE  /\ ObjetosBien'
         /\ lista_claves' \subseteq lista_claves \/ lista_claves \subseteq lista_claves'
         /\ \A o \in DOMAIN claves :
              /\ o \in DOMAIN claves' /\ claves'[o].clave = claves[o].clave
              /\ claves[o].instancia # Nadie => claves'[o].instancia # Nadie
<1>0. (Murio => Murio') /\ \A i \in Instancias : vida[i] >= 1 => vida'[i] >= 1
  BY LemaMurio
<1>1. CASE UNCHANGED claves /\ lista_claves' \subseteq lista_claves
  BY <1>0, <1>1 DEF Conoce, ObjetosBien
<1>2. ASSUME NEW h \in Hilos,
             AgregarSinInstancia(h) \/ EntrarASiguiente(h) \/ siguienteInstanciaSegunAlgoritmo(h),
             ~UNCHANGED lista
      PROVE  /\ ObjetosBien' /\ lista_claves \subseteq lista_claves'
             /\ \A o \in DOMAIN claves :
                  /\ o \in DOMAIN claves' /\ claves'[o].clave = claves[o].clave
                  /\ claves[o].instancia # Nadie => claves'[o].instancia # Nadie
  <2>1. PICK i \in Destinos :
          /\ Agregar(h, i) \/ (Asignar(h, i) /\ i # Nadie /\ hilo[h].pc # "nada")
          /\ i \in Instancias => vida[i] >= 1
          /\ i = ERROR => Murio
    BY <1>2, LemaElige
  <2>2. /\ lista_claves \subseteq lista_claves'
        /\ \A o \in DOMAIN claves :
             /\ o \in DOMAIN claves' /\ claves'[o].clave = claves[o].clave
             /\ claves[o].instancia # Nadie => claves'[o].instancia # Nadie
        /\ \A o \in DOMAIN claves' :
             claves'[o].instancia = i
             \/ (o \in DOMAIN claves /\ claves'[o].instancia = claves[o].instancia)
    BY <2>1, LemaObjetos
  <2>3. ObjetosBien'
    BY <1>0, <2>1, <2>2 DEF Conoce, ObjetosBien
  <2> QED BY <2>2, <2>3
<1>3. CASE \E h \in Hilos :
             AgregarSinInstancia(h) \/ EntrarASiguiente(h) \/ siguienteInstanciaSegunAlgoritmo(h)
  BY <1>1, <1>2, <1>3 DEF lista
<1> QED BY <1>1, <1>3, LemaEliminar
        DEF Next, Recibir, Paso, guardarClaveInternamente, Comprobar, Eliminar, Consultar,
            enviarSentenciaInstancia, RecibirRespuesta, buscar_clave, PasoStatus, EntrarASimular,
            Simular, ComprobarStatus, EliminarStatus, guardarEnListaDeInstancias, MorirInstancia,
            MorirESI, lista, vars

\* A step of a thread that does not leave it waiting for an answer.
LEMMA LemaEspera ==
  ASSUME EsperaBien, NEW h \in Hilos, Solo(h), hilo'[h].pc # "esperar", UNCHANGED vida
  PROVE  EsperaBien'
BY DEF Solo, EsperaBien

LEMMA EsperaPaso ==
  ASSUME TypeOK, HayLista, Conoce, NEW h \in Hilos, Paso(h)
  PROVE  EsperaBien'
<1>0. EsperaBien /\ UNCHANGED vida
  BY DEF Conoce, Paso, guardarClaveInternamente, AgregarSinInstancia, EntrarASiguiente,
         siguienteInstanciaSegunAlgoritmo, Comprobar, Eliminar, Consultar,
         enviarSentenciaInstancia, RecibirRespuesta, instancia
<1>1. CASE guardarClaveInternamente(h)
  <2>2. CASE UNCHANGED hilo
    BY <1>0, <2>2 DEF EsperaBien
  <2>3. CASE Va(h, "consultar")
    BY <1>0, <2>3, LemaVa, LemaEspera
  <2>4. CASE \E o, x : x # "esperar" /\ hilo' = [hilo EXCEPT ![h].obj = o, ![h].pc = x]
    <3>1. PICK o, x : x # "esperar" /\ hilo' = [hilo EXCEPT ![h].obj = o, ![h].pc = x]
      BY <2>4
    <3>2. Solo(h) /\ hilo'[h].pc = x
      <4>1. hilo' = [hilo EXCEPT ![h].obj = o, ![h].pc = x]
        BY <3>1
      <4>2. hilo \in [Hilos -> Estados(Len(claves))]
        BY DEF TypeOK
      <4> QED BY <4>1, <4>2 DEF Solo, Estados
    <3> QED BY <1>0, <3>1, <3>2, LemaEspera
  <2>5. TrasGuardar(h) # "esperar"
    BY DEF TrasGuardar
  <2> QED BY <1>1, <2>2, <2>3, <2>4, <2>5 DEF guardarClaveInternamente
<1>2. CASE AgregarSinInstancia(h) \/ EntrarASiguiente(h) \/ siguienteInstanciaSegunAlgoritmo(h)
  <2>1. CASE UNCHANGED hilo
    BY <1>0, <2>1 DEF EsperaBien
  <2>2. CASE Va(h, "lazo")
    BY <1>0, <2>2, LemaVa, LemaEspera
  <2>3. CASE \E i : Agregar(h, i) \/ (Asignar(h, i) /\ i # Nadie /\ hilo[h].pc # "nada")
    BY <1>0, <2>3, LemaObjetos, LemaEspera
  <2> QED BY <1>2, <2>1, <2>2, <2>3, LemaElige
<1>3. CASE Comprobar(h) \/ Eliminar(h) \/ Consultar(h)
  <2>2. \/ UNCHANGED hilo
        \/ \E x \in {"consultar", "eliminar", "enviar"} : Va(h, x)
        \/ hilo' = [hilo EXCEPT ![h] = Reposo]
    BY <1>3 DEF Comprobar, Eliminar, Consultar, Responder
  <2>3. CASE UNCHANGED hilo
    BY <1>0, <2>3 DEF EsperaBien
  <2>4. CASE \E x \in {"consultar", "eliminar", "enviar"} : Va(h, x)
    <3>1. Solo(h) /\ hilo'[h].pc # "esperar"
      BY <2>4, LemaVa
    <3> QED BY <1>0, <3>1, LemaEspera
  <2>5. CASE hilo' = [hilo EXCEPT ![h] = Reposo]
    <3>1. Solo(h) /\ hilo'[h].pc # "esperar"
      BY <2>5, LemaReposo
    <3> QED BY <1>0, <3>1, LemaEspera
  <2> QED BY <2>2, <2>3, <2>4, <2>5
<1>4. CASE enviarSentenciaInstancia(h)
  <2> DEFINE i == claves[Primero(hilo[h].clave)].instancia
  <2>2. CASE UNCHANGED hilo
    BY <1>0, <2>2 DEF EsperaBien
  <2>3. CASE Conectada(i) /\ hilo' = [hilo EXCEPT ![h].proxima = i, ![h].pc = "esperar"]
    <3>1. i \in Instancias /\ vida[i] >= 1
      BY <2>3 DEF Conectada, Conoce, VidaBien
    <3>2. Solo(h) /\ hilo'[h].proxima = i
      BY <2>3, LemaProxima
    <3> QED BY <1>0, <3>1, <3>2 DEF Solo, EsperaBien
  <2>4. CASE Responder(h, "ABORTAR")
    <3>1. Solo(h) /\ hilo'[h].pc # "esperar"
      BY <2>4, LemaResponder
    <3> QED BY <1>0, <3>1, LemaEspera
  <2> QED BY <1>4, <2>2, <2>3, <2>4 DEF enviarSentenciaInstancia
<1>5. CASE RecibirRespuesta(h)
  <2>2. CASE UNCHANGED hilo
    BY <1>0, <2>2 DEF EsperaBien
  <2>3. CASE hilo' = [hilo EXCEPT ![h].reintentos = @ + 1, ![h].proxima = Nadie, ![h].pc = "enviar"]
    <3>1. Solo(h) /\ hilo'[h].pc # "esperar"
      <4>1. hilo \in [Hilos -> Estados(Len(claves))]
        BY DEF TypeOK
      <4> QED BY <2>3, <4>1 DEF Solo, Estados
    <3> QED BY <1>0, <3>1, LemaEspera
  <2>4. CASE \E rta : Responder(h, rta)
    <3>1. Solo(h) /\ hilo'[h].pc # "esperar"
      BY <2>4, LemaResponder
    <3> QED BY <1>0, <3>1, LemaEspera
  <2> QED BY <1>5, <2>2, <2>3, <2>4 DEF RecibirRespuesta
<1> QED BY <1>1, <1>2, <1>3, <1>4, <1>5 DEF Paso

LEMMA EsperaNext ==
  ASSUME TypeOK, HayLista, Conoce, [Next]_vars
  PROVE  EsperaBien'
<1>0. EsperaBien
  BY DEF Conoce
<1>1. CASE UNCHANGED <<vida, hilo>>
  BY <1>0, <1>1 DEF EsperaBien
<1>2. CASE \E h \in Hilos, op \in {"GET", "SET", "STORE"}, k \in Claves : Recibir(h, op, k)
  <2>1. PICK h \in Hilos, op \in {"GET", "SET", "STORE"}, k \in Claves : Recibir(h, op, k)
    BY <1>2
  <2>2. UNCHANGED vida
    BY <2>1 DEF Recibir, instancia
  <2>3. Solo(h) /\ hilo'[h].pc # "esperar"
    <3>1. CASE Responder(h, "ABORTAR")
      BY <3>1, LemaResponder
    <3>2. CASE hilo' = [hilo EXCEPT ![h] = [pc |-> "guardar", op |-> op, clave |-> k, obj |-> 0,
                                            proxima |-> Nadie, reintentos |-> 0]]
      BY <3>2 DEF TypeOK, Solo
    <3> QED BY <2>1, <3>1, <3>2 DEF Recibir
  <2> QED BY <1>0, <2>2, <2>3, LemaEspera
<1>3. CASE \E h \in Hilos : Paso(h)
  BY <1>3, EsperaPaso
<1>4. CASE \E i \in Instancias : guardarEnListaDeInstancias(i)
  <2>1. PICK i \in Instancias : guardarEnListaDeInstancias(i)
    BY <1>4
  <2>2. UNCHANGED hilo /\ vida' = [vida EXCEPT ![i] = @ + 1]
    BY <2>1 DEF guardarEnListaDeInstancias
  <2>3. \A j \in Instancias : vida[j] \in Nat
    BY LemaCotas DEF TypeOK
  <2>4. \A j \in Instancias : vida[j] >= 1 => vida'[j] >= 1
    BY <2>2, <2>3 DEF TypeOK
  <2> QED BY <1>0, <2>2, <2>4 DEF EsperaBien
<1> QED BY <1>1, <1>2, <1>3, <1>4
        DEF Next, buscar_clave, PasoStatus, EntrarASimular, Simular, ComprobarStatus,
            EliminarStatus, MorirInstancia, MorirESI, instancia, vars

LEMMA MiraNext ==
  ASSUME TypeOK, Conoce, [Next]_vars
  PROVE  MiraBien'
<1>0. MiraBien
  BY DEF Conoce
<1>1. lista_instancias # <<>> => lista_instancias' # <<>>
  <2>1. CASE UNCHANGED lista_instancias
    BY <2>1
  <2>2. CASE \E i \in Instancias : guardarEnListaDeInstancias(i)
    BY <2>2, TipoConectar
  <2> QED BY <2>1, <2>2
          DEF Next, Recibir, Paso, guardarClaveInternamente, AgregarSinInstancia,
              EntrarASiguiente, siguienteInstanciaSegunAlgoritmo, Comprobar, Eliminar, Consultar,
              enviarSentenciaInstancia, RecibirRespuesta, buscar_clave, PasoStatus,
              EntrarASimular, Simular, ComprobarStatus, EliminarStatus, MorirInstancia, MorirESI,
              instancia, vars
<1>2. CASE UNCHANGED status
  BY <1>0, <1>1, <1>2 DEF MiraBien
<1>3. CASE \E k \in Claves : buscar_clave(k)
  <2>1. PICK k \in Claves : buscar_clave(k)
    BY <1>3
  <2>2. CASE existeClave(k)
    <3>1. Primero(k) # 0
      BY <2>2, LemaPrimero DEF TypeOK
    <3> QED BY <1>1, <2>1, <2>2, <3>1 DEF buscar_clave, MiraBien
  <2>3. CASE ~existeClave(k)
    BY <1>2, <2>1, <2>3 DEF buscar_clave
  <2> QED BY <2>2, <2>3
<1>4. CASE PasoStatus
  <2>1. status.pc # "nada"
    BY <1>4 DEF PasoStatus, EntrarASimular, Simular, ComprobarStatus, EliminarStatus, EnStatus
  <2>2. UNCHANGED status \/ \E x \in {"nada", "lazo", "eliminar"} : Status(x)
    BY <1>4 DEF PasoStatus, EntrarASimular, Simular, ComprobarStatus, EliminarStatus,
                SimularSinInstancia
  <2> QED BY <1>0, <1>1, <1>2, <2>1, <2>2 DEF Status, MiraBien
<1> QED BY <1>2, <1>3, <1>4
        DEF Next, Recibir, Paso, guardarClaveInternamente, AgregarSinInstancia,
            EntrarASiguiente, siguienteInstanciaSegunAlgoritmo, Comprobar, Eliminar, Consultar,
            enviarSentenciaInstancia, RecibirRespuesta, guardarEnListaDeInstancias,
            MorirInstancia, MorirESI, vars

\* Where the Coordinador breaks on a letter, on ERROR or on the text of an answer.
LEMMA CausasPaso ==
  ASSUME TypeOK, HayLista, Conoce, NEW h \in Hilos, Paso(h)
  PROVE  /\ falla' = "error" => Murio
         /\ falla' = "letra" => \E k \in Claves : PasaDeLaZ(k)
         /\ falla' = "texto" =>
              Murio \/ huerfanos # {} \/ consultas > 0 \/ hilo'[h].reintentos = 3
<1> DEFINE k == hilo[h].clave
<1>0. falla = "no" /\ hilo[h].pc # "nada" /\ k \in Claves /\ lista_instancias # <<>> /\ VidaBien
  BY DEF Paso, guardarClaveInternamente, AgregarSinInstancia, EntrarASiguiente,
         siguienteInstanciaSegunAlgoritmo, Comprobar, Eliminar, Consultar,
         enviarSentenciaInstancia, RecibirRespuesta, En, TypeOK, HayLista, Conoce
<1>1. CASE falla' \in {"no", "nulo", "basura"}
  BY <1>1
<1>2. CASE EntrarASiguiente(h)
  <2>1. falla' = "error" => ~Hay
    BY <1>0, <1>2 DEF EntrarASiguiente, Romper
  <2>2. falla' \in {"no", "nulo", "error"}
    BY <1>0, <1>2 DEF EntrarASiguiente, SinInstancia, Romper
  <2> QED BY <1>0, <2>1, <2>2, LemaNoHay
<1>3. CASE siguienteInstanciaSegunAlgoritmo(h)
  <2>1. CASE PasaDeLaZ(k)
    <3>1. falla' = "letra"
      BY <1>3, <2>1 DEF siguienteInstanciaSegunAlgoritmo, Romper
    <3> QED BY <1>0, <2>1, <3>1
  <2>2. CASE ~PasaDeLaZ(k) /\ Elegida(k) = {ERROR}
    <3>1. falla' \in {"no", "error"}
      BY <1>0, <1>3, <2>2 DEF siguienteInstanciaSegunAlgoritmo, SinInstancia, Romper
    <3> QED BY <1>0, <2>2, <3>1, LemaElegida
  <2>3. CASE ~PasaDeLaZ(k) /\ Elegida(k) # {ERROR}
    <3>1. falla' = "no"
      BY <1>0, <1>3, <2>3 DEF siguienteInstanciaSegunAlgoritmo
    <3> QED BY <3>1
  <2> QED BY <2>1, <2>2, <2>3
<1>4. CASE enviarSentenciaInstancia(h)
  <2> DEFINE i == claves[Primero(k)].instancia
  <2>1. falla' \in {"no", "nulo", "basura", "error"}
        /\ (falla' = "error" => existeClave(k) /\ i = ERROR)
    BY <1>0, <1>4 DEF enviarSentenciaInstancia, Romper
  <2>2. existeClave(k) => Primero(k) \in DOMAIN claves
    BY LemaPrimero DEF TypeOK
  <2> QED BY <2>1, <2>2 DEF Conoce, ObjetosBien
<1>5. CASE RecibirRespuesta(h)
  <2> DEFINE i == hilo[h].proxima
  <2>1. hilo[h].pc = "esperar"
    BY <1>5 DEF RecibirRespuesta, En
  <2>2. i \in Instancias /\ vida[i] >= 1
    BY <2>1 DEF Conoce, EsperaBien
  <2>6. ~Fiable(i) => Murio \/ huerfanos # {} \/ consultas > 0
    <3>1. vida[i] \in Nat /\ vida[i] >= 1
      BY <2>2, LemaCotas DEF TypeOK
    <3>2. ~viva[i] \/ vida[i] # 1 => Murio
      BY <2>2, <3>1 DEF Murio
    <3>3. consultas # 0 => consultas > 0
      BY LemaCotas DEF TypeOK
    <3> QED BY <2>2, <3>2, <3>3 DEF Fiable, Conectada
  <2>7. CASE UNCHANGED falla
    BY <1>0, <2>7
  <2>8. CASE falla' # falla
    <3>1. PICK cod \in {"EXITO_I", "ERROR_I", "COMPACTAR", "OTRO"} :
            /\ cod = "OTRO" => ~Fiable(i)
            /\ ~Sigue(h, cod) /\ Basura(cod) /\ Romper("texto")
            /\ UNCHANGED hilo
      BY <1>5, <2>8 DEF RecibirRespuesta, externo
    <3>2. hilo[h].reintentos \in 0..3
      BY DEF TypeOK, Estados
    <3> QED BY <2>6, <3>1, <3>2 DEF Sigue, Basura, Romper
  <2> QED BY <2>7, <2>8
<1> QED BY <1>0, <1>1, <1>2, <1>3, <1>4, <1>5
        DEF Paso, guardarClaveInternamente, AgregarSinInstancia, Comprobar, Eliminar, Consultar,
            Romper

LEMMA CausasStatus ==
  ASSUME TypeOK, Conoce, PasoStatus
  PROVE  /\ falla' = "error" => Murio
         /\ falla' = "letra" => \E k \in Claves : PasaDeLaZ(k)
         /\ falla' # "texto"
<1> DEFINE k == claves[status.obj].clave
<1>0. falla = "no" /\ status.pc # "nada"
  BY DEF PasoStatus, EntrarASimular, Simular, ComprobarStatus, EliminarStatus, EnStatus
<1>1. status.obj # 0 /\ lista_instancias # <<>> /\ VidaBien
  BY <1>0 DEF Conoce, MiraBien
<1>2. k \in Claves
  <2>1. status.obj \in DOMAIN claves
    BY <1>1 DEF TypeOK
  <2>2. claves[status.obj] \in Objetos
    BY <2>1 DEF TypeOK
  <2> QED BY <2>2 DEF Objetos
<1>3. CASE EntrarASimular
  <2>1. falla' \in {"no", "error"} /\ (falla' = "error" => ~Hay)
    BY <1>0, <1>3 DEF EntrarASimular, SimularSinInstancia, Romper
  <2> QED BY <1>1, <2>1, LemaNoHay
<1>4. CASE Simular
  <2>1. CASE PasaDeLaZ(k)
    <3>1. falla' = "letra"
      BY <1>4, <2>1 DEF Simular, Romper
    <3> QED BY <1>2, <2>1, <3>1
  <2>2. CASE ~PasaDeLaZ(k) /\ Elegida(k) = {ERROR}
    <3>1. falla' \in {"no", "error"}
      BY <1>0, <1>4, <2>2 DEF Simular, SimularSinInstancia, Romper
    <3> QED BY <1>1, <1>2, <2>2, <3>1, LemaElegida
  <2>3. CASE ~PasaDeLaZ(k) /\ Elegida(k) # {ERROR}
    <3>1. falla' = "no"
      BY <1>0, <1>4, <2>3 DEF Simular
    <3> QED BY <3>1
  <2> QED BY <2>1, <2>2, <2>3
<1>5. CASE ComprobarStatus \/ EliminarStatus
  <2>1. falla' \in {"no", "nulo"}
    BY <1>0, <1>5 DEF ComprobarStatus, EliminarStatus, Romper
  <2> QED BY <2>1
<1> QED BY <1>3, <1>4, <1>5 DEF PasoStatus

LEMMA CausasNext ==
  ASSUME TypeOK, HayLista, Conoce, Causas, [Next]_vars
  PROVE  Causas'
<1>0. (Murio => Murio') /\ UNCHANGED algoritmo
  <2>1. UNCHANGED algoritmo
    BY DEF Next, Recibir, Paso, guardarClaveInternamente, AgregarSinInstancia, EntrarASiguiente,
           siguienteInstanciaSegunAlgoritmo, Comprobar, Eliminar, Consultar,
           enviarSentenciaInstancia, RecibirRespuesta, buscar_clave, PasoStatus, EntrarASimular,
           Simular, ComprobarStatus, EliminarStatus, guardarEnListaDeInstancias,
           MorirInstancia, MorirESI, vars
  <2> QED BY <2>1, LemaMurio
<1>1. \A k : PasaDeLaZ(k) => PasaDeLaZ(k)'
  BY <1>0 DEF PasaDeLaZ
<1>2. CASE UNCHANGED vars
  BY <1>0, <1>1, <1>2 DEF Causas, vars, historia
<1>3. CASE falla' = "no"
  BY <1>3 DEF Causas
<1>4. CASE \E h \in Hilos : Paso(h)
  <2>1. PICK h \in Hilos : Paso(h)
    BY <1>4
  <2>2. UNCHANGED <<consultas, huerfanos>>
    BY <2>1 DEF Paso, guardarClaveInternamente, AgregarSinInstancia, EntrarASiguiente,
                siguienteInstanciaSegunAlgoritmo, Comprobar, Eliminar, Consultar,
                enviarSentenciaInstancia, RecibirRespuesta, historia
  <2>3. /\ falla' = "error" => Murio
        /\ falla' = "letra" => \E k \in Claves : PasaDeLaZ(k)
        /\ falla' = "texto" =>
             Murio \/ huerfanos # {} \/ consultas > 0 \/ hilo'[h].reintentos = 3
    BY <2>1, CausasPaso
  <2> QED BY <1>0, <1>1, <2>2, <2>3 DEF Causas
<1>5. CASE PasoStatus
  <2>1. /\ falla' = "error" => Murio
        /\ falla' = "letra" => \E k \in Claves : PasaDeLaZ(k)
        /\ falla' # "texto"
    BY <1>5, CausasStatus
  <2> QED BY <1>0, <1>1, <2>1 DEF Causas
<1>6. CASE \/ \E h \in Hilos, op \in {"GET", "SET", "STORE"}, k \in Claves : Recibir(h, op, k)
           \/ \E k \in Claves : buscar_clave(k)
           \/ \E i \in Instancias : guardarEnListaDeInstancias(i) \/ MorirInstancia(i)
           \/ \E h \in Hilos : MorirESI(h)
  <2>1. UNCHANGED falla
    BY <1>6 DEF Recibir, buscar_clave, guardarEnListaDeInstancias, MorirInstancia, MorirESI
  <2>2. CASE falla = "no"
    BY <1>3, <2>1, <2>2
  <2>3. CASE falla # "no"
    <3>1. \E h \in Hilos, op \in {"GET", "SET", "STORE"}, k \in Claves : Recibir(h, op, k)
      BY <1>6, <2>3 DEF buscar_clave, EnStatus, guardarEnListaDeInstancias, MorirInstancia, MorirESI
    <3> QED BY <2>3, <3>1 DEF Recibir, En
  <2> QED BY <2>2, <2>3
<1> QED BY <1>2, <1>4, <1>5, <1>6 DEF Next

LEMMA CInvInit == Init => CInv
<1> SUFFICES ASSUME Init PROVE CInv
  OBVIOUS
<1>1. VidaBien /\ ObjetosBien
  BY DEF Init, VidaBien, ObjetosBien
<1>2. EsperaBien /\ MiraBien /\ Causas
  BY DEF Init, Reposo, EsperaBien, MiraBien, Causas
<1> QED BY <1>1, <1>2, IInvInit DEF CInv, Conoce

LEMMA CInvNext == CInv /\ [Next]_vars => CInv'
<1> SUFFICES ASSUME CInv, [Next]_vars PROVE CInv'
  OBVIOUS
<1>1. TypeOK /\ HayLista /\ Conoce /\ Causas /\ VidaBien
  BY DEF CInv, IInv, Conoce
<1>2. Conoce'
  BY <1>1, VidaNext, ObjetosNext, EsperaNext, MiraNext DEF Conoce
<1> QED BY <1>1, <1>2, CausasNext, IInvNext DEF CInv

LEMMA CInvSiempre == Spec => []CInv
BY CInvInit, CInvNext, PTL DEF Spec

(***************************************************************************)
(* Theorems.                                                               *)
(***************************************************************************)

\* Every variable keeps its type: in particular the index of EQL stays within the list, and
\* the retries within 3.
THEOREM Tipos == Spec => []TypeOK
BY IInvSiempre, PTL DEF IInv

\* Unless an ESI dies with a sentence in progress, guardarClaveInternamente never adds a key
\* that another thread has added since it looked.
THEOREM SinRepetidas == Spec => []SinDuplicadas
BY IInvSiempre, PTL DEF IInv, Listas

\* Each way in which the Coordinador breaks has a cause that is named.  No thread uses a key
\* that it does not find, or the Instancia of one without, unless an ESI dies with a sentence
\* in progress or the command status removes a key.  The t_instancia ERROR is used only once
\* an Instancia has died.  The letters run out only with KE and a key that does not begin
\* with one.  The text that nobody set is written to the log only after a fourth COMPACTAR,
\* or when the answer of an Instancia may have got lost or mixed up.
THEOREM SinPunterosPerdidos == Spec => []NoCae
<1>1. CInv => NoCae
  BY DEF CInv, IInv, Listas, Causas, NoCae
<1> QED BY <1>1, CInvSiempre, PTL

\* What Asignar changes is the object of the thread, which had no Instancia.
LEMMA LemaAsignar ==
  ASSUME TypeOK, huerfanos = {}, Recuerda, NEW h \in Hilos, NEW i,
         hilo[h].pc \in {"elegir", "lazo"}, Asignar(h, i),
         NEW o \in DOMAIN claves, claves[o].instancia # Nadie
  PROVE  claves'[o] = claves[o]
<1>1. claves \in Seq(Objetos) /\ Sabe(h)
  BY DEF TypeOK, Recuerda
<1>2. CASE hilo[h].obj = 0
  <2>1. claves' = Append(claves, [clave |-> hilo[h].clave, instancia |-> i])
    BY <1>2 DEF Asignar, Agregar
  <2> QED BY <1>1, <2>1
<1>3. CASE hilo[h].obj # 0
  <2>1. hilo[h].obj # o
    BY <1>1, <1>3 DEF Sabe
  <2> QED BY <1>1, <1>3, <2>1 DEF Asignar
<1> QED BY <1>2, <1>3

\* An object t_clave, and a key while it stays in the list, keeps the Instancia it was given,
\* the one that has its value, unless an ESI dies with a sentence in progress: no second
\* thread gives an Instancia to a key that the first one is placing, or adds it again.
THEOREM ClavesQuietas == Spec => AsignacionEstable
<1>1. ASSUME CInv, [Next]_vars, huerfanos' = {},
             NEW o \in DOMAIN claves, claves[o].instancia # Nadie
      PROVE  claves'[o].instancia = claves[o].instancia
  <2>1. huerfanos = {} /\ TypeOK /\ Recuerda /\ claves \in Seq(Objetos)
    BY <1>1, HuerfanosCrecen DEF CInv, IInv, Listas, TypeOK
  <2>2. CASE UNCHANGED claves
    BY <2>2
  <2>3. CASE \E h \in Hilos : AgregarSinInstancia(h)
    <3>1. PICK h \in Hilos : claves' = Append(claves, [clave |-> hilo[h].clave, instancia |-> Nadie])
      BY <2>3 DEF AgregarSinInstancia, Agregar
    <3> QED BY <2>1, <3>1
  <2>4. CASE \E h \in Hilos : EntrarASiguiente(h) \/ siguienteInstanciaSegunAlgoritmo(h)
    <3>1. PICK h \in Hilos : EntrarASiguiente(h) \/ siguienteInstanciaSegunAlgoritmo(h)
      BY <2>4
    <3>2. hilo[h].pc \in {"elegir", "lazo"}
      BY <3>1 DEF EntrarASiguiente, siguienteInstanciaSegunAlgoritmo, En
    <3>3. UNCHANGED claves \/ \E i : Asignar(h, i)
      BY <3>1 DEF EntrarASiguiente, siguienteInstanciaSegunAlgoritmo, SinInstancia, lista
    <3>4. CASE UNCHANGED claves
      BY <3>4
    <3>5. CASE \E i : Asignar(h, i)
      BY <1>1, <2>1, <3>2, <3>5, LemaAsignar
    <3> QED BY <3>3, <3>4, <3>5
  <2> QED BY <1>1, <2>2, <2>3, <2>4
          DEF Next, Recibir, Paso, guardarClaveInternamente, Comprobar, Eliminar, Consultar,
              enviarSentenciaInstancia, RecibirRespuesta, buscar_clave, PasoStatus,
              EntrarASimular, Simular, ComprobarStatus, EliminarStatus,
              guardarEnListaDeInstancias, MorirInstancia, MorirESI, lista, vars
<1>2. ASSUME CInv, [Next]_vars, TypeOK', SinDuplicadas', huerfanos' = {},
             NEW k \in Claves, existeClave(k), existeClave(k)', claves[Primero(k)].instancia # Nadie
      PROVE  claves'[Primero(k)'].instancia = claves[Primero(k)].instancia
  <2>1. huerfanos = {} /\ TypeOK /\ HayLista /\ Conoce /\ ~Repetida(k) /\ ~Repetida(k)'
    BY <1>2, HuerfanosCrecen DEF CInv, IInv, Listas, SinDuplicadas
  <2>2. /\ lista_claves' \subseteq lista_claves \/ lista_claves \subseteq lista_claves'
        /\ \A o \in DOMAIN claves : o \in DOMAIN claves' /\ claves'[o].clave = claves[o].clave
    BY <1>2, <2>1, ObjetosNext
  <2>3. PICK a : a = Primero(k) /\ a \in Con(k) /\ a \in DOMAIN claves
    <3>1. Primero(k) \in Con(k) /\ Con(k) \subseteq DOMAIN claves
      BY <1>2, <2>1, LemaPrimero DEF Con, TypeOK
    <3> QED BY <3>1
  <2>4. PICK b : b = Primero(k)' /\ b \in Con(k)'
    <3>1. Con(k)' \in SUBSET Nat /\ Con(k)' # {}
      BY <1>2 DEF existeClave, Con, TypeOK
    <3>2. Min(Con(k)') \in Con(k)'
      BY <3>1, LemaMin
    <3> QED BY <3>2 DEF Primero
  <2>5. a = b
    <3>1. CASE lista_claves' \subseteq lista_claves
      <4>1. b \in Con(k)
        BY <2>1, <2>2, <2>4, <3>1 DEF Con, TypeOK
      <4> QED BY <2>1, <2>3, <4>1 DEF Repetida
    <3>2. CASE lista_claves \subseteq lista_claves'
      <4>1. a \in Con(k)'
        BY <2>2, <2>3, <3>2 DEF Con
      <4> QED BY <2>1, <2>4, <4>1 DEF Repetida
    <3> QED BY <2>2, <3>1, <3>2
  <2>6. claves'[a].instancia = claves[a].instancia
    BY <1>1, <1>2, <2>3
  <2> QED BY <2>3, <2>4, <2>5, <2>6
<1>3. CInv /\ CInv' /\ [Next]_vars =>
        [huerfanos' = {} =>
           /\ \A o \in DOMAIN claves :
                claves[o].instancia # Nadie => claves'[o].instancia = claves[o].instancia
           /\ \A k \in Claves :
                existeClave(k) /\ existeClave(k)' /\ claves[Primero(k)].instancia # Nadie
                => claves'[Primero(k)'].instancia = claves[Primero(k)].instancia]_vars
  BY <1>1, <1>2 DEF CInv, IInv, Listas
<1> QED BY <1>3, CInvSiempre, PTL DEF Spec, AsignacionEstable

===============================================================================
