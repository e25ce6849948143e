------------------------------- MODULE Instancia -------------------------------
(***************************************************************************)
(* The process Instancia: its table of entries, the three replacement      *)
(* algorithms, STORE, the dump, the compaction and the recovery after a    *)
(* restart (src/Instancia/src: Instancia.c, FuncionesInstancia.c,          *)
(* liberar_clave_atomica.c).                                               *)
(*                                                                         *)
(* The storage is N entries of T bytes in one block.  A value of L bytes   *)
(* takes consecutive entries, described by one record per entry in         *)
(* l_indice_entradas, which is kept sorted by entry: here, a function from *)
(* entries to records.  Every function is an operator from the memory of   *)
(* the process to its memory after the call.  Bytes are kept because what  *)
(* goes wrong with them does: strcpy() writes a final NUL that memcpy()    *)
(* does not, and stops at the first one it meets.                          *)
(*                                                                         *)
(* fallo records that the process wrote a record outside the table (fuera) *)
(* or over the entry of another key (superpuesta), used a NULL or          *)
(* uninitialised pointer (nulo), looked for the value of a key that has no *)
(* record (ausente), freed a pointer nobody set (basura), or that a string *)
(* function ran past the end of a block and broke what was there           *)
(* (desborde).  The model does not follow it from there.  The bytes that   *)
(* messages to the console read past the storage are left out.             *)
(*                                                                         *)
(* pisa is a property of the build: whether free() overwrites the start of *)
(* the key of a freed record, which the code goes on comparing with.       *)
(***************************************************************************)
EXTENDS Integers, FiniteSets, SequencesExt

CONSTANTS
  Claves,          \* the keys
  Libre,           \* no record for an entry
  SinArchivo,      \* no file for a key
  N,               \* cantTotalEntradas
  T,               \* tamanioEntradas
  PACKAGESIZE,     \* the bytes of a file that are read when it is recovered
  Largos,          \* lengths of the values that are SET, in bytes
  Algoritmos,      \* the values of ALGORITMO_DE_REEMPLAZO that are tried
  MaxOperaciones   \* bound: messages of the Coordinador and dumps

ASSUME TablaBienFormada ==
  /\ N \in Nat \ {0} /\ T \in Nat \ {0}
  /\ Largos \subseteq Nat \ {0}
  /\ Algoritmos \subseteq {"CIRC", "LRU", "BSU"}
  /\ MaxOperaciones \in Nat

ASSUME BloqueDeLectura == PACKAGESIZE \in Nat \ {0}

\* A byte of a value names its key and its place in the value.
NUL == <<>>
Byte == {NUL} \cup (Claves \X Nat)

\* t_indice_entrada
Registros == [clave : Claves, tam : 0..T, atomica : BOOLEAN, op : Nat]

ASSUME CentinelasDistintos == Libre \notin Registros /\ SinArchivo \notin Seq(Byte)

VARIABLES
  algoritmo,    \* ALGORITMO_DE_REEMPLAZO
  inst,         \* the memory of the process
  pisa,         \* free() overwrites the key of the record it frees
  archivo,      \* the file of each key under PUNTO_DE_MONTAJE
  asignadas,    \* the keys the Coordinador has assigned to the Instancia
  operaciones,  \* how many messages and restarts it has had
  soloAtomicas, \* every value so far took one entry (read by properties only)
  soloCadenas   \* and left room in it for its final NUL (read by properties only)

historia == <<soloAtomicas, soloCadenas>>
vars == <<algoritmo, pisa, inst, archivo, asignadas, operaciones, soloAtomicas, soloCadenas>>

Entradas == 0..(N - 1)

(***************************************************************************)
(* Bytes.  When it breaks nothing, what is written past the block is lost, *)
(* and the byte after it reads 0.                                          *)
(***************************************************************************)
Valor(k, L) == [j \in 1..L |-> <<k, j>>]
Direcciones == 0..(N * T)

\* strlen() of what starts at d.
Largo(b, d) == Min({x \in Direcciones : x >= d /\ (b[x] = NUL \/ x = N * T)}) - d

memcpy(b, d, s) == [x \in Direcciones |-> IF x \in d..(d + Len(s) - 1) THEN s[x - d + 1] ELSE b[x]]
memset(b, d, L) == [x \in Direcciones |-> IF x \in d..(d + L - 1) THEN NUL ELSE b[x]]
Bytes(b, d, L) == [j \in 1..L |-> b[d + j - 1]]
strcpy(b, d, s) == memcpy(b, d, Append(s, NUL))

(***************************************************************************)
(* The table.                                                              *)
(***************************************************************************)
MemoriaInicial ==
  [tabla  |-> [n \in Entradas |-> Libre],
   bytes  |-> [x \in Direcciones |-> NUL],
   numero |-> 0,          \* numeroEntrada; every value from N on is alike
   activo |-> FALSE,      \* reemplazoActivo
   contador |-> 0,        \* contadorOperacion, which only LRU reads
   resp   |-> "EXITO_I",  \* respuestaParaCoordinador
   fallo  |-> "no"]

Romper(m, f) == [m EXCEPT !.fallo = f]

\* What may come of a call that leads to m and may have run past a block.
ConDesborde(m, desborda) == IF desborda THEN {m, Romper(m, "desborde")} ELSE {m}

Menor(a, b) == IF a < b THEN a ELSE b
AvanzarNumero(m, n) == [m EXCEPT !.numero = Menor(n, N)]

obtenerIndicesDeClave(m, k) == {n \in Entradas : m.tabla[n] # Libre /\ m.tabla[n].clave = k}
Guardada(m, k) == obtenerIndicesDeClave(m, k) # {}
Libres(m) == {n \in Entradas : m.tabla[n] = Libre}
Atomicas(m) == {n \in Entradas : m.tabla[n] # Libre /\ m.tabla[n].atomica}

cantidadDeEntradasRequeridasParaValor(L) == (L + T - 1) \div T

TamanioTotal(m, k) ==
  LET S == obtenerIndicesDeClave(m, k)
      suma[n \in 0..N] ==
        IF n = 0 THEN 0 ELSE suma[n - 1] + (IF n - 1 \in S THEN m.tabla[n - 1].tam ELSE 0)
  IN  suma[N]

\* The key to compare with is read from the record of entry n.  When that record
\* has been freed and free() overwrote it, no later record matches any more.
eliminarEntradasAsociadasAClave(m, n) ==
  [m EXCEPT !.tabla = [x \in Entradas |->
     IF x \in obtenerIndicesDeClave(m, m.tabla[n].clave) /\ (pisa => x <= n)
     THEN Libre ELSE m.tabla[x]]]

SiguienteOperacion(m) == IF algoritmo = "LRU" THEN m.contador + 1 ELSE m.contador

Registro(m, k, tam, at) == [clave |-> k, tam |-> tam, atomica |-> at, op |-> m.contador]

(***************************************************************************)
(* A value of one entry at entry n.                                        *)
(***************************************************************************)
\* Mutant: one entry too many is cleared.
PonerAtomica_limpia_de_mas(m, k, v, n) ==
  LET q == IF m.tabla[n] = Libre THEN m
           ELSE eliminarEntradasAsociadasAClave(m, n)
  IN  [q EXCEPT !.tabla[n] = Registro(m, k, Len(v), TRUE),
                !.bytes = memcpy(memset(@, n * T, 2 * T), n * T, v)]

\* The key that had the entry goes with its entries; the entry is cleared.
PonerAtomica(m, k, v, n) ==
  LET q == IF m.tabla[n] = Libre THEN m
           ELSE eliminarEntradasAsociadasAClave(m, n)
  IN  [q EXCEPT !.tabla[n] = Registro(m, k, Len(v), TRUE),
                !.bytes = memcpy(memset(@, n * T, cantidadDeEntradasRequeridasParaValor(Len(v)) * T),
                                 n * T, v)]

\* With reemplazoActivo, an entry of a value of several entries is passed over by a
\* recursive call whose result is dropped: the caller gets a record that nobody
\* has filled in.
guardarIndiceAtomicoEnTabla(m, k, v, n) ==
  IF ~m.activo
  THEN IF n >= N THEN Romper(m, "fuera")
       ELSE AvanzarNumero(PonerAtomica(m, k, v, n), m.numero + 1)
  ELSE IF n >= N \/ m.tabla[n] = Libre THEN Romper(m, "nulo")
  ELSE IF cantidadDeEntradasRequeridasParaValor(TamanioTotal(m, m.tabla[n].clave)) # 1
  THEN Romper(m, "nulo")
  ELSE AvanzarNumero(PonerAtomica(m, k, v, n),
                     (IF algoritmo = "CIRC" THEN n ELSE m.numero) + 1)

\* The loop increments i once more after it has found the free entry.
buscarIndiceDeEntradaDisponible(m) == Min(Libres(m)) + 1

(***************************************************************************)
(* The replacement of an atomic value.                                     *)
(***************************************************************************)
\* The entry of S that list_sort leaves first: the sort is stable.
MenosUsada(m, S) ==
  CHOOSE n \in S : \A x \in S \ {n} :
    m.tabla[n].op < m.tabla[x].op \/ (n < x /\ m.tabla[n].op = m.tabla[x].op)
MasGrande(m, S) ==
  CHOOSE n \in S : \A x \in S \ {n} :
    m.tabla[n].tam > m.tabla[x].tam \/ (n < x /\ m.tabla[n].tam = m.tabla[x].tam)

HayEmpate(m) ==
  \E a, b \in Atomicas(m) :
    a # b /\ m.tabla[a].tam = m.tabla[b].tam
    /\ \A x \in Atomicas(m) : m.tabla[x].tam <= m.tabla[a].tam

aplicarAlgoritmoDeReemplazo(m, k, v) ==
  LET q == [m EXCEPT !.activo = TRUE]
      desde0 == guardarIndiceAtomicoEnTabla([q EXCEPT !.numero = 0], k, v, 0)
  IN  IF algoritmo = "CIRC" THEN desde0
      ELSE IF Atomicas(m) = {} THEN Romper(m, "nulo")
      ELSE IF algoritmo = "LRU"
      THEN guardarIndiceAtomicoEnTabla(q, k, v, MenosUsada(m, Atomicas(m)))
      ELSE IF HayEmpate(m) THEN desde0
      ELSE guardarIndiceAtomicoEnTabla(q, k, v, MasGrande(m, Atomicas(m)))

\* Mutant: <= for <.
GuardarAtomica_uno_mas(m, k, v) ==
  IF m.numero <= N THEN guardarIndiceAtomicoEnTabla(m, k, v, m.numero)
  ELSE IF Libres(m) # {}
  THEN guardarIndiceAtomicoEnTabla(m, k, v, buscarIndiceDeEntradaDisponible(m))
  ELSE aplicarAlgoritmoDeReemplazo(m, k, v)

GuardarAtomica(m, k, v) ==
  IF m.numero < N THEN guardarIndiceAtomicoEnTabla(m, k, v, m.numero)
  ELSE IF Libres(m) # {}
  THEN guardarIndiceAtomicoEnTabla(m, k, v, buscarIndiceDeEntradaDisponible(m))
  ELSE aplicarAlgoritmoDeReemplazo(m, k, v)

(***************************************************************************)
(* A value of several entries.                                             *)
(***************************************************************************)
\* Mutant: the free entries at the start of the table.
LibresAlFinal_al_principio(m) == Cardinality({n \in Entradas : 0..n \subseteq Libres(m)})

\* hayEntradasContiguasDisponibles() resets contAux before it compares it: only the
\* free entries at the end of the table are ever found.
LibresAlFinal(m) == Cardinality({n \in Entradas : n..(N - 1) \subseteq Libres(m)})

\* Mutants: without the cap of an entry; with the rest in the first entry.
TamanioDeEntrada_sin_tope(L, i) == L - i * T
TamanioDeEntrada_resto_primero(L, i) ==
  IF i = 0 THEN L - (cantidadDeEntradasRequeridasParaValor(L) - 1) * T ELSE T

TamanioDeEntrada(L, i) == IF L > (i + 1) * T THEN T ELSE L - i * T

guardarIndiceNoAtomicoEnTabla(m, k, L, n) ==
  LET ocupa == n..(n + cantidadDeEntradasRequeridasParaValor(L) - 1)
  IN  IF ~(ocupa \subseteq Entradas) THEN Romper(m, "fuera")
      ELSE IF ~(ocupa \subseteq Libres(m)) THEN Romper(m, "superpuesta")
      ELSE [m EXCEPT !.tabla = [x \in Entradas |->
              IF x \in ocupa THEN Registro(m, k, TamanioDeEntrada(L, x - n), FALSE) ELSE @[x]]]

\* memcpy() here leaves no NUL after the value.
GuardarNoAtomica(m, k, v) ==
  LET need == cantidadDeEntradasRequeridasParaValor(Len(v))
      n == IF m.numero >= N THEN N - LibresAlFinal(m) ELSE m.numero
      q == guardarIndiceNoAtomicoEnTabla(m, k, Len(v), n)
  IN  IF LibresAlFinal(m) < need THEN [m EXCEPT !.resp = "COMPACTAR"]
      ELSE [AvanzarNumero(q, n + need) EXCEPT !.bytes = memcpy(@, n * T, v), !.resp = "EXITO_I"]

\* The sort is over every entry, those of longer values too.
liberar_clave_atom(m) ==
  IF algoritmo = "LRU"
  THEN eliminarEntradasAsociadasAClave(m, MenosUsada(m, Entradas \ Libres(m)))
  ELSE IF Atomicas(m) = {} THEN Romper(m, "nulo")
  ELSE IF algoritmo = "CIRC"
  THEN [eliminarEntradasAsociadasAClave(m, Min(Atomicas(m))) EXCEPT !.numero = Min(Atomicas(m))]
  ELSE eliminarEntradasAsociadasAClave(m, MasGrande(m, Atomicas(m)))

\* The loop that makes room: after x calls of liberar_clave_atom().
Liberar(m, need) ==
  LET tras[x \in 0..N] == IF x = 0 THEN m
                          ELSE LET q == tras[x - 1]
                               IN  IF q.fallo # "no" \/ Cardinality(Libres(q)) >= need THEN q
                                   ELSE liberar_clave_atom(q)
  IN  tras[N]

(***************************************************************************)
(* guardarClaveValor                                                       *)
(***************************************************************************)
\* Mutant: tamanioValor keeps its old value.
actualizarEntradasConNuevoValor_sin_tamanio(m, k, v) ==
  LET S == obtenerIndicesDeClave(m, k)
      n == Min(S)
      quedan == {x \in S : Cardinality({y \in S : y < x})
                            < cantidadDeEntradasRequeridasParaValor(Len(v))}
  IN  [m EXCEPT
        !.tabla = [x \in Entradas |->
           IF x \in quedan THEN [@[x] EXCEPT !.op = m.contador]
           ELSE IF x \in S THEN Libre ELSE @[x]],
        !.bytes = strcpy(memset(@, n * T, TamanioTotal(m, k)), n * T, v),
        !.contador = SiguienteOperacion(m)]

\* The entries that are not needed any more are dropped, esAtomica stays as it was.
actualizarEntradasConNuevoValor(m, k, v) ==
  LET S == obtenerIndicesDeClave(m, k)
      n == Min(S)
      quedan == {x \in S : Cardinality({y \in S : y < x})
                            < cantidadDeEntradasRequeridasParaValor(Len(v))}
      puesto(x) == Cardinality({y \in S : y < x})
  IN  [m EXCEPT
        !.tabla = [x \in Entradas |->
           IF x \in quedan
           THEN [@[x] EXCEPT !.tam = TamanioDeEntrada(Len(v), puesto(x)), !.op = m.contador]
           ELSE IF x \in S THEN Libre ELSE @[x]],
        !.bytes = strcpy(memset(@, n * T, TamanioTotal(m, k)), n * T, v),
        !.contador = SiguienteOperacion(m)]

Crece(m, k, L) ==
  Guardada(m, k)
  /\ cantidadDeEntradasRequeridasParaValor(L) > Cardinality(obtenerIndicesDeClave(m, k))

\* The strcpy() of an update puts its NUL past the block: the value fills its last
\* entry, which is the last of the table.
DesbordaActualizacion(m, k, L) ==
  /\ Guardada(m, k) /\ ~Crece(m, k, L)
  /\ Min(obtenerIndicesDeClave(m, k)) * T + L >= N * T

guardarClaveValor(m, k, v) ==
  LET need == cantidadDeEntradasRequeridasParaValor(Len(v))
      libres == Cardinality(Libres(m))
  IN  IF Crece(m, k, Len(v)) THEN [m EXCEPT !.resp = "EXITO_I"]
      ELSE IF Guardada(m, k)
      THEN [actualizarEntradasConNuevoValor(m, k, v) EXCEPT !.resp = "EXITO_I"]
      ELSE IF need <= 1 THEN [GuardarAtomica(m, k, v) EXCEPT !.resp = "EXITO_I"]
      ELSE IF need > libres + Cardinality(Atomicas(m)) THEN [m EXCEPT !.resp = "ERROR_I"]
      ELSE LET q == Liberar(m, need)
           IN  IF q.fallo # "no" THEN q ELSE GuardarNoAtomica(q, k, v)

(***************************************************************************)
(* Reading, STORE, the compaction and the recovery.                        *)
(***************************************************************************)
obtenerValorCompleto(m, k) ==
  Bytes(m.bytes, Min(obtenerIndicesDeClave(m, k)) * T, TamanioTotal(m, k))

\* What a char * to s holds: s up to its first NUL.
HastaNUL(s) ==
  LET i == SelectInSeq(s, LAMBDA b : b = NUL) IN IF i = 0 THEN s ELSE SubSeq(s, 1, i - 1)

\* The bytes that STORE writes: all of tam, NULs included.
Grabado(m, k) == IF Guardada(m, k) THEN obtenerValorCompleto(m, k) ELSE <<>>

\* Mutant: the records move, the bytes do not.
compactarEntradas_sin_copiar(m) ==
  LET ocupadas == Entradas \ Libres(m)
      vieja(i) == CHOOSE n \in ocupadas : Cardinality({x \in ocupadas : x < n}) = i
  IN  [m EXCEPT
        !.tabla = [x \in Entradas |-> IF x < Cardinality(ocupadas) THEN m.tabla[vieja(x)] ELSE Libre]]

\* Each record moves to the entry of its rank; its string moves with strcpy(), which
\* takes all that follows up to a NUL, whoever's it is.
compactarEntradas(m) ==
  LET ocupadas == Entradas \ Libres(m)
      vieja(i) == CHOOSE n \in ocupadas : Cardinality({x \in ocupadas : x < n}) = i
      tras[i \in 0..Cardinality(ocupadas)] ==
        IF i = 0 THEN m.bytes
        ELSE LET b == tras[i - 1]
                 desde == vieja(i - 1) * T
             IN  strcpy(b, (i - 1) * T, Bytes(b, desde, Largo(b, desde)))
  IN  [m EXCEPT
        !.tabla = [x \in Entradas |-> IF x < Cardinality(ocupadas) THEN m.tabla[vieja(x)] ELSE Libre],
        !.bytes = tras[Cardinality(ocupadas)]]

\* One of the strings that strcpy() moves has no NUL before the end of the block.
DesbordaCompactacion(m) ==
  \E n \in Entradas \ Libres(m) : n * T + Largo(m.bytes, n * T) = N * T

\* The string that read() leaves in a block of PACKAGESIZE zeros.
Leido(s) == HastaNUL(SubSeq(s, 1, Menor(Len(s), PACKAGESIZE)))

\* The bytes read fill the block, and strlen() runs past it.
DesbordaLectura(s) == s # SinArchivo /\ Len(Leido(s)) = PACKAGESIZE

\* A file that cannot be opened is passed over.
recuperarClave(m, k, f) ==
  IF m.fallo # "no" \/ f[k] = SinArchivo THEN m ELSE guardarClaveValor(m, k, Leido(f[k]))

\* Every file gives a value of one entry: none of several, none that is empty.
ArchivosAtomicos(f) ==
  \A k \in asignadas :
    f[k] # SinArchivo => cantidadDeEntradasRequeridasParaValor(Len(Leido(f[k]))) = 1

\* And each leaves room for its NUL, in its entry and in the block it is read into.
ArchivosCadenas(f) ==
  \A k \in asignadas :
    f[k] # SinArchivo => Len(Leido(f[k])) \in 1..(T - 1) /\ Len(Leido(f[k])) < PACKAGESIZE

\* Mutant: numeroEntrada outlives the process.
obtenerClavesARecuperar_numero_viejo(orden, f) ==
  LET tras[j \in 0..Len(orden)] ==
        IF j = 0 THEN [MemoriaInicial EXCEPT !.numero = inst.numero]
        ELSE recuperarClave(tras[j - 1], orden[j], f)
  IN  tras[Len(orden)]

\* The process starts again and the Coordinador sends it its keys.
obtenerClavesARecuperar(orden, f) ==
  LET tras[j \in 0..Len(orden)] ==
        IF j = 0 THEN MemoriaInicial ELSE recuperarClave(tras[j - 1], orden[j], f)
  IN  tras[Len(orden)]

-----------------------------------------------------------------------------
Init ==
  /\ algoritmo \in Algoritmos
  /\ pisa \in BOOLEAN
  /\ inst = MemoriaInicial
  /\ archivo = [k \in Claves |-> SinArchivo]
  /\ asignadas = {}
  /\ operaciones = 0
  /\ soloAtomicas = TRUE
  /\ soloCadenas = TRUE

Sigue ==
  /\ inst.fallo = "no"
  /\ operaciones < MaxOperaciones
  /\ operaciones' = operaciones + 1
  /\ UNCHANGED <<algoritmo, pisa>>

recibirSentencia(m) == [m EXCEPT !.contador = SiguienteOperacion(m)]

\* The process starts and takes its keys back from their files.
Arrancar(orden, f) ==
  /\ inst' \in ConDesborde(obtenerClavesARecuperar(orden, f),
                           \E k \in asignadas : DesbordaLectura(f[k]))
  /\ soloAtomicas' = (soloAtomicas /\ ArchivosAtomicos(f))
  /\ soloCadenas' = (soloCadenas /\ ArchivosCadenas(f))

\* Nothing changes when m.resp is sent, but after a value a pointer that nobody has set
\* is freed.
enviarResultadoSentencia(m, keyword) ==
  IF keyword = "OBTENER_VALOR" /\ m.fallo = "no" THEN {m, Romper(m, "basura")} ELSE {m}

SET_(k, L) ==
  /\ Sigue
  /\ asignadas' = asignadas \union {k}
  /\ soloAtomicas' = (soloAtomicas /\ L <= T)
  /\ soloCadenas' = (soloCadenas /\ L < T)
  /\ \E m \in ConDesborde(guardarClaveValor(recibirSentencia(inst), k, Valor(k, L)),
                          DesbordaActualizacion(inst, k, L)) :
       inst' \in enviarResultadoSentencia(m, "SET")
  /\ UNCHANGED archivo

\* realizarStoreDeClave() truncates the file before it looks for the key, and
\* compares pthread_self() with an identifier nobody has set: the number of the
\* operation is never updated.
STORE_(k) ==
  /\ Sigue
  /\ k \in asignadas
  /\ archivo' = [archivo EXCEPT ![k] = Grabado(inst, k)]
  /\ inst' \in enviarResultadoSentencia(
                [recibirSentencia(inst) EXCEPT
                  !.resp = IF Guardada(inst, k) THEN "EXITO_I" ELSE "ERROR_I"], "STORE")
  /\ UNCHANGED <<asignadas, historia>>

\* The command status of the Planificador; a key that has been replaced has no first entry.
OBTENER_VALOR(k) ==
  /\ Sigue
  /\ k \in asignadas
  /\ inst' \in enviarResultadoSentencia(
                IF Guardada(inst, k) THEN recibirSentencia(inst) ELSE Romper(inst, "ausente"),
                "OBTENER_VALOR")
  /\ UNCHANGED <<archivo, asignadas, historia>>

\* Ordered by the Coordinador, whichever Instancia asked for it.
COMPACTAR ==
  /\ Sigue
  /\ \E m \in ConDesborde(compactarEntradas(inst), DesbordaCompactacion(inst)) :
       inst' \in enviarResultadoSentencia(m, "COMPACTAR")
  /\ UNCHANGED <<archivo, asignadas, historia>>

ejecutarDump ==
  /\ Sigue
  /\ archivo' = [k \in Claves |-> IF Guardada(inst, k) THEN Grabado(inst, k) ELSE archivo[k]]
  /\ inst' = IF Libres(inst) = Entradas THEN inst ELSE [inst EXCEPT !.resp = "EXITO_I"]
  /\ UNCHANGED <<asignadas, historia>>

Reiniciar(orden) ==
  /\ Sigue
  /\ Arrancar(orden, archivo)
  /\ UNCHANGED <<archivo, asignadas>>

\* The process dies after open(O_TRUNC) and before write().
CaerGrabando(k, orden) ==
  /\ Sigue
  /\ Guardada(inst, k)
  /\ archivo' = [archivo EXCEPT ![k] = <<>>]
  /\ Arrancar(orden, archivo')
  /\ UNCHANGED asignadas

Next ==
  \/ \E k \in Claves, L \in Largos : SET_(k, L)
  \/ \E k \in Claves : STORE_(k)
  \/ \E k \in Claves : OBTENER_VALOR(k)
  \/ COMPACTAR
  \/ ejecutarDump
  \/ \E orden \in SetToSeqs(asignadas) : Reiniciar(orden)
  \/ \E k \in Claves, orden \in SetToSeqs(asignadas) : CaerGrabando(k, orden)

Spec == Init /\ [][Next]_vars

-----------------------------------------------------------------------------
(* Properties.                                                              *)

\* The memory of the process.
Memoria ==
  [tabla    : [Entradas -> Registros \cup {Libre}],
   bytes    : [Direcciones -> Byte],
   numero   : 0..N,
   activo   : BOOLEAN,
   contador : Nat,
   resp     : {"EXITO_I", "ERROR_I", "COMPACTAR"},
   fallo    : {"no", "fuera", "superpuesta", "nulo", "ausente", "basura", "desborde"}]

\* Types of the variables; the table only has keys that the Coordinador has assigned.
TypeOK ==
  /\ algoritmo \in Algoritmos /\ pisa \in BOOLEAN
  /\ soloAtomicas \in BOOLEAN /\ soloCadenas \in BOOLEAN
  /\ asignadas \subseteq Claves /\ operaciones \in 0..MaxOperaciones
  /\ inst \in Memoria
  /\ archivo \in [Claves -> Seq(Byte) \cup {SinArchivo}]
  /\ \A n \in Entradas \ Libres(inst) : inst.tabla[n].clave \in asignadas

\* The entries of a key are consecutive, and all but the last are full: what the
\* reads take for granted when they copy from the first entry.
ClavesContiguas ==
  \A k \in Claves :
    LET S == obtenerIndicesDeClave(inst, k)
    IN  Guardada(inst, k) =>
          /\ S = Min(S)..Max(S)
          /\ \A n \in S \ {Max(S)} : inst.tabla[n].tam = T

\* While every value takes exactly one entry, no record is written outside the table, over
\* the record of another key or through a pointer nobody set, whatever is replaced,
\* compacted, saved and recovered: only the command status and the end of a string that
\* fills its entry may break the process.  And when the values leave room for their NUL, no
\* string runs past a block either.  (What that NUL does to the next key is DanoAcotado.)
SoloAtomicasNoFalla ==
  /\ soloAtomicas => inst.fallo \in {"no", "ausente", "basura", "desborde"}
  /\ soloCadenas => inst.fallo # "desborde"

\* Abbreviations for the properties of the steps.
Lee(m, k) == IF Guardada(m, k) THEN obtenerValorCompleto(m, k) ELSE SinArchivo

\* A SET that is answered EXITO_I leaves exactly its value, unless the value takes
\* more entries than the key had.
RespuestaVeraz ==
  [][\A k \in Claves, L \in Largos :
       inst'.resp = "EXITO_I" /\ inst'.fallo = "no" /\ ~Crece(inst, k, L) /\ SET_(k, L)
       => Lee(inst', k) = Valor(k, L)]_vars

\* A SET removes another key whole or leaves its value alone, with two exceptions: the
\* NUL after a value that fills its entries falls on the first byte of the entry that
\* follows, and a key of several entries is removed in part when free() overwrites it.
DanoAcotado ==
  [][\A k, q \in Claves, L \in Largos :
       /\ k # q /\ inst'.fallo = "no"
       /\ Guardada(inst, q) /\ Guardada(inst', q) /\ Lee(inst', q) # Lee(inst, q)
       /\ SET_(k, L)
       => \/ pisa /\ obtenerIndicesDeClave(inst', q) # obtenerIndicesDeClave(inst, q)
          \/ /\ L % T = 0 /\ Guardada(inst', k)
             /\ Max(obtenerIndicesDeClave(inst', k)) + 1 = Min(obtenerIndicesDeClave(inst', q))
             /\ Tail(Lee(inst', q)) = Tail(Lee(inst, q))]_vars

\* No entry is free before one that is not.
Compacta(m) == \A n \in Entradas \ Libres(m) : 0..n \cap Libres(m) = {}

\* The compaction that a SET asks for is the one it needs: after it, the same SET is not
\* answered COMPACTAR again.
CompactacionSirve ==
  [][\A k \in Claves, L \in Largos :
       inst'.resp = "COMPACTAR" /\ SET_(k, L)
       => guardarClaveValor(compactarEntradas(inst'), k, Valor(k, L)).resp # "COMPACTAR"]_vars

\* What entry n holds is a string: a NUL follows it in the entry, and there is none before.
Cadena(m, n) ==
  /\ m.tabla[n].tam < T /\ m.bytes[n * T + m.tabla[n].tam] = NUL
  /\ \A j \in 0..(m.tabla[n].tam - 1) : m.bytes[n * T + j] # NUL

\* A compaction alters no value when it moves no entry, or when every entry holds a string.
\* (One that fills its entry and moves may be lost, and so may one that starts with the
\* NUL of the value before it.)
CompactacionConservaCadenas ==
  [][COMPACTAR /\ (Compacta(inst) \/ \A n \in Entradas \ Libres(inst) : Cadena(inst, n))
     => \A k \in Claves : Lee(inst', k) = Lee(inst, k)]_vars

\* The entries that the values of the files take; an empty value takes one too.
Ocupa(s) == IF Len(s) = 0 THEN 1 ELSE cantidadDeEntradasRequeridasParaValor(Len(s))
EntradasDeArchivos(orden, f) ==
  LET suma[j \in 0..Len(orden)] ==
        IF j = 0 THEN 0
        ELSE suma[j - 1] + (IF f[orden[j]] = SinArchivo THEN 0 ELSE Ocupa(Leido(f[orden[j]])))
  IN  suma[Len(orden)]

\* When the files fit in the table and reading them breaks nothing, a restart brings back
\* every value of at most PACKAGESIZE bytes, and of a longer one only its start.
RecuperaLoGuardado ==
  [][\A orden \in SetToSeqs(asignadas) :
       inst'.fallo # "desborde" /\ Reiniciar(orden) /\ EntradasDeArchivos(orden, archivo) <= N
       => \A k \in asignadas : archivo[k] # SinArchivo =>
            LET v == HastaNUL(archivo[k])
            IN  Lee(inst', k) = IF Len(v) <= PACKAGESIZE THEN v ELSE SubSeq(v, 1, PACKAGESIZE)]_vars

\* Expected to fail: a value of several entries is not replaced by a SET of one entry
\* ("contiene un valor NO atomico. Por enunciado no se reemplaza", Instancia.c:441).
NoReemplazaNoAtomicas ==
  [][\A k, q \in Claves, L \in Largos :
       SET_(k, L) /\ L <= T /\ k # q /\ Cardinality(obtenerIndicesDeClave(inst, q)) > 1
       => obtenerIndicesDeClave(inst', q) = obtenerIndicesDeClave(inst, q)]_vars
===============================================================================
