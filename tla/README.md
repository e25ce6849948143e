# ReDistinto: a verification project

ReDistinto (`../src`) is a distributed key-value store in C. Scripts run by **ESI**
processes issue `GET`, `SET` and `STORE` on keys; a **Planificador** decides which
ESI runs its next sentence and who owns each key; a **Coordinador** routes each
sentence to one of several **Instancias**, which hold the values. Every process is a
separate program, joined to the others by TCP sockets.

The modules here model the scheduling and locking protocol of that system (the
Planificador, the ESIs, the part of the Coordinador between them), the mutexes by
which the Coordinador's threads share one connection to the Planificador, the lists by
which they give keys to Instancias, the semaphores by which they make every Instancia
compact, the Instancia itself, and the detection of deadlocks.

## Inventory

| Component | Source | State | Operations |
|---|---|---|---|
| Planificador | `Planificador/src/Planificador.c` | `esi_en_ejecucion`, `esi_listos`, `esi_bloqueados`, `esi_terminados`, `claves_bloqueadas`, the pending-event globals of `Planificador.h` | one handler for each descriptor of a `select()` loop: new ESI, result or disconnection of an ESI, consultation of the Coordinador, console command (`deadlock` among them) |
| ESI | `ESI/src/ESI.c` | position in its script, last line, last order | wait for an order, send a sentence, forward the result; end, abort, die |
| Coordinador, ESI threads | `Coordinador/src/Coordinador.c` | `lista_claves`, the sentence of the thread | reject, register the key, consult, execute, answer |
| Coordinador, consultation | same | `sentencia_global`, `rdo_consulta_planificador`, three mutexes | `puedoEjecutarSentencia` on one side, `loopPlanificadorConsulta` on the other |
| Coordinador, distribution | `funcionesInstancia.c`, `FuncionesCoordinador.c` | `lista_instancias`, free entries, flags, semaphores | EQL, LSU and KE, connection checks, compaction of all Instancias |
| Coordinador, status | `FuncionesPlanificador.c` | none of its own | asks an Instancia for a value, simulates the distribution |
| Instancia | `Instancia/src/*.c` | table of entries, storage, replacement pointer, operation counter, answer code | SET, STORE, replacement (CIRC, LRU, BSU), compaction, dump, recovery |
| redis_lib, Modificar_config | | none | headers, configuration |

How they interact:

* The ESI gets an *order* (`OPERACION_CONF_SENTENCIA`) from the Planificador, sends a
  *sentence* to its Coordinador thread, waits for the *answer* and sends it as a
  *result* to the Planificador. It has one message on its way at a time.
* The Coordinador thread puts the sentence to the Planificador (a *consultation*),
  waits for the verdict, and only then sends a `SET` or `STORE` to an Instancia.
* The Planificador records what a sentence changes not when it is consulted but when the
  ESI reports `CORRECTO`; in between it keeps the change in globals
  (`bloqueo_por_get`, `desbloqueo_por_store`, ...). Console commands that concern the
  running ESI are kept in globals of the same kind until the same moment.
* The threads of the Coordinador share `lista_claves` and `lista_instancias` without a
  lock. An Instancia that answers `COMPACTAR` makes the thread of the ESI order a
  compaction of all Instancias, through the *loop thread* that the Coordinador keeps for
  each, and send the sentence again.

The third point is what makes the scheduling hard. Every pending change is a global
that is not tied to the ESI it was raised for, and a consultation, a console command,
a death or an abort can come between the moment it is raised and the moment it is
applied. The complete list of hazards, with the source line where each bites, is in
`PROJECT.json`.

## Modules

| Module | What it is |
|---|---|
| `Planificador` | the memory of the Planificador as one record, and each of its C functions as an operator on it, under the name it has in the source |
| `ReDistinto` | the system: `Planificador` with the ESIs, their Coordinador threads and the operator, one action for each handler or step |
| `TurnoDeConsulta` | abstract: what a consultation promises to the rest of the Coordinador |
| `Consulta` | the mutexes, globals and threads that implement it |
| `DeteccionDeadlock` | the console command `deadlock`, turn by turn of its loops, against a definition of deadlock that does not walk |
| `Distribucion` | the threads of the ESIs and of `status` over the shared lists, and Instancias that come and go |
| `Compactacion` | the semaphores, flags and threads of a compaction of all Instancias |
| `Instancia` | the table of entries and the bytes of one Instancia, its files, and its restarts |
| `MCReDistinto`, `MCConsulta`, `MCDeteccionDeadlock`, `MCDistribucion`, `MCCompactacion`, `MCInstancia` | the instances for TLC: symmetry and values of constants |
| `ReDistinto_proofs` | lemmas on the lists and on each function of `Planificador`; over them, types, one script at a time, where each ESI is, and who gets the processor and when |
| `Duenos_proofs` | over it, who owns each key, how a key leaves its owner and who waits for it |
| `Desalojo_proofs` | over `ReDistinto_proofs`, who may take the processor from whom |
| `Consulta_proofs`, `DeteccionDeadlock_proofs`, `Compactacion_proofs`, `Distribucion_proofs` | the inductive invariant of each and its theorems; in `Consulta_proofs` also the refinement |
| `Instancia_proofs` | what recursive functions compute, what each function does to the table and the bytes, and the theorems on every safety property of `Instancia` |

How they fit together: `ReDistinto` takes one consultation at a time from the
Coordinador, which is what `TurnoDeConsulta` promises and `Consulta` implements. It takes
from an Instancia only "done" or "failed"; `Distribucion` is what the Coordinador does
to get that answer, with the Planificador reduced to who owns a key. `Distribucion`
takes a compaction as one step, whose end `Compactacion` is about, and any answer from
an Instancia, whose content `Instancia` is about. `DeteccionDeadlock` starts from any
lists, so also from those that `ReDistinto` reaches.

### Planificador and ReDistinto

The Planificador has one thread and its handlers run to their end, so a handler is the
composition of the functions it calls: `recibir_mensaje_esi` is `procesar_resultado`,
then `aumentar_tiempo_espera_ready`, then `planificar`, as in the code. An operator
whose code may go two ways gives a set of memories; the only real choice is the order in
which the keys of a finished ESI are released, because the order in which they were
locked is not kept (`dueno` is a function from keys to owners, not a list).

How the record corresponds to the globals:

* `exec`, `listos`, `bloqueados`, `terminados`: `esi_en_ejecucion` and the three lists.
* `dueno[k]`: the record of `k` in `claves_bloqueadas`; `Sistema` is pid -1, `Libre` no
  record.
* `pausado`, `bloqueo`, `kill`, `por_desalojar`, `por_get` with `get_clave` and
  `get_pid`, `store_clave`: the pending events. Counters that the code only compares
  with zero are BOOLEAN. `clave_a_bloquear_por_get` is freed and not set to NULL; a use
  after that is a use of freed memory.
* `pcb[e]`: the fields of `t_pcb_esi` that anything reads. Estimates are `float` in the
  code; the model keeps them as integers times `Escala`, exact as long as an estimate has
  been halved fewer times than `Escala` has factors of two. FIFO reads none of the
  counters, so under FIFO they stay at their first value (`Mide`).
* `orden`: the ESIs that were sent an order and have not read it. A set suffices because
  no ESI is sent a second one before it reads the first (`OrdenEnEspera`, proved).
* `fallo`: some handler has dereferenced a NULL or freed pointer, or has left a dangling
  pointer in a list that is walked at every lookup. What the process does from there is
  undefined, so `ReDistinto` does not follow the Planificador past it; the properties say
  what holds until then, and `SinAccesoInvalido` says that it never happens.

The messages of an ESI and the place of its Coordinador thread are one phase
(`fase[e]`), because the protocol allows one message at a time. `resp[e]` is the verdict
or result in that message. When an ESI dies, its thread goes on with its sentence: the
consultation still arrives and the Instancia still gets the `SET`. A process that dies
with an order unread resets its connection (`recv` gives -1 in the Planificador), any
other closes it (`recv` gives 0); the two handlers differ, and both are modelled.

The Instancias are the answer that a `SET` or `STORE` gets: done, or, when `HayFallas`,
failed. What a line of a script says is chosen freely among the sentences on `Claves`.

### TurnoDeConsulta and Consulta

`ReDistinto` lets one sentence at a time be with the Planificador. That is what
`TurnoDeConsulta` says, and `Consulta` shows it of the code: each ESI thread takes
`lock_sentencia_global`, publishes its sentence, *unlocks* `consulta_planificador` to
wake the other thread and *locks* `consulta_planificador_terminar` to wait for it. Each
of these two mutexes is locked by one thread and unlocked by the other, so they act as
binary semaphores, which is how glibc's default mutexes behave; POSIX leaves it
undefined. The refinement mapping `turno <- lugar` reads the place of a sentence from the
program counters and the two mutexes, and `ImplementaTurno` is checked by TLC and proved.

### DeteccionDeadlock

The Planificador has one thread, so the lists stand still while
`consola_consultar_deadlock` runs; Init takes every list of blocked ESIs, every key each
of them may wait for and every owner each key may have (also an ESI that is not blocked,
pid -1, or no record). `Saltear`, `Analizar` and `Mostrar` are the head of the `for`;
the other actions are the branches of one turn of the `while`. `deadlock` and
`lista_deadlocks` are the lists of the code, and `esi_aux` is the last of `deadlock`.
`pc = "nulo"` is the dereference of a NULL pointer. An ESI that waits for a key of its own is
shown as a deadlock with itself: the list gets it at the head of the `for`, and again as the
owner of what it waits for.

### Distribucion

`lista_claves` holds pointers: here indices into `claves`, the objects, because two
threads may keep a pointer to an object that a third has taken out of the list. It is a
set: `list_add` puts each new object last, so the order of the list is that of the indices.
A thread of an ESI goes from step to step of `puedoEjecutarSentencia`,
`proseguirOperacionNormal` and `enviarSentenciaInstancia`; between two steps it waits for
a socket or lets another thread at the lists. `siguienteInstanciaSegunAlgoritmo` is one step for
each turn of its loop, with `siguienteEqLoad`, `siguienteLSU` and `siguienteKeyExplicit`
as functions of the list. `status` is the thread of `buscar_clave`. An Instancia connects,
dies and comes back (`guardarEnListaDeInstancias`, `MorirInstancia`); it is never taken
out of `lista_instancias`.

`hay_alguna_conectada` ends without a `return` when its Instancia is down, so whether the
Coordinador sees that all are down is a choice (`EntrarASiguiente`).

`falla` says on what the Coordinador has broken; the model stops there.

* `nulo`: a key that is looked for again is not found, or `eliminarClave` removes the first of
  an empty list.
* `basura`: the Instancia of a key that has none, or the result of a function that ended
  without a `return` (two objects of the key in the list).
* `error`: the `t_instancia` that stands for "there is none" has a name that nobody allocated and
  a socket that nobody set. Writing or freeing the name may break; otherwise the key is left with
  an Instancia that does not answer. (Where it does answer `ABORTAR`, that is the number of
  `COMPACTAR`, but only after the name was freed and read.)
* `letra`: under KE a key that does not begin with a lowercase letter takes the search past `z`,
  where `cual_es_el_string` returns nothing and its caller frees that. The Instancias share
  `CANTIDAD_LETRAS` = 25 letters, one more each, so that the 26 are covered.
* `texto`: with a code that is none of the answers it knows (`bandera == 0`),
  `devolverCodigoResultadoAESI` logs `pr_c` before anybody sets it, and then answers `ABORTAR`.
  Both outcomes are in the model (`Responder`, `Romper("texto")`). The code is unknown when
  it is a fourth `COMPACTAR`, or whatever the memory had where `recv` brought nothing because
  the Instancia died, or the answer to another thread on the same socket (`Fiable`).

An ESI that is told to abort is over, and remains the owner of its keys (`no_liberar`).

### Compactacion

`Contar`, `Postear`, `Esperar` and `Volver` are the lines of
`indicarCompactacionATodasLasInstancias`; `Tomar`, `Ordenar`, `Responder`, `Desistir` and
`Salir` those of `loopInstancia`. `Chequear` is any other thread that finds the Instancia
disconnected and lowers its flag. `Conectar` starts a loop thread only when the flag is
down: an Instancia that comes back before anybody saw it gone is left with two
readers of its socket (`oyente`, `Robar`), and one whose flag was lowered gets a second loop
thread while the first still waits for a post (`MaxLazos`).

### Instancia

The table is a function from entries to records, which `list_sort` by `numeroEntrada` makes of
the list. Functions of the code are operators from the memory of the process to its
memory afterwards. The bytes of the storage are in the model because what goes
wrong with them does: `strcpy` writes a NUL that `memcpy` does not, and stops at the first
one it meets. A byte is its key and its place in the value. `pisa` is whether `free()`
overwrites the key of the record it frees, with which the code goes on comparing: either
may happen, for good in one build.

`fallo` says how the process has broken: it wrote a record past the table (`fuera`) or
over another (`superpuesta`), used a NULL pointer (`nulo`), looked for the value of a key
that had been replaced (`ausente`), freed a pointer that nobody set (`basura`), or a string
function ran past the end of a block and broke what was there (`desborde`). The
model stops there.

The last one is a choice: what is past a block may be nothing that matters. There are three such
places. The `strcpy` of an update puts its NUL past the table when the value fills the last entry
(elsewhere it falls on the first byte of the next entry, which `DanoAcotado` tells); the
`strcpy` of a compaction reads on when the last value has no NUL before the end of the
table; and a recovery reads at most `PACKAGESIZE` bytes of a file, so a value of that length
fills the block and `strlen` runs past it. `PACKAGESIZE` is 1024 in the code: of a longer value
only the first 1024 bytes come back after a restart, though the table has room for more.

## What is checked

Runs that pass:

| Run | Instance | Shows |
|---|---|---|
| `contencion` | FIFO, 3 ESIs, 2 keys, 2 lines, pauses, failing Instancias | `ExclusionMutua`, `EscrituraAutorizada`, `EsperaConMotivo`, `DuenoVivo`, `RepiteAntesDeTerminar`, `TypeOK` |
| `consola` | FIFO, 2 ESIs, 1 key locked by the configuration, every console command | `NoOcioso`, `EnMarcha`, `PausaSinOrdenes` |
| `sjf_cd` | SJF with preemption, 3 ESIs that may die at any point, pauses | `UnoEnEjecucion`, `Colas`, `DesalojoJusto` |
| `progreso` | FIFO, 2 ESIs, 2 keys, fairness | `TerminaOEspera`, `SoloLiberaElDueno`, `DuenoAtendido` |
| `consulta` | 2 threads, 2 sentences each, a Planificador that may die, fairness | `ImplementaTurno`, `ConsultaTermina`, `ConsultaDelDueno`, `SinSenalSobrante`, `RespuestaNoAnterior` |
| `deadlock` | all lists of 3 ESIs and 3 keys, fairness | `EslabonesCiertos`, `CadaUnoUnaVez`, `FinExacto`, `Termina` |
| `compactacion` | 2 Instancias that may die and come back, 2 rounds, fairness | `NadaSobra`, `FlagConLazo`, `RondaTermina` |
| `instancia` | 3 entries of 3 bytes, 4 keys, values of 2, 3 and 5 bytes, of which a recovery reads 4, CIRC, LRU and BSU, 5 operations | `ClavesContiguas`, `SoloAtomicasNoFalla`, `RespuestaVeraz`, `DanoAcotado`, `CompactacionSirve`, `CompactacionConservaCadenas`, `RecuperaLoGuardado`, `TypeOK` |
| `distribucion` | EQL and KE, 2 threads of which one ESI may die, `status`, 2 keys of which one begins with no letter, 2 Instancias of which one may die | `SinDuplicadas`, `NoCae`, `AsignacionEstable`, `TypeOK` |
| `respuesta` | EQL, LSU and KE, 1 thread, 4 sentences, 3 keys, an Instancia that may die, fairness | `SentenciaResponde` |

Each property is stated in words above its definition. Several hold only with an exception that
the statement names; what happens in the exception is below.

Runs that end in a violation. Each checks one statement that the source makes of itself,
and TLC shows a run of the program where it is false:

| Run | What happens |
|---|---|
| `clave_colgada` | an ESI ends with a key that two others wait for: the record is freed and left in the list. The next lookup reads freed memory |
| `compactacion_doble` | the comment on the posts says that no Instancia compacts twice while another does not compact: a fast one takes the post meant for the other |

### Properties that do not hold

Other disagreements that the model shows, which have no run of their own. Each is found by
giving the named run the property named here, and only it, with the change told here. TLC finds
each of those in a few minutes at most.

Scheduling and locks (`ReDistinto`):

* `SoloMuereElPedido` in `consola`: `kill` of the running ESI is kept in a flag that names
  no pid and that nothing lowers. If that ESI leaves the processor first, the
  next to get a `CORRECTO` is killed, and every one after it.
* `EsperaConMotivo` in `contencion` with command `matar`: the owner of a key is killed
  after the verdict `CLAVE_BLOQUEADA` and before the asking ESI reports it. The key is
  freed, then the ESI is blocked on it, and waits for ever.
* `EsperaConMotivo` in `contencion` with command `bloquear`: the pending block of an ESI
  that has left the processor falls on the next one, with a NULL `clave_bloqueo`.
* `SoloLiberaElDueno` in `progreso` with `HayFallas`: a `STORE` is allowed and then fails at
  the Instancia. The pending release stays, and the next `CORRECTO` of any ESI releases
  the key of the aborted one.
* `RepiteAntesDeTerminar` in `contencion` with `FinDeArchivo = {TRUE}`: the last line has
  no newline and its key is locked. The ESI, when woken, answers `LISTO` instead of
  repeating the line.
* `DuenoVivo` in `contencion` without its exception: `ABORTAR` ends an ESI with
  `no_liberar`, and its keys stay locked by a pid that no longer exists.
* `DuenoAtendido` in `progreso` with command `bloquear`: a key locked from the console is
  unknown to the Coordinador, which refuses the owner's first `SET`.
* `ExclusionMutua`, or `EnMarcha`, in `sjf_cd` with FIFO and two keys: the late
  consultation of a dead ESI overwrites the pending `GET` of the running one. Two ESIs
  hold one key, or the running ESI gets no more orders.
* `EscrituraAutorizada` in `sjf_cd`: a `SET` that was allowed is applied although its ESI has
  died and its keys were released.
* `NoOcioso` in `sjf_cd`: an ESI that dies with an order unread resets its connection,
  and that handler (`RecibirReset`) does not call `planificar`.
* `DesalojoJusto` in `sjf_cd` with command `desbloquear`, without its exception for a pending
  preemption: it stays pending when the ESI it was decided on leaves the processor, and is
  applied to the next, which may have less left than the one that preempts it.
* `DesalojoJusto` in `sjf_cd` with two ESIs, none of which dies, `EstimacionInicial = 1` and
  commands `bloquear` and `desbloquear`, without its exception for a pending block: the
  running ESI is blocked on a key, and its own `STORE`, in the same `CORRECTO`, releases the key
  and wakes it. It is ready again with a new estimate, and loses the processor to one it
  was not to lose it to.
* `SoloConsulta` in `deadlock`: when an owner of a key is not blocked, the message "No hay
  deadlock" reads `esi_aux->pid` with `esi_aux` NULL (`Planificador.c:1366`). A chain
  that leads into a deadlock it is not part of is walked for ever, which is the exception of
  `Termina`.

Coordinador (`Consulta`, `Distribucion`, `Compactacion`):

* `RespuestaPropia` in `consulta`: a thread reads the global answer after opening the lock,
  and gets the answer to another thread's sentence. When the Planificador dies before it
  answers, the zeroed answer reads as `CORRECTO` (`RecibirFin`).
* `NoCae` and `SinDuplicadas` in `distribucion` without their exceptions: the thread of an ESI
  that died between its two looks at `lista_claves` adds a key that another has added
  since. A filter with two keys leaves the Instancia of the sentence unset. Each cause that
  `NoCae` names does happen in that run, but `basura` only after the death.
* `EliminaLaCaida` in `distribucion`: `status` and an ESI may both find the Instancia of a
  key down; the second `eliminarClave` does not find it, and removes position 0.
* `StatusResponde` in `respuesta` with `MaxConsultas = 1` and `MaxSentencias = 2`: with
  EQL, SIMULAR does not move the index, so while the next Instancia is down `status` tries the
  same one for ever.
* `RondaTermina` in `compactacion` without its exception: of two readers of a socket the wrong
  one takes the answer, and the round waits until that Instancia dies.

Instancia:

* `CompactacionConservaCadenas` in `instancia` without its condition: a value that fills its
  entries has no NUL after it, and `strcpy` of the entry takes what follows. A value that
  moves may be lost. A short value may be lost too: when the one before it fills its
  entries, a `SET` of that one puts its final NUL on the first byte of the short value, and the
  compaction then moves an empty string. A run to that takes seven messages on
  four entries, more than the bounds of `instancia`; it was the proof that asked for
  the condition on the bytes (`Cadena`) where one on the sizes had seemed enough.
* `NoReemplazaNoAtomicas` in `instancia` with `N = 4`: a free
  entry is found one too far, so a value of one entry is written over one of several.
* `SoloAtomicasNoFalla` in `instancia` without `soloAtomicas`: with numeroEntrada near the end,
  a value of several entries is placed past the table (`fuera`); under CIRC a compaction leaves
  `numeroEntrada` where the replacement put it, and the sentence that is sent again
  overlaps another key (`superpuesta`); with no atomic value left, the replacement uses a
  record that nobody filled in (`nulo`). A file truncated by a crash is recovered as a
  value of no entries, which breaks CIRC in the same way.
* `SoloAtomicasNoFalla` with `soloAtomicas` in place of `soloCadenas`: a second `SET` of a key
  with a value that fills the last entry of the table writes its NUL past the table.
* `RecuperaLoGuardado` with `HastaNUL(archivo[k])` in every case: a value of five bytes comes
  back with four.
* Also of the Instancia, and in the model as it is: a `SET` that needs more entries than the key
  has changes nothing and is answered `EXITO_I` (`Crece`); `STORE` truncates the file
  before it looks whether the key is there, and does not count as a use for LRU;
  `status` of a key that has been replaced dereferences NULL, and after any value frees a
  pointer that nobody set.

### Bounds

* Three ESIs: one owns a key and two wait for it, which is where the two-waiter branch
  of `desbloquear_clave` and the freed record lie. The runs with every console command
  and with fairness use two, to stay small.
* Two lines in a script are a `GET` and a sentence that depends on it; after that the
  script may end, or be told to repeat.
* One key where the question is about the queues; two where an ESI can hold one and wait
  for the other.
* `Escala` is small, and `EstimacionInicial` is 1, so that a burst can exceed its estimate;
  it is 6 in `sjf_cd`, more than any burst of two lines, so that an ESI that is woken has a
  lower estimate than what the running one has left, and a preemption stays pending.
* `MaxConsultas` is 2, so that a thread comes back after its first sentence. The same
  configuration with three threads has 1,298,054 states and also passes.
* There is no bound on the commands of the console or on the number of orders: the
  scripts bound the runs.
* Three ESIs and three keys in `deadlock` have deadlocks of one, two and three, one ESI
  outside a deadlock of two, and chains that end in a key without a record.
  `MaxEslabones` is twice as long as any list that ends.
* `N = 3` and `T = 3` in `instancia`, with values of 2, 3 and 5 bytes: a value takes one or two
  entries, fills its last one or does not, and there is room for a short and a long one; an
  entry that is not full has its NUL in it. `PACKAGESIZE = 4` is between the second and the third:
  a restart cuts the value of five bytes, and what is left fills the block that was read. Four
  keys make one more than fit.
  Five operations reach a full table, a replacement, a compaction and the same `SET` again.
* Three sentences in `distribucion` are a `GET` and a `SET` of one ESI with a `GET` of another
  in between. Two lives let an Instancia come back. `MaxLibres = 1` tells a full Instancia from
  one with room, which is all that LSU compares. The keys of `distribucion` are `k2`, which
  begins with the last letter, and `k3`, which begins with none; of the retries, three and a fourth
  `COMPACTAR` fit in one sentence. LSU chooses once, as KE does; what only LSU reads, the flags and
  the free entries, is in `respuesta`. That run has four sentences and a third key with the first
  letter, so that `indice_actual_lista` goes round and KE uses both Instancias.
* Two Instancias in `compactacion` are one that may take the post of the other; two rounds,
  so that something left by the first meets the second; two loop threads, one for each life.
* `CHECK_DEADLOCK FALSE` in all the runs: the system rests when every script has ended or
  its ESI is blocked, which is a legal end. `TerminaOEspera` and `ConsultaTermina` say
  that it rests in no other way.

### Fairness

`SpecJusta` of `ReDistinto` assumes weak fairness of each ESI, of each Coordinador
thread and of the Planificador towards each ESI. The first two are processes and threads of the
operating system; the third holds because `main` serves every ready descriptor after each
`select()`. Nothing is assumed of the arrival of ESIs, of the operator, or of crashes.
`SpecJusta` of `Consulta` assumes weak fairness of each thread's steps and of the loop;
`lock_sentencia_global` is contended, but each thread puts a bounded number of
sentences, so weak fairness is enough.

`DeteccionDeadlock` is one thread: weak fairness of `Next`. `Distribucion` assumes it of the
steps of each thread, `RecibirRespuesta` included: the Instancia answers or its
socket closes. `Compactacion` assumes it of the thread of each round, of each loop
thread once it has a post, and of "some loop thread takes the post": not of each of them, since
a semaphore does not say whom it wakes. No fairness is assumed of `Robar`, `Chequear`,
`Conectar` or of the deaths.

## What is proved

All the theorems hold for every value of the constants under their named assumptions:
`PidsDistintos`, `ClavesDistintas`, `EstimacionPositiva` and `EntornoBienFormado` for
`ReDistinto`, `HilosBienFormados` for `Consulta`, `NombresDistintos` for
`DeteccionDeadlock`, `Cotas` for `Compactacion`, `DistribucionBienFormada` for
`Distribucion`, `TablaBienFormada` (at least one entry of at least one byte, and no empty
value in a `SET`), `BloqueDeLectura` (`PACKAGESIZE` is at least 1) and `CentinelasDistintos` (`Libre` and `SinArchivo` are not records or
files) for `Instancia`.

**ReDistinto.** `Tipos` (`TypeOK`) and `UnSoloEsiAvanza` (`UnoEnEjecucion`): for every
algorithm, any number of ESIs and keys, any console commands and any crashes, only the
ESI in `esi_en_ejecucion` has an order, a sentence or a result on its way. This is what
makes `recibir_mensaje_esi` right, since it charges each result to `esi_en_ejecucion`
without asking who sent it. `UnoEnEjecucion` is not inductive by itself. `IInv` adds:

* `OrdenEnEspera`: an ESI with an unread order is waiting for one. Without it a second
  order could be read while a sentence is under way.
* `AfueraNoEsta`: the Planificador has nothing in its lists about an ESI that has not
  connected.
* `LineaLeida`: an ESI with a sentence under way, or told to repeat one, has read one
  (needed for the types of what it consults).

The argument: each function of `Planificador` relates the memory before and after by
`Deriva(p, q, R)`, which says what it may do to the lists, the running ESI and the
orders; one lemma per function proves it, others chain them for each handler, and the
proofs about the system use only those, one step per action.

`CadaUnoEnSuLugar` (`Colas`) holds with every command and every crash too. For it,
`Ubicados(p, S)` says of a memory that no list holds an ESI twice, that the places are
disjoint, and that the ESIs of `S` that have not ended are those somewhere. Each C function
either moves nobody or takes one ESI out of a place and puts it in another, so there is one
lemma per function; `IColas` is `Ubicados` of the ESIs that have connected.

Most of the other theorems about `ReDistinto` have to leave something out; for most of
them, "Properties that do not hold" above tells what happens otherwise.

| Theorem | Property | Leaves out | Strengthened by |
|---|---|---|---|
| `LaPausaSeRespeta` | `PausaSinOrdenes` | nothing | `IInv`; each function keeps quiet while paused (`Callado`) |
| `RepiteLoBloqueado` | `RepiteAntesDeTerminar` | scripts whose last line has no newline (`TRUE \notin FinDeArchivo`) | `Guiones`: an ESI that reports its end has nothing to repeat |
| `ElDuenoEsAtendido` | `DuenoAtendido` | the command `bloquear` | `Registradas`: an owned key, or one asked for, is in `lista_claves` |
| `NuncaOcioso`, `SiempreEnMarcha` | `NoOcioso`, `EnMarcha` | ESIs that crash (`PuedenCaer = {}`) | `IVivo`: nothing of an ESI is on its way when the Planificador forgets it (`SinCaidas`), and a refused `GET` is still the pending one when its result is read (`GetPropio`) |
| `NadieComparteClave`, `EscribeElDueno` | `ExclusionMutua`, `EscrituraAutorizada` | crashes, and every command but `pausar` and `continuar` | `Reparto`, below |
| `NingunDespertarPerdido` | `EsperaConMotivo` | the same | `Motivos` and `NegadoConMotivo`: no key is unlocked between the refusal of a `GET` and the moment the ESI is put in `esi_bloqueados` |
| `SoloElAbortadoRetiene` | `DuenoVivo` | crashes | `Herencia`: no function gives a key to a finished ESI, and a `finalizar_esi` that releases leaves it none; `Contestado`: a result is one of the named ones, and no connection is reset |
| `LaClaveSaleConSuDueno` | `SoloLiberaElDueno` | crashes, failing Instancias, and every command but `pausar` and `continuar` | `StorePropio`: the owner of a key with a pending release is in the system and has that `STORE` under way |

`Reparto` is the agreement between the locks and what the ESIs have in their hands. The
Planificador locks a key only when it reads the result of the `GET`, so in between the key
is free for it and taken for the ESI. `GetPendiente` says that such a `GET` is always the
pending one and its key still free; `Tenencia`, that any other key in the hands of an ESI is
locked by it. `StorePendiente` is the delicate part: when an Instancia fails a `STORE`, the ESI
aborts but the release stays pending, and the next `CORRECTO`, of any ESI, carries
it out. The owner has ended by then, so the key that is released is nobody's.

`SeDesalojaConRazon` (`DesalojoJusto`), in `Desalojo_proofs`, leaves nothing out but the two
exceptions in the statement, which are in "Properties that do not hold". Under SJF-CD an ESI
that could go on loses the processor only to one with an estimate below what was left of its
own burst. The comparison is made when an ESI becomes ready, and its outcome is used at a later
`CORRECTO`, when the running ESI has counted one more sentence; and in that `CORRECTO` a `STORE`
may wake another ESI, whose preemption replaces the pending one. So the property has two halves:
the comparison holds when it is made and for as long as both ESIs stay where they are
(`PideConRazon`), and if it holds, the change of ESI is right (`QuitaConRazon`). `IColas` is
what it needs: since an ESI is in one place only, nothing that moves another one changes the
estimate of a ready ESI or the burst of the running one. Each function either preempts
nobody (`NoDesaloja`: a new pending preemption has just been decided, the two sides of an old one
are as they were, and who leaves the processor does not become ready) or is the `CORRECTO` that
applies it (`Aplica`).

**Consulta.** `IInv` says that the mutexes are in step with the program counters: one
thread at most has the lock (`InvLock`), `sentencia_global` is that of the thread that
waits (`InvGlobal`), and each signal is open only between its unlock and its lock
(`InvSenal`). From it: `Tipos`, `ElBucleAtiendeAlDueno`, `NingunaSenalSobra`, and
`Refinamiento`, by which `Consulta` implements `TurnoDeConsulta` for any number of threads.
`LaRespuestaNoEsAnterior` adds `InvTicket`, the order of the tickets.

**DeteccionDeadlock.** `LoMostradoEsDeadlock` (`EslabonesCiertos`): for any ESIs, keys and
lists, what the command shows is a cycle of ESIs that wait for each other. The last turn
of the walk only compares with the first ESI, so the invariant adds `Cadena`: each
element of the walk asks for what the next one holds. `NadieEnDosDeadlocks`
(`CadaUnoUnaVez`): the code looks only at the ESI a walk starts from. That is enough because a
deadlock that was shown cannot be left (`LemaCerrada`), so a walk that enters one is still in it
when it closes (`NoSale`), and then it had started in it. That no list has an ESI twice, but the
one that waits for its own key, is `SinVueltas`: a walk that comes twice to an ESI goes on among
those it met in between, and never comes back to the first, which is what would close it.

`MuestraTodos` (`FinExacto`): a command that ends has shown every deadlock there is, and the other
blocked ESIs wait, through others, for a key without record. The definition counts turns, as many
as there are ESIs (`Lleva`), and the code's walk stops by itself. What joins them is a notion
without numbers: an ESI leads to another (`Alcanza`) when no set that nobody leads out of has the
first and leaves out the second. The walk goes only where its first ESI leads (`Alcance`), those
shown together lead to each other (`Vueltas`), and those passed over lead to a key without record
(`Vistos`); these three are inductive. At the end, `Lleva` has more turns than there are ESIs, so it
comes to one twice (the pigeonhole theorem of the library), and what it went through in between
is a set that nobody leads out of (`LlevaRepite`): so it is the deadlock, for who is in one
(`EsCiclo`), and so who leads to a key without record has come to it (`LlegaALibre`). That `Lleva` is
defined at all (`LlevaEs`), and stays in such a set (`LlevaDentro`), is induction from the order
of the finite sets, as in `Instancia` below.

**Compactacion.** `NadaSobraNunca` (`NadaSobra`) and `ElFlagTieneHilo` (`FlagConLazo`), for any
number of Instancias, of rounds at the same time and of deaths. Both semaphores may be
anything in the middle of a round; what does not change is the account (`Cuenta`): each
wait that a round owes and has posted for is a post in `semInstancias`, a loop thread that
took one, or a post in `semInstanciasFin`. `Rondas` adds that a round posts no more than
it waits for. That several rounds may overlap matters: a dead ESI's thread may be in one while
the next ESI's thread starts another.

**Distribucion.** `Tipos` (`TypeOK`), `SinRepetidas` (`SinDuplicadas`), `SinPunterosPerdidos`
(`NoCae`) and `ClavesQuietas` (`AsignacionEstable`), for any ESIs, keys and Instancias, every
algorithm and whatever dies or comes back. The Coordinador looks at its lists, waits, and
changes them, without a lock; what protects it is the Planificador, which lets one ESI send at a
time. So, while no ESI has died with a sentence in progress (`huerfanos`), one thread at most is
at work (`Orden`); then what a thread saw before it waited is still so (`Recuerda`: the
key it is about to add is not there, the object it is about to place has no Instancia), and, unless
`status` has removed a key, the object it found is still in the list, with an
Instancia by the time it sends (`Encuentra`). `HayLista` adds that `lista_instancias` is
not empty while a thread is at work, which keeps the index of EQL in its range. The proof has
one lemma per action for the types and one for the lists; `LemaSolo` reduces the second to
the thread that moves. From these come the causes of `nulo` and `basura` (`EncuentraLoSuyo`).

The other causes in `NoCae` need no order among the threads, but what the Coordinador knows of its
Instancias whoever dies (`Conoce`): each one in the list, or that a key was given to, has
connected, so one that is down has died (`LemaMuerta`), and a key has the Instancia `ERROR` only
after a death. With a thread that waits for the answer of the Instancia of a key, and a `status`
that works on a key, that makes `Causas` inductive (`CInv`).

`AsignacionEstable` speaks of the objects and of the keys. An object that has its Instancia keeps
it, since a thread gives one only to an object without (`Recuerda`); and a key that is in
the list before and after a step has the same only object (`SinDuplicadas`), since what a
step adds is of a key that was not there.

**Instancia.** Every safety property of the run has its theorem, for any number and size of
entries, any keys and lengths, the three algorithms, both behaviours of `free()`, and any number of
messages, dumps, restarts and crashes: `Tipos` (`TypeOK`), `Contiguas` (`ClavesContiguas`),
`NoFalla` (`SoloAtomicasNoFalla`), `Veraz` (`RespuestaVeraz`), `Acotada` (`DanoAcotado`),
`Sirve` (`CompactacionSirve`), `Conserva` (`CompactacionConservaCadenas`) and `Recupera`
(`RecuperaLoGuardado`).

The functions with a loop (`TamanioTotal`, `Liberar`, `compactarEntradas`,
`obtenerClavesARecuperar`) are recursive functions over an interval. What they compute is proved
by induction, which the library's first-order theorems allow: the intervals `0..x` are finite
sets, their strict inclusion is well founded, so a set of numbers has a least one (`Minimo`). From
it come `Induccion` over a set, `Recursion` (a recursive definition has a solution) and `Unica`
(it has one only).

* `IInv` is `TypeOK`, `IsFiniteSet(asignadas)` and `Corrida`. `ClavesContiguas` speaks of the least
  and the greatest entry of a key; `Corrida` says the same of any two: between them all are of that
  key, and the first is full. That is what survives, pair by pair, when `free()` overwrites a key and
  only a prefix of its entries goes (`Poda`), when a run of free entries is filled
  (`Coloca`), and when a compaction renumbers them in order (`Rangos`).
* `GuardarForma` says in which five ways a `SET` ends, with the memory in each; the theorems on
  a `SET` go through those cases. `Acotado` is `DanoAcotado` between two memories.
* `NoFalla` adds `DInv`: the table is dense (`Densa`), that is, `numeroEntrada` is its first free entry
  until the first replacement, and there is no free entry afterwards. So the search that
  looks one entry too far never finds anything, and the record that nobody fills in is never used.
* For values that leave room for their NUL (`soloCadenas`), `CInv`: every entry ends in a NUL
  (`FinNUL`), which each function keeps, since it copies such a value to the start of an entry, or
  clears. So no `strcpy` runs past the table, and what a recovery reads does not fill its block.
* `Conserva` follows the strings one by one: those already moved and those still to move do not
  change (`UnaMovida`). `Recupera` follows the files: after each, the table is taken up to what they
  need and free from there (`Ordenada`), so the next one fits and touches none of them (`Agrega`).
  What it brings back of each is `Leido`, the first `PACKAGESIZE` bytes (`LeidoEs`).

Only model-checked: the liveness properties (`TerminaOEspera`, `ConsultaTermina`,
`Termina`, `RondaTermina`, `SentenciaResponde`), since liveness under fairness and ENABLED are
beyond the provers. Every invariant and every action property of a passing run has its theorem. No
definition uses `RECURSIVE`.

## What is not modelled

* The content of keys in `ReDistinto` and `Distribucion`, the text of the messages, logging,
  and the commands that only show something (`listar`, `mostrar`, `ejecucion`, `bloqueos`).
* A message in two parts: header and body are one step. An ESI that dies between the two
  `send` calls of a result leaves a zeroed body, which reads as `CORRECTO`; so with an answer of an
  Instancia of which the thread of `status` reads one part and the thread of the ESI the other.
* The content of the answer to `status`.
* The dump in the middle of a compaction, which does not take `mutexDump`: the dump is one step between messages.
* Overflow of `contadorOperacion`.
* What the messages to the console of an Instancia read past the storage or past a block (a value
  that fills its block is printed with `%s`).
* The 21st ESI, which finds no position in `conexiones_esi`.
* A second Planificador that connects after the first has died, and the end of the
  Coordinador, which ends the Planificador.
* An ESI that goes on after its Planificador has closed its socket: it reads an
  uninitialised header and usually ends.
* SIGPIPE: its handler reads `esi_en_ejecucion->pid`, also when it is NULL.
* What a process does after a use of an invalid pointer: `fallo`, `falla` and `nulo` end
  its model.
* Configuration files, `Modificar_config` and the dummy programs.


## Plan

Done: the modules, runs and theorems above. What is left, in this order:

1. An abstract specification of the life of an ESI (ready, running, blocked, ended) that
   `ReDistinto` implements; and `ReDistinto` with the answers of `Distribucion`.
2. The dump as a thread of its own in `Instancia`.
3. Runs for HRRN and SJF without preemption, where they ask something FIFO does not.
