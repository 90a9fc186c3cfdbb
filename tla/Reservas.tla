------------------------------ MODULE Reservas ------------------------------
(***************************************************************************)
(* The reservations of CityHub: the handlers of handler_reservas.c run by  *)
(* a set of server processes, and the administrator's negocio.c, over the  *)
(* one SQLite file bd.db.                                                  *)
(*                                                                         *)
(* A server process serves one client and is single-threaded, but nothing  *)
(* in the code opens a transaction: every SQL statement commits on its     *)
(* own, so a handler is a sequence of atomic statements between which the  *)
(* other processes run.  One action below is one statement (or one send).  *)
(* SQLite has no busy handler here: a statement that meets another         *)
(* process's lock returns SQLITE_BUSY at once, and each helper turns that  *)
(* failed step into its own default value.                                 *)
(***************************************************************************)
EXTENDS Integers, FiniteSets, Functions

CONSTANTS
  Servidores,     \* server processes, one client each
  Admin,          \* the administration program
  Usuarios,       \* id_usuario of the registered users
  Nombres,        \* values of nombre_servicio (UNIQUE)
  Capacidades,    \* values of capacidad_max the administration can store
  MaxReserva,     \* bound: the largest rowid AUTOINCREMENT gives in reserva
  MaxServicio,    \* bound: the largest rowid AUTOINCREMENT gives in servicio
  OpsCliente,     \* the commands the clients use
  OpsAdmin        \* the operations the administrator uses

ASSUME ServidoresAssumption == Admin \notin Servidores
ASSUME IdsAssumption == /\ Usuarios \subseteq Nat \ {0}
                        /\ Capacidades \subseteq Nat
                        /\ MaxReserva \in Nat
                        /\ MaxServicio \in Nat
ASSUME OpsAssumption == /\ OpsCliente \subseteq {"CREATE", "GET", "CANCEL", "UPDATE"}
                        /\ OpsAdmin \subseteq {"VER", "ALTA", "BAJA", "CAMBIO"}

VARIABLES
  \* the database
  servicio,       \* id_servicio -> [nombre, capacidad]
  seqServicio,    \* sqlite_sequence of servicio
  reserva,        \* id_reserva -> [usuario, servicio]
  seqReserva,     \* sqlite_sequence of reserva
  bitacora,       \* the INFO rows of table log about reservations
  \* the processes
  pc,             \* the statement each process is about to execute
  pet,            \* the parsed parameters of the request each server handles
  capacidad,      \* the local variable `capacidad' of each handler
  resp,           \* the answer each server gave to its latest request
  lista,          \* the id_reserva of the rows a GET_RESERVA has sent
  edicion         \* what the administrator typed in the current menu

tablas == <<servicio, seqServicio, reserva, seqReserva, bitacora>>
locales == <<pet, capacidad, resp, lista>>
vars == <<servicio, seqServicio, reserva, seqReserva, bitacora,
          pc, pet, capacidad, resp, lista, edicion>>

Procesos == Servidores \cup {Admin}

\* 0 stands for every id the handlers reject with `<= 0': atoi of an absent token.
IdUsuario  == Usuarios \cup {0}
IdReserva  == 0 .. MaxReserva
IdServicio == 0 .. MaxServicio

Ops == {"NADA", "CREATE", "GET", "CANCEL", "UPDATE"}

Peticion == [op: Ops, usuario: IdUsuario, servicio: IdServicio, reserva: IdReserva]

SinPeticion == [op |-> "NADA", usuario |-> 0, servicio |-> 0, reserva |-> 0]

Respuestas == {"NADA", "OK", "CANCELADA", "LISTA", "ERROR", "YA_RESERVADO",
               "SIN_CUPOS", "NO_AUTORIZADO", "NO_ENCONTRADO", "NO_CANCELABLE"}

SinEdicion == [op |-> "NADA"]

\* What each of the administrator's menus asks for.
Edicion == {SinEdicion} \cup
           {e \in [op: {"VER"}]
                    \cup [op: {"ALTA"}, nombre: Nombres, capacidad: Capacidades]
                    \cup [op: {"BAJA"}, nombre: Nombres]
                    \cup [op: {"CAMBIO"}, nombre: Nombres, nuevo: Nombres,
                          capacidad: Capacidades] : e.op \in OpsAdmin}

TablaVacia == [i \in {} |-> i]

\* The points a process can be at.  "espera" is the recv of the server's main
\* loop, or the administrator's menu; "caido" is a process that is not running.
Lecturas   == {"propia", "ya", "capacidad", "ocupadas", "abre", "lee"}
Escrituras == {"escribe", "bitacora"}    \* about to execute a writing statement
Exclusivas == {"confirma", "anota"}      \* inside it, with the EXCLUSIVE lock
Puntos     == Lecturas \cup Escrituras \cup Exclusivas
                \cup {"espera", "caido", "contesta", "filas"}

-----------------------------------------------------------------------------
(* SQLite's locks (rollback journal, no busy handler).  A writing statement  *)
(* takes the EXCLUSIVE lock and then commits: two steps, with the others'    *)
(* steps between them.  A query takes and releases its SHARED lock in one.   *)
(* The attempt to lock that fails is one step as well.                       *)

\* Another process is committing: a query returns SQLITE_BUSY.
LecturaOcupada(p) == \E q \in Procesos \ {p} : pc[q] \in Exclusivas

\* Another process is inside some statement: a write may return SQLITE_BUSY.
EscrituraOcupada(p) ==
  \E q \in Procesos \ {p} : pc[q] \in Lecturas \cup Escrituras \cup Exclusivas \cup {"filas"}

\* Mutant: the SELECT is finalized before its rows are sent.
Bloqueada_CursorCerrado(p) == LecturaOcupada(p)

\* A write cannot get its lock while another process commits, nor while one holds a
\* cursor open between two rows: the cursor keeps SHARED until it is finalized.
Bloqueada(p) == LecturaOcupada(p) \/ \E q \in Procesos \ {p} : pc[q] = "filas"

-----------------------------------------------------------------------------
(* The queries of handler_reservas.c, and what each makes of SQLITE_BUSY.    *)

Ocupantes(v) == {i \in DOMAIN reserva : reserva[i].servicio = v}

\* A failed step leaves count = 0.
contar_reservas_servicio(s, v) ==
  IF LecturaOcupada(s) THEN 0 ELSE Cardinality(Ocupantes(v))

\* No row, or a failed step, leaves -1.
get_capacidad_max(s, v) ==
  IF LecturaOcupada(s) \/ v \notin DOMAIN servicio THEN -1 ELSE servicio[v].capacidad

\* A failed step answers "no".
ya_reservado(s, u, v) ==
  /\ ~LecturaOcupada(s)
  /\ \E i \in DOMAIN reserva : reserva[i] = [usuario |-> u, servicio |-> v]

\* Mutant: the query forgets AND id_usuario = ?.
es_propia_SoloId(s, r, u) == ~LecturaOcupada(s) /\ r \in DOMAIN reserva

\* The COUNT(*) WHERE id_reserva = ? AND id_usuario = ? that opens CANCEL and UPDATE.
\* A failed step leaves count = 0.
es_propia(s, r, u) ==
  ~LecturaOcupada(s) /\ r \in DOMAIN reserva /\ reserva[r].usuario = u

\* The rows of the JOIN in handler_get_reserva.
FilasDe(u) == {i \in DOMAIN reserva : /\ reserva[i].usuario = u
                                      /\ reserva[i].servicio \in DOMAIN servicio}

-----------------------------------------------------------------------------
Init ==
  /\ seqServicio \in IdServicio
  /\ servicio \in [1 .. seqServicio -> [nombre: Nombres, capacidad: Capacidades]]
  /\ \A v, w \in DOMAIN servicio : servicio[v].nombre = servicio[w].nombre => v = w
  /\ reserva = TablaVacia
  /\ seqReserva = 0
  /\ bitacora = {}
  /\ pc = [p \in Procesos |-> IF p = Admin THEN "espera" ELSE "caido"]
  /\ pet = [s \in Servidores |-> SinPeticion]
  /\ capacidad = [s \in Servidores |-> -1]
  /\ resp = [s \in Servidores |-> "NADA"]
  /\ lista = [s \in Servidores |-> {}]
  /\ edicion = SinEdicion

\* Process p moves from one point to another.
Va(p, desde, hasta) == /\ pc[p] = desde
                       /\ pc' = [pc EXCEPT ![p] = hasta]

\* The handler sends answer r and goes on at the given point.
Contesta(s, desde, r, hasta) == /\ Va(s, desde, hasta)
                                /\ resp' = [resp EXCEPT ![s] = r]

\* The handler sends answer r and returns to the main loop: its locals are gone.
Termina(s, desde, r) == /\ Contesta(s, desde, r, "espera")
                        /\ pet' = [pet EXCEPT ![s] = SinPeticion]
                        /\ capacidad' = [capacidad EXCEPT ![s] = -1]
                        /\ lista' = [lista EXCEPT ![s] = {}]

-----------------------------------------------------------------------------
(* The main loop: a request arrives while the server waits in recv.         *)

\* The handler parses its parameters into p and goes to the given point; a request
\* it rejects without looking at the tables is answered ERR|ERROR at once.
Recibe(s, p, valido, punto) ==
  /\ p.op \in OpsCliente
  /\ \/ /\ valido
        /\ Contesta(s, "espera", "NADA", punto)
        /\ pet' = [pet EXCEPT ![s] = p]
        /\ UNCHANGED <<capacidad, lista>>
     \/ /\ ~valido
        /\ Termina(s, "espera", "ERROR")
  /\ UNCHANGED <<tablas, edicion>>

\* Mutant: CREATE_RESERVA does not validate its parameters.
RecibeCreate_SinValidar(s) ==
  \E p \in [op: {"CREATE"}, usuario: IdUsuario, servicio: IdServicio, reserva: {0}] :
    Recibe(s, p, TRUE, "ya")

\* CREATE_RESERVA: ids <= 0 are rejected.
RecibeCreate(s) ==
  \E p \in [op: {"CREATE"}, usuario: IdUsuario, servicio: IdServicio, reserva: {0}] :
    Recibe(s, p, p.usuario > 0 /\ p.servicio > 0, "ya")

\* GET_RESERVA validates nothing.
RecibeGet(s) ==
  \E p \in [op: {"GET"}, usuario: IdUsuario, servicio: {0}, reserva: {0}] :
    Recibe(s, p, TRUE, "abre")

\* CANCEL_RESERVA validates nothing: the ownership query rejects what is not a row.
RecibeCancel(s) ==
  \E p \in [op: {"CANCEL"}, usuario: IdUsuario, servicio: {0}, reserva: IdReserva] :
    Recibe(s, p, TRUE, "propia")

\* UPDATE_RESERVA: ids <= 0 are rejected.
RecibeUpdate(s) ==
  \E p \in [op: {"UPDATE"}, usuario: IdUsuario, servicio: IdServicio, reserva: IdReserva] :
    Recibe(s, p, p.usuario > 0 /\ p.reserva > 0 /\ p.servicio > 0, "propia")

-----------------------------------------------------------------------------
(* The checks of the handlers, one query each.                              *)

\* The check passed: the handler goes on at the given point with the same locals.
Sigue(s, desde, hasta) == /\ Va(s, desde, hasta)
                          /\ UNCHANGED <<pet, capacidad, resp, lista>>

\* Mutant: UPDATE skips ya_reservado.
CompruebaPropia_SinYa(s) ==
  /\ IF es_propia(s, pet[s].reserva, pet[s].usuario)
     THEN Sigue(s, "propia", IF pet[s].op = "CANCEL" THEN "escribe" ELSE "capacidad")
     ELSE Termina(s, "propia", "NO_AUTORIZADO")
  /\ UNCHANGED <<tablas, edicion>>

\* CANCEL goes straight to its DELETE; UPDATE first looks at the new service.
CompruebaPropia(s) ==
  /\ IF es_propia(s, pet[s].reserva, pet[s].usuario)
     THEN Sigue(s, "propia", IF pet[s].op = "CANCEL" THEN "escribe" ELSE "ya")
     ELSE Termina(s, "propia", "NO_AUTORIZADO")
  /\ UNCHANGED <<tablas, edicion>>

CompruebaYa(s) ==
  /\ IF ya_reservado(s, pet[s].usuario, pet[s].servicio)
     THEN Termina(s, "ya", "YA_RESERVADO")
     ELSE Sigue(s, "ya", "capacidad")
  /\ UNCHANGED <<tablas, edicion>>

LeeCapacidad(s) ==
  /\ Va(s, "capacidad", "ocupadas")
  /\ capacidad' = [capacidad EXCEPT ![s] = get_capacidad_max(s, pet[s].servicio)]
  /\ UNCHANGED <<tablas, pet, resp, lista, edicion>>

\* Mutant: a service with all its places taken admits one more.
HayCupo_UnoMas(s) ==
  capacidad[s] >= 0 /\ contar_reservas_servicio(s, pet[s].servicio) <= capacidad[s]

\* Mutant: a failed read of the capacity is not looked at.
HayCupo_SinCapacidad(s) == contar_reservas_servicio(s, pet[s].servicio) # capacidad[s]

\* The condition both handlers put on the two values they have read.
HayCupo(s) ==
  capacidad[s] >= 0 /\ contar_reservas_servicio(s, pet[s].servicio) < capacidad[s]

\* Both reads are done before either is looked at.  UPDATE tells a missing service
\* from a full one, CREATE does not.
CompruebaCupo(s) ==
  /\ IF HayCupo(s)
     THEN /\ Va(s, "ocupadas", "escribe")
          /\ capacidad' = [capacidad EXCEPT ![s] = -1]
          /\ UNCHANGED <<pet, resp, lista>>
     ELSE Termina(s, "ocupadas", IF pet[s].op = "UPDATE" /\ capacidad[s] < 0
                                 THEN "NO_ENCONTRADO" ELSE "SIN_CUPOS")
  /\ UNCHANGED <<tablas, edicion>>

-----------------------------------------------------------------------------
(* The writing statement of each handler.                                    *)

\* The INSERT would give an id past the largest rowid: SQLITE_FULL.
Rechazada(s) == pet[s].op = "CREATE" /\ seqReserva = MaxReserva

\* The statement gets its lock.
Bloquea(s) ==
  /\ ~Rechazada(s)
  /\ ~Bloqueada(s)
  /\ Va(s, "escribe", "confirma")
  /\ UNCHANGED <<tablas, locales, edicion>>

\* The INSERT.  AUTOINCREMENT never gives an id twice; last_insert_rowid becomes the
\* local id_reserva.
InsertaReserva(s) ==
  /\ pet[s].op = "CREATE"
  /\ seqReserva < MaxReserva
  /\ Va(s, "confirma", "contesta")
  /\ seqReserva' = seqReserva + 1
  /\ reserva' = [i \in DOMAIN reserva \cup {seqReserva'} |->
                   IF i = seqReserva'
                   THEN [usuario |-> pet[s].usuario, servicio |-> pet[s].servicio]
                   ELSE reserva[i]]
  /\ pet' = [pet EXCEPT ![s].reserva = seqReserva']
  /\ UNCHANGED <<servicio, seqServicio, bitacora, capacidad, resp, lista, edicion>>

\* Mutant: without AUTOINCREMENT the next rowid follows the largest one in the table.
BorraReserva_SinAutoincrement(s) ==
  /\ pet[s].op = "CANCEL"
  /\ Va(s, "confirma", "contesta")
  /\ reserva' = Restrict(reserva, DOMAIN reserva \ {pet[s].reserva})
  /\ seqReserva' \in DOMAIN reserva' \cup {0}
  /\ \A i \in DOMAIN reserva' : i <= seqReserva'
  /\ UNCHANGED <<servicio, seqServicio, bitacora, pet, capacidad, resp, lista, edicion>>

\* The DELETE names the row by id_reserva only; deleting no row is SQLITE_DONE too.
BorraReserva(s) ==
  /\ pet[s].op = "CANCEL"
  /\ Va(s, "confirma", "contesta")
  /\ reserva' = Restrict(reserva, DOMAIN reserva \ {pet[s].reserva})
  /\ UNCHANGED <<servicio, seqServicio, seqReserva, bitacora, pet, capacidad, resp,
                 lista, edicion>>

\* The UPDATE names the row by id_reserva only; updating no row is SQLITE_DONE too.
CambiaReserva(s) ==
  /\ pet[s].op = "UPDATE"
  /\ Va(s, "confirma", "contesta")
  /\ reserva' = [i \in DOMAIN reserva |->
                   IF i = pet[s].reserva
                   THEN [reserva[i] EXCEPT !.servicio = pet[s].servicio]
                   ELSE reserva[i]]
  /\ UNCHANGED <<servicio, seqServicio, seqReserva, bitacora, pet, capacidad, resp,
                 lista, edicion>>

\* Mutant: CANCEL ignores rc and reports success.
EscrituraFalla_IgnoraRc(s) ==
  /\ Rechazada(s) \/ EscrituraOcupada(s)
  /\ Contesta(s, "escribe", IF pet[s].op = "CANCEL" THEN "CANCELADA" ELSE "ERROR",
              "bitacora")
  /\ UNCHANGED <<tablas, pet, capacidad, lista, edicion>>

\* Mutant: a busy handler without limit, which retries a locked write for ever.
EscrituraFalla_Reintenta(s) ==
  /\ Rechazada(s)
  /\ Contesta(s, "escribe", "ERROR", "bitacora")
  /\ UNCHANGED <<tablas, pet, capacidad, lista, edicion>>

\* rc is not SQLITE_DONE: the error is sent, then logged.
EscrituraFalla(s) ==
  /\ Rechazada(s) \/ EscrituraOcupada(s)
  /\ Contesta(s, "escribe", IF pet[s].op = "CANCEL" THEN "NO_CANCELABLE" ELSE "ERROR",
              "bitacora")
  /\ UNCHANGED <<tablas, pet, capacidad, lista, edicion>>

\* The success is sent after the commit and before the log.
EnviaExito(s) ==
  /\ Contesta(s, "contesta", IF pet[s].op = "CANCEL" THEN "CANCELADA" ELSE "OK", "bitacora")
  /\ UNCHANGED <<tablas, pet, capacidad, lista, edicion>>

\* registrar_log, once it has its lock.  ERROR entries are not told apart from none.
RegistraLog(s) ==
  /\ Va(s, "anota", "espera")
  /\ bitacora' = IF resp[s] \in {"OK", "CANCELADA"}
                 THEN bitacora \cup {[op |-> pet[s].op, usuario |-> pet[s].usuario,
                                     reserva |-> pet[s].reserva]}
                 ELSE bitacora
  /\ UNCHANGED <<servicio, seqServicio, reserva, seqReserva, locales, edicion>>

BloqueaLog(s) ==
  /\ ~Bloqueada(s)
  /\ Va(s, "bitacora", "anota")
  /\ UNCHANGED <<tablas, locales, edicion>>

\* The handlers ignore what registrar_log returns: the entry is lost.
PierdeLog(s) ==
  /\ EscrituraOcupada(s)
  /\ Va(s, "bitacora", "espera")
  /\ UNCHANGED <<tablas, locales, edicion>>

-----------------------------------------------------------------------------
(* handler_get_reserva: the rows are sent one by one with the SELECT open.  *)

\* LIST_START is sent; a first step that fails ends the list at once.
AbreCursor(s) ==
  /\ IF LecturaOcupada(s) THEN Termina(s, "abre", "LISTA") ELSE Sigue(s, "abre", "filas")
  /\ UNCHANGED <<tablas, edicion>>

\* sqlite3_step returns a row that has not been sent, and it is sent.
EnviaFila(s) ==
  /\ pc[s] = "filas"
  /\ \E i \in FilasDe(pet[s].usuario) \ lista[s] :
       lista' = [lista EXCEPT ![s] = @ \cup {i}]
  /\ UNCHANGED <<tablas, pc, pet, capacidad, resp, edicion>>

\* No row is left: finalize releases the lock and LIST_END is sent.
CierraCursor(s) ==
  /\ FilasDe(pet[s].usuario) \subseteq lista[s]
  /\ Termina(s, "filas", "LISTA")
  /\ UNCHANGED <<tablas, edicion>>

-----------------------------------------------------------------------------
(* The administrator: negocio.c, called from the menus of the Admin program. *)

ConNombre(n) == {v \in DOMAIN servicio : servicio[v].nombre = n}

\* UNIQUE(nombre_servicio), or no rowid left: SQLITE_CONSTRAINT or SQLITE_FULL.
AdminRechazada ==
  \/ edicion.op = "ALTA" /\ (ConNombre(edicion.nombre) # {} \/ seqServicio = MaxServicio)
  \/ /\ edicion.op = "CAMBIO"
     /\ ConNombre(edicion.nombre) # {}
     /\ ~(ConNombre(edicion.nuevo) \subseteq ConNombre(edicion.nombre))

AdminElige ==
  \E e \in Edicion \ {SinEdicion} :
    /\ Va(Admin, "espera", IF e.op = "VER" THEN "lee" ELSE "escribe")
    /\ edicion' = e
    /\ UNCHANGED <<tablas, locales>>

\* get_negocios: with no rows, or with a failed COUNT, it returns without logging.
AdminVer ==
  /\ Va(Admin, "lee", IF DOMAIN servicio = {} \/ LecturaOcupada(Admin) THEN "espera"
                                                                      ELSE "bitacora")
  /\ UNCHANGED <<tablas, locales, edicion>>

\* Mutant: without AUTOINCREMENT the id of a deleted service is given again.
AdminAlta_SinAutoincrement ==
  /\ edicion.op = "ALTA"
  /\ Va(Admin, "confirma", "bitacora")
  /\ \E id \in (1 .. MaxServicio) \ DOMAIN servicio :
       /\ \A w \in 1 .. id - 1 : w \in DOMAIN servicio
       /\ seqServicio' = IF id > seqServicio THEN id ELSE seqServicio
       /\ servicio' = [v \in DOMAIN servicio \cup {id} |->
                         IF v = id
                         THEN [nombre |-> edicion.nombre, capacidad |-> edicion.capacidad]
                         ELSE servicio[v]]
  /\ UNCHANGED <<reserva, seqReserva, bitacora, locales, edicion>>

\* insert_negocio
AdminAlta ==
  /\ edicion.op = "ALTA"
  /\ seqServicio < MaxServicio
  /\ Va(Admin, "confirma", "bitacora")
  /\ seqServicio' = seqServicio + 1
  /\ servicio' = [v \in DOMAIN servicio \cup {seqServicio'} |->
                    IF v = seqServicio'
                    THEN [nombre |-> edicion.nombre, capacidad |-> edicion.capacidad]
                    ELSE servicio[v]]
  /\ UNCHANGED <<reserva, seqReserva, bitacora, locales, edicion>>

\* delete_negocio: by name; the reservations of the service stay where they are.
AdminBaja ==
  /\ edicion.op = "BAJA"
  /\ Va(Admin, "confirma", "bitacora")
  /\ servicio' = Restrict(servicio, DOMAIN servicio \ ConNombre(edicion.nombre))
  /\ UNCHANGED <<seqServicio, reserva, seqReserva, bitacora, locales, edicion>>

\* update_negocio: by name; it may rename the service and lower its capacity.
AdminCambio ==
  /\ edicion.op = "CAMBIO"
  /\ Va(Admin, "confirma", "bitacora")
  /\ servicio' = [v \in DOMAIN servicio |->
                    IF v \in ConNombre(edicion.nombre)
                    THEN [nombre |-> edicion.nuevo, capacidad |-> edicion.capacidad]
                    ELSE servicio[v]]
  /\ UNCHANGED <<seqServicio, reserva, seqReserva, bitacora, locales, edicion>>

AdminBloquea ==
  /\ ~AdminRechazada
  /\ ~Bloqueada(Admin)
  /\ Va(Admin, "escribe", "confirma")
  /\ UNCHANGED <<tablas, locales, edicion>>

\* The statement fails; the failure is logged.
AdminFalla ==
  /\ AdminRechazada \/ EscrituraOcupada(Admin)
  /\ Va(Admin, "escribe", "bitacora")
  /\ UNCHANGED <<tablas, locales, edicion>>

\* registrar_log after any of them: the entries are not about reservations.
AdminBloqueaLog ==
  /\ ~Bloqueada(Admin)
  /\ Va(Admin, "bitacora", "anota")
  /\ UNCHANGED <<tablas, locales, edicion>>

AdminVuelve ==
  /\ \/ Va(Admin, "anota", "espera")
     \/ Va(Admin, "bitacora", "espera") /\ EscrituraOcupada(Admin)
  /\ edicion' = SinEdicion
  /\ UNCHANGED <<tablas, locales>>

-----------------------------------------------------------------------------
(* A server process may die at any point, and returns to its main loop when  *)
(* it is started again and a client connects.  What was not committed is     *)
(* lost with it; an open connection answers no more.                         *)

Cae(s) ==
  /\ pc[s] # "caido"
  /\ pc' = [pc EXCEPT ![s] = "caido"]
  /\ pet' = [pet EXCEPT ![s] = SinPeticion]
  /\ capacidad' = [capacidad EXCEPT ![s] = -1]
  /\ resp' = [resp EXCEPT ![s] = "NADA"]
  /\ lista' = [lista EXCEPT ![s] = {}]
  /\ UNCHANGED <<tablas, edicion>>

Arranca(s) ==
  /\ Va(s, "caido", "espera")
  /\ UNCHANGED <<tablas, locales, edicion>>

Recepcion(s) == RecibeCreate(s) \/ RecibeGet(s) \/ RecibeCancel(s) \/ RecibeUpdate(s)

Escritura(s) == InsertaReserva(s) \/ BorraReserva(s) \/ CambiaReserva(s)

\* The steps of a handler that is running.
PasoHandler(s) ==
  \/ CompruebaPropia(s) \/ CompruebaYa(s) \/ LeeCapacidad(s) \/ CompruebaCupo(s)
  \/ Bloquea(s) \/ Escritura(s) \/ EscrituraFalla(s) \/ EnviaExito(s)
  \/ BloqueaLog(s) \/ RegistraLog(s) \/ PierdeLog(s)
  \/ AbreCursor(s) \/ EnviaFila(s) \/ CierraCursor(s)

PasoServidor(s) == Recepcion(s) \/ PasoHandler(s) \/ Cae(s) \/ Arranca(s)

PasoAdmin ==
  \/ AdminElige \/ AdminVer \/ AdminBloquea \/ AdminAlta \/ AdminBaja \/ AdminCambio
  \/ AdminFalla \/ AdminBloqueaLog \/ AdminVuelve

Next == (\E s \in Servidores : PasoServidor(s)) \/ PasoAdmin

Spec == Init /\ [][Next]_vars

\* A handler that is running is a straight line of calls that all return: SQLite
\* answers BUSY instead of waiting, and the client reads the frames it is sent.
FairSpec == Spec /\ \A s \in Servidores : WF_vars(PasoHandler(s))

-----------------------------------------------------------------------------
(* Properties.                                                              *)

TipoTablas ==
  /\ seqServicio \in IdServicio
  /\ DOMAIN servicio \subseteq 1 .. seqServicio
  /\ servicio \in [DOMAIN servicio -> [nombre: Nombres, capacidad: Capacidades]]
  /\ seqReserva \in IdReserva
  /\ DOMAIN reserva \subseteq 1 .. seqReserva
  /\ reserva \in [DOMAIN reserva -> [usuario: Usuarios, servicio: IdServicio \ {0}]]
  /\ bitacora \subseteq [op: Ops, usuario: IdUsuario, reserva: IdReserva]

TipoProcesos ==
  /\ pc \in [Procesos -> Puntos]
  /\ pet \in [Servidores -> Peticion]
  /\ capacidad \in [Servidores -> Capacidades \cup {-1}]
  /\ resp \in [Servidores -> Respuestas]
  /\ lista \in [Servidores -> SUBSET IdReserva]
  /\ edicion \in Edicion

\* Every variable has its type: a stored reservation is of a registered user and names
\* a service by a positive id, and stored ids were given by AUTOINCREMENT.  CREATE and
\* UPDATE write only parameters they have validated.
TypeOK ==
  /\ TipoTablas
  /\ TipoProcesos
  /\ \A s \in Servidores : pet[s].op \in {"CREATE", "UPDATE"} =>
       pet[s].usuario # 0 /\ pet[s].servicio # 0

\* What a server has told its client stays true however the other processes
\* interleave: a reservation it confirmed belongs to the requester as long as it
\* exists, and one it reported cancelled never exists again.
RespuestaCierta ==
  \A s \in Servidores :
    /\ resp[s] = "OK" /\ pet[s].reserva \in DOMAIN reserva
         => reserva[pet[s].reserva].usuario = pet[s].usuario
    /\ resp[s] = "CANCELADA" => pet[s].reserva \notin DOMAIN reserva

\* Every INFO row of the log stays true of the tables: a logged cancellation is of
\* a reservation that is gone for good, and any other entry names the owner.
BitacoraCierta ==
  \A e \in bitacora :
    /\ e.op = "CANCEL" => e.reserva \notin DOMAIN reserva
    /\ e.reserva \in DOMAIN reserva => reserva[e.reserva].usuario = e.usuario

\* A stored reservation changes or disappears only by a request of its owner, and
\* never changes owner.  The DELETE and the UPDATE name the row by id_reserva
\* alone, so this rests on the ownership query run statements earlier.
SoloElDueno ==
  [][\A i \in DOMAIN reserva :
       i \notin DOMAIN reserva' \/ reserva'[i] # reserva[i] =>
         /\ \E s \in Servidores : /\ pc[s] = "confirma" /\ pc'[s] = "contesta"
                                  /\ pet[s].op \in {"CANCEL", "UPDATE"}
                                  /\ pet[s].reserva = i
                                  /\ pet[s].usuario = reserva[i].usuario
         /\ i \in DOMAIN reserva' => reserva'[i].usuario = reserva[i].usuario]_vars

\* The inductive invariant behind the three properties above.  Suya: the id a handler
\* holds was given once, and its row, if it is still there, is the requester's.
Suya(s) ==
  /\ pet[s].reserva \in 1 .. seqReserva
  /\ pet[s].reserva \in DOMAIN reserva => reserva[pet[s].reserva].usuario = pet[s].usuario

\* The points at which a handler relies on it.
Comprobada(s) ==
  \/ pet[s].op = "CREATE" /\ (pc[s] = "contesta" \/ resp[s] = "OK")
  \/ /\ pet[s].op = "CANCEL"
     /\ pc[s] \in {"escribe", "confirma", "contesta"} \/ resp[s] = "CANCELADA"
  \/ /\ pet[s].op = "UPDATE"
     /\ \/ pc[s] \in {"ya", "capacidad", "ocupadas", "escribe", "confirma", "contesta"}
        \/ resp[s] = "OK"

PropiedadDe(s) ==
  /\ Comprobada(s) => Suya(s)
  /\ pc[s] = "propia" => pet[s].op \in {"CANCEL", "UPDATE"}
  /\ pc[s] \in {"ya", "capacidad", "ocupadas"} => pet[s].op \in {"CREATE", "UPDATE"}
  /\ pc[s] \in {"escribe", "confirma", "contesta"}
       => pet[s].op \in {"CREATE", "CANCEL", "UPDATE"}
  /\ resp[s] = "OK" => pet[s].op \in {"CREATE", "UPDATE"}
  /\ resp[s] = "CANCELADA" => pet[s].op = "CANCEL"
  /\ pet[s].op = "CANCEL" /\ (pc[s] = "contesta" \/ resp[s] = "CANCELADA")
       => pet[s].reserva \notin DOMAIN reserva

PropiedadInv ==
  /\ \A s \in Servidores : PropiedadDe(s)
  /\ \A e \in bitacora : e.reserva \in 1 .. seqReserva
  /\ BitacoraCierta

\* A service that is added starts with no reservations: neither those of a deleted
\* service nor one a handler was inserting meanwhile are inherited by it.
SinHerencia ==
  [][\A v \in DOMAIN servicio' \ DOMAIN servicio :
       \A i \in DOMAIN reserva' : reserva'[i].servicio # v]_vars

\* The inductive invariant behind it: no row, and no handler about to write one, names a
\* service whose id has not been given yet.
ServicioInv ==
  /\ \A i \in DOMAIN reserva : reserva[i].servicio <= seqServicio
  /\ \A s \in Servidores :
       /\ pet[s].op \in {"CREATE", "UPDATE"}
       /\ \/ pc[s] \in {"escribe", "confirma"}
          \/ pc[s] = "ocupadas" /\ capacidad[s] >= 0
       => pet[s].servicio <= seqServicio

\* A service never holds more reservations than its capacidad_max.
SinSobrecupo ==
  \A v \in DOMAIN servicio : Cardinality(Ocupantes(v)) <= servicio[v].capacidad

\* A user never holds two reservations of one service.
SinDuplicada == \A i, j \in DOMAIN reserva : reserva[i] = reserva[j] => i = j

\* A reservation that enters a service finds a free place in it.
EntraConCupo ==
  [][\A v \in DOMAIN servicio' :
       Cardinality(Ocupantes(v)') > Cardinality(Ocupantes(v))
         => Cardinality(Ocupantes(v)') <= servicio'[v].capacidad]_vars

CierraLista(s) == pc[s] = "filas" /\ pc'[s] = "espera"

\* The list a GET_RESERVA sends is one state of the tables: when it ends, the rows
\* sent are exactly the rows the query has then, although they were sent one by one.
ListaCoherente ==
  [][\A s \in Servidores : CierraLista(s) => lista[s] = FilasDe(pet[s].usuario)]_vars

\* The inductive invariant behind it: who commits does it alone, with no cursor open,
\* and what a cursor has sent is still in the tables.
CerrojoInv ==
  /\ \A p, q \in Procesos :
       p # q /\ pc[p] \in Exclusivas => pc[q] \notin Exclusivas \cup {"filas"}
  /\ \A s \in Servidores : IF pc[s] = "filas" THEN lista[s] \subseteq FilasDe(pet[s].usuario)
                                              ELSE lista[s] = {}

\* The list holds every reservation of the user.
ListaCompleta ==
  [][\A s \in Servidores : CierraLista(s) =>
       \A i \in DOMAIN reserva : reserva[i].usuario = pet[s].usuario => i \in lista[s]]_vars

Promesa == INSTANCE Cupos WITH servicio <- servicio, reserva <- reserva,
                               seqReserva <- seqReserva,
                               Usuarios <- Usuarios, IdServicio <- IdServicio

\* The commands are atomic: every change of the tables is one of the operations of
\* Cupos, whose conditions hold at the instant of the change.
PromesaCumplida == Promesa!Spec

\* They are with one server process, and an administrator who changes nothing.
UnServidorSolo == OpsAdmin = {} /\ \A s, t \in Servidores : s = t

\* The inductive invariant behind it: nobody else moves, so what a handler has read
\* still holds at the statement that writes.
Vigente(s) ==
  /\ pet[s].op \in {"CANCEL", "UPDATE"}
     /\ pc[s] \in {"ya", "capacidad", "ocupadas", "escribe", "confirma"}
       => es_propia(s, pet[s].reserva, pet[s].usuario)
  /\ pc[s] \in {"capacidad", "ocupadas"} => ~ya_reservado(s, pet[s].usuario, pet[s].servicio)
  /\ pc[s] = "ocupadas" => capacidad[s] = get_capacidad_max(s, pet[s].servicio)
  /\ pet[s].op \in {"CREATE", "UPDATE"} /\ pc[s] \in {"escribe", "confirma"}
       => Promesa!Admite(pet[s].servicio, pet[s].usuario)

LecturasVigentes == pc[Admin] = "espera" /\ \A s \in Servidores : Vigente(s)

\* A request is always answered unless its server dies: no handler waits for a lock.
PeticionTermina ==
  \A s \in Servidores : (pc[s] \notin {"espera", "caido"}) ~> (pc[s] \in {"espera", "caido"})
=============================================================================
