# CityHub: TLA+ models, model checking and proofs

CityHub is a booking service for a town: people reserve places in services
(restaurants, activities, municipal services), an administrator maintains them. Three
programs share one SQLite file `bd.db`. Paths below are relative to the repository and
use `S/`, `C/` and `A/` for `Grupo-05_Prog-IV_Deusto_Server/src/`, `..._Client/src/` and
`..._Admin/src/`.

## 1. The system

| Component | Code | State | Operations | What makes it correct |
|---|---|---|---|---|
| Reservation handlers | `S/handler_reservas.c` | table `reserva`; locals of the running handler | CREATE, GET, CANCEL, UPDATE | places never exceed `capacidad_max`; one reservation per user and service; only the owner changes a row; what was answered is true |
| Services | `A/negocio.c` (and its unused copy in `S/`) | table `servicio` | insert, update, delete, list | a deletion or a change leaves reservations consistent; a list is complete |
| Log | `S/log.c`, `A/log.c` | table `log`, a text file | `registrar_log` | an entry is true of the tables |
| Server loop | `S/main_servidor.c`, `S/server_socket.c` | the connection, one request | receive a command, receive its parameters, run the handler, answer | each answer belongs to its request |
| Authentication | `S/handler_auth.c`, `S/usuario.c` | table `usuario` | LOGIN, REGISTER, LOGOUT | the id a registration answers is the user's; DNI is unique |
| Service queries | `S/handler_servicios.c` | none | list, one, filter | the filter is the meaning of its parameters |
| Client connection | `C/SocketClient.cpp`, `C/Protocol.h` | a socket | `conectar`, `enviar`, `recibir`, `desconectar` | frames arrive whole and in order |
| Client menus and cache | `C/menu_*.cpp`, `C/Cache.cpp`, `C/Sesion.cpp` | cache, session | dialogues that send two frames and wait for an answer | the client is never one answer behind; the cache is what the server sent |
| Administrator | `A/main.c`, `A/menu_*.c`, `A/usuario.c`, `A/config.c` | session, configuration | menus over the functions above | what is stored is what was typed |
| Pure functions | `convertirDiasInt`, `convertirIntDias`, `splitSEP`, `hash.c` | none | conversions | round trips |

A **server process** accepts one client, closes its listening socket and runs one loop:
receive a command frame, receive a frame of parameters, run a handler, answer. It has no
threads. Concurrency is between *processes*: once a server has accepted its client another
one can be started on the same port and the same file (`server.log` shows two servers
writing in the same second), and the administrator program opens the same file. Nothing
in the code issues BEGIN or COMMIT and no busy handler is installed, so **every SQL
statement is its own transaction** and a statement that meets another process's lock
returns `SQLITE_BUSY`. A handler is therefore a sequence of separate transactions, and
every helper turns a failed query into its own default: `contar_reservas_servicio` into 0,
`get_capacidad_max` into -1, `ya_reservado` into "no", the ownership query into "not yours".

Hard behaviours: check-then-act across processes, failed statements read as data, a list
sent row by row with its cursor open, ids that outlive the row they were read from,
services deleted under running reservations, a client that leaves a dialogue half way.
`PROJECT.json` lists each of them at its line (`hazards`).

## 2. The modules

| Module | Models | Abstract specification | Instance for TLC | Theorems |
|---|---|---|---|---|
| `Reservas` | the four reservation handlers, statement by statement, in any number of server processes, and the administrator's `negocio.c`, over the tables | `Cupos`: reserve, cancel and move as atomic operations | `MCReservas` | `ReservasProofs`, `UnServidorProofs` |
| `Protocolo` | one client with its menus, cache and session, the connection, the loop of its server and every handler as one step | `Peticiones`: what a client may rely on | `MCProtocolo` | `ProtocoloProofs`, `SincroniaProofs`, `PromesaProofs` |
| `Tramas` | the bytes: `enviar`, `recibir`, and the single `recv` of the server | `Canal`: whole messages in order | `MCTramas` | `TramasProofs` |
| `Servicios` | a service from the administrator's form to the client's screen: the mask of days, the row, the query, the line, its parsing, the object | | `MCServicios` | `ServiciosProofs` |
| `Cuentas` | LOGIN and REGISTER statement by statement, the same in the administration program, and its configuration file | | `MCCuentas` | `CuentasProofs` |

They share the code at its seams and each abstracts what another one models. `Protocolo`
takes a frame as whole, which is what `Tramas` shows of the client's side, and a handler as one
step. Every handler but LOGOUT's may refuse at any time, as it does when a query cannot be prepared or
finds another program's lock, and a list may be empty for the same reason; the interleavings inside a
handler are in `Reservas` and `Cuentas`, and so is what other programs write meanwhile. `Reservas` takes requests with any ids, because `Protocolo` shows that an
out-of-step client sends such. `Servicios` has one server and the administrator; what both do to
reservations is in `Reservas`.

### How `Reservas` corresponds to the code

The tables are functions from their ids: `servicio` gives name and capacity, `reserva`
gives user and service, `seqServicio` and `seqReserva` are the counters of AUTOINCREMENT,
`bitacora` the INFO entries of `log` about reservations. `pc[p]` is the statement process
`p` is about to execute; `pet[s]`, `capacidad[s]` and `lista[s]` are the locals of the
handler that server `s` runs (they are reset when it returns); `resp[s]` is the answer to
the latest request, kept because the client acts upon it until it sends another.

| `pc` | in the code | action |
|---|---|---|
| `espera` | `recv` of the loop, or the administrator's menu | `RecibeCreate/Get/Cancel/Update`, `AdminElige` |
| `propia` | `COUNT(*) WHERE id_reserva = ? AND id_usuario = ?` of CANCEL and UPDATE | `CompruebaPropia` |
| `ya` | `ya_reservado` | `CompruebaYa` |
| `capacidad`, `ocupadas` | `get_capacidad_max`, `contar_reservas_servicio` and the test of both | `LeeCapacidad`, `CompruebaCupo` |
| `escribe` | the INSERT, DELETE or UPDATE, before it has its lock | `Bloquea`, or `EscrituraFalla` |
| `confirma` | inside that statement, with the EXCLUSIVE lock | `InsertaReserva`, `BorraReserva`, `CambiaReserva`, `AdminAlta`, `AdminBaja`, `AdminCambio` |
| `contesta` | committed, before `send` | `EnviaExito` |
| `bitacora`, `anota` | `registrar_log`, before and inside its INSERT | `BloqueaLog`, `RegistraLog`, `PierdeLog` |
| `abre`, `filas` | first `sqlite3_step` of GET; between two rows | `AbreCursor`, `EnviaFila`, `CierraCursor` |
| `lee` | `get_negocios` | `AdminVer` |
| `caido` | the process does not run | `Arranca`; `Cae` leads there from anywhere |

**Locks.** A query that finds another process at `confirma` or `anota` (the EXCLUSIVE lock)
fails: `LecturaOcupada`. A write may fail whenever another process is at a statement
(`EscrituraOcupada`), and cannot get its lock while another commits or holds a cursor
open between two rows (`Bloqueada`). Three assumptions: an attempt to lock
that fails is one step (its short PENDING lock disturbs nobody); `sqlite3_prepare_v2`
does not fail once the schema has been read; SQLite itself is correct, its recovery after a crash
included. With nobody else using the file no statement fails, except that an INSERT at the largest
rowid does (`Rechazada`, SQLITE_FULL): `MaxReserva` and `MaxServicio` are that rowid, so
the bound of the model is a branch of the code. Failures of disk and memory are left out.

**Abstracted.** `fecha_reserva` and the descriptive columns of `servicio`, the wording of
answers, ERROR log entries, the text logs. A parameter that is absent or not a number is the id 0,
which is what `atoi` makes of it. Requests carry any id in range, those of other
users and of rows that do not exist included: a cached id may be stale. LOGIN and the
service queries do not touch `reserva` and are in `Cuentas` and `Servicios`.

**What the administrator types** (`Edicion`) is drawn from the configured names and
capacities; the menu's minimum of 1 is met by the values in the `.cfg` files, and the theorems hold for 0 too.

### `Protocolo`

`pcC` is where the client's dialogue is, `curso` the request it is making (with `motivo`, what it asks the list for,
because showing services, cancelling and moving all begin with GET_RESERVA), `cache` and `sesion` the
objects of those names, `dicho` what the user was last told. `aServidor` and `aCliente` are
the frames on the way, `enlace` says whether the connection stands, `conectado` whether the
client still believes it. `pcS`, `recibida` and `salida` are the loop of the server.

| `pcC` | in the code | action |
|---|---|---|
| `bienvenida`, `principal`, `elige` | a menu waits for an option | `OpcionBienvenida`, `OpcionPrincipal`, `OpcionReserva` |
| `envia`, `parametros` | `enviar` of the command, of the parameters | `EnviaComando`, `EnviaParametros` |
| `fecha` | UPDATE_RESERVA is sent and the date is being typed | `DaFecha`, `DejaLaFecha` (the early return of `menu_reservas.cpp:373`) |
| `recibe`, `lista` | `recibir`; `recibirLista` after LIST_START | `Recibe`: `RecibeAcceso`, `RecibeLogout`, `RecibeCambio`, `RecibeLista` |
| `fin`, `muerto` | ended; ended by an exception of `std::stoi` | `Reinicia` |

| `pcS` | in the code | action |
|---|---|---|
| `comando`, `parametros` | first and second `recv` | `RecibeComando`, `Desconecta`; `RecibeParametros` |
| `atiende` | the handler | one action per command, which may also refuse (`Rechaza`; LOGOUT's has no error answer) |
| `contesta` | the frames of the answer | `EnviaLinea` |
| `caido` | the process ended | `Reinicia` |

The faults are `SeCorta` (any suffix of what is on the way is lost, in both directions),
`Cae` (the server ends anywhere, between a commit and its answer too) and `Termina` (the
window is closed anywhere). The code never connects again, so `Reinicia` starts both
programs over the same tables. It is assumed that both ends learn of a cut, which is
what ends a `recv`, and that names in `bd.db` do not start with a digit, so that a name where a number is
expected makes `stoi` throw. The two list handlers end their loop at the first `sqlite3_step` that is not a
row: `SQLITE_BUSY` makes the list empty, with `LIST_START` and `LIST_END` as of a table without rows (`Leidas`).
A list that has begun is not cut short by a lock, for its cursor holds one (`ListaCoherente`). `titular`, `pedida`, `hecha` and `abandonos` are history:
the DNI the session was opened with, the latest request, its outcome at the server, and
how many commands were left without parameters.

### `Tramas`

A byte is a character of a numbered message or the zero character, so that the module can
say which message a string came from. `enviar` builds a frame (`Trama`), `EnviaTrozo` is
one `send` of its loop and `RecibeTrozo` one `recv` of `recibir`; `RecibeServidor`
is the server's `recv`, which takes any part of what has come for a message. The server
sends a frame with one `send` whose result nobody looks at. `Corta` loses any suffix of the bytes on the way.

### `Servicios`

A text is the sequence of its parts between `|` characters, so that joining fields and
`splitSEP` are concatenation; `servicio` is the table, `edicion` the form being written,
`trama` the lines sent, `negocios` the client's cache. `pcA` goes through the same
statements and locks as in `Reservas`; `pcS` is `abre` (first `sqlite3_step`), `filas` (between two
rows, with the cursor's lock) or `enviada`. `foto`, the forms behind the table at the first step,
is history. The name, the municipality, the hours, the type and the description are all texts of the form, and
each may hold a `|`, which the administrator's menus accept and nothing escapes; `Cifras` are the texts that
start with a digit, such as an hour, of which `stoi` reads a number where the capacity should be. GET_SERVICIO and
FILTER_SERVICIOS are in the protocol and have builders in `Protocol.h`, though no menu sends them.

### `Cuentas`

A text that a client sends is again the sequence of its parts between `|`, so that `buildLogin` and
`buildRegister` are concatenation. `strtok` skips the parts without characters: its k-th call finds
the k-th part that is not blank (`Ficha`), and what is left after the last call is ignored. `RecibeRegister` and
`RecibeLogin` take the fields from there, and refuse when one is missing; LOGIN then answers CREDENCIALES
and REGISTER a general error, also when the connection was lost after the command
(`RecibeIncompleta`). A person is therefore stored with the DNI the split finds, which `pet` keeps beside what was typed (`escrito`). The
administration program splits nothing: its menus call `insert_usuario` with what is typed. It is
assumed that what is typed fits the buffers of the fields and the frame.

`usuario` maps a DNI to an id and a password (which stands for its hash), `archivo` is
`admin.config`, `cfg` the `Config` in memory. `pc` goes through the statements
(`consulta` and `id` are the two queries of LOGIN, `inserta` and `confirma` the INSERT
before and with its lock, `bitacora` and `anota` the log entry, `principal` and `guarda` the
administrator's menu and `config_guardar`), `rc` is what the statement returned and
`ultimo` the last row its connection inserted. A program may end at each of those points
(`Cae`), and what was not committed is lost; between `fopen` and `fclose` the
configuration file is empty, since it is shorter than the buffer.

## 3. What is checked

| Run | Instance | Result |
|---|---|---|
| `sesiones` | 2 servers, 2 users, 2 services with one place, one reservation ever created; CREATE, CANCEL, UPDATE | `TypeOK`, `RespuestaCierta`, `BitacoraCierta`, `SoloElDueno` hold |
| `admin` | 1 server with all commands against all administrator operations; fairness | `SinHerencia`, `ListaCoherente`, `PeticionTermina` hold |
| `un_servidor` | 1 server, nobody else; 2 users, 2 services with 1 or 2 places, 2 reservations | `SinSobrecupo`, `SinDuplicada` hold and `Reservas` implements `Cupos` (`PromesaCumplida`) |
| `sobrecupo` | 2 servers, 2 users, one place | `SinSobrecupo` is **violated** |
| `busy` | 1 server and an administrator who adds services | `EntraConCupo` is **violated** |
| `huerfana` | 1 server and an administrator who deletes a service | `ListaCompleta` is **violated** |
| `protocolo` | 2 DNIs, one registered with the id 0 and one who registers, 2 services, one reservation ever created, one command left without parameters; fairness; 125,609 states, depth 130 | `TypeOK`, `Sincronizado`, `SesionCorrecta`, `CacheVigente`, `MuereSoloPorCorte`, `PlazasPropias`, `SalidaConRespuesta`, `DialogoTermina`, `ServidorTermina` hold, and `Protocolo` implements `Peticiones` (`PromesaCumplida`) |
| `desfase` | 2 registered users and a request that may start with a frame on the way | `RespuestaCompleta` is **violated** |
| `servicios` | 2 services, 4 forms (both casings of a type, a type that is none, repeated and unknown days, capacity 0, a `|` in a municipality and in a description, which does not fit), 2 masks; 1,364,582 states, depth 35 | `TypeOK`, `ListaInstantanea`, `FiltroExacto`, `FichaFiel`, `CadaNegocioEnUnMenu`, `MuereSoloPorSeparador` hold |
| `tramas` | frames of 3 bytes, 2 messages each way, of 1 character and of one too many; fairness; 144,515 states | `TypeOK`, `SinMezcla`, `ServidorEnFase`, `RecibirTermina` hold and `recibir` implements `Canal` (`ClienteEnFase`) |
| `cuentas` | 1 server and the administration program, 2 DNIs, 2 passwords, names with a `|` and of a `|` alone, DNIs with a `|` at LOGIN, 2 edits of the configuration, one with blank fields; 409,478 states, depth 37 | `TypeOK`, `CuentaSegura`, `RespuestaVeraz`, `ConfiguracionEntera` hold |
| `separador` | as `cuentas` | `CuentaTecleada` is **violated** |

What this says of the code:

* Ownership is sound. CANCEL and UPDATE write `WHERE id_reserva = ?` only, several
  statements after the ownership query, and other processes run in between; yet no
  row is ever changed for somebody else, because ids are never given twice and rows never
  change owner. Take AUTOINCREMENT away (the mutant of `RespuestaCierta`) and it breaks.
* A list is one snapshot although it is sent row by row: the open cursor keeps writers out.
  That is so of reservations (`ListaCoherente`) and of services (`ListaInstantanea`). A list that meets a
  commit is empty: `SQLITE_BUSY` ends the loop as the end of the table does.
* No handler waits for a lock, so every request ends; the price is that writes fail.
* Capacity and "one reservation per service" hold with one server and nobody else. They
  do **not** hold with two server processes (`sobrecupo`): count and INSERT are
  separate transactions, and so are `ya_reservado` and the INSERT.
* One server is not enough either if the administrator is at work (`busy`): a count that
  meets a commit fails and reads as 0 places taken, though the test next to it
  (`ocupadas < 0`) shows that a failure was meant to be -1. Any commit by another process will do, of a
  log entry for instance.
* Deleting a service leaves its reservations in the table, invisible to their owner, whose
  list joins `servicio` (`huerfana`); but they are never inherited by a later service
  (`SinHerencia`).
* As long as every dialogue sends both its frames, client and server stay in step through every refusal, and a
  cut at any point leaves neither waiting for ever (`Sincronizado`, `DialogoTermina`,
  `ServidorTermina`). A blank date in the modification of a reservation is the one way
  out of step: from then on every answer belongs to the request before (`desfase`). No
  dialogue blocks even then.
* The client never tells the user of a reservation, a cancellation or a move that did not happen, and what the server
  did without the client learning of it is only what the connection lost (`PromesaCumplida` of `Protocolo`).
* A lost connection is an empty line, and inside a list of reservations it makes
  `stoi` throw, which ends the client (`Protocol.h:463` stops the loop but keeps the line);
  nothing else does while the client is in step (`MuereSoloPorCorte`). In `Servicios` a `|` typed in
  any text before the capacity (name, municipality, an hour, the type) may do it too, and no description
  can (`MuereSoloPorSeparador`). Where what moves into the place of the capacity starts with a digit, as an hour does,
  the client goes on with wrong fields instead.
* After the connection is lost no session can be closed, and so the main menu is
  not left (`SalidaConRespuesta` says it is left only with an answer).
* The places shown as taken are all of the user's own reservations and nobody else's, or none at all, when the
  GET_RESERVA just before was refused or met a lock: the list of services is then shown with 0 places taken
  although he holds some, and says nothing of it (`PlazasPropias`). They are never those of other people, and so not the
  number of places taken that the comment of `menu_negocios.cpp:79-81` promises to whoever has reservations in the cache.
* A split message reaches the client whole (`ClienteEnFase`). The server reads messages
  one by one only if each `recv` returns a frame (`ServidorEnFase`), which
  `SocketClient.cpp:83-84` counts on and TCP does not promise; if it does not, what is read is
  still part of one message and never a mixture (`SinMezcla`).
* REGISTER answers the id of the log entry and not that of the account, for `last_insert_rowid` is asked after
  `registrar_log` has used the same connection (`ConId` and `ultimo` of `Cuentas`, `IdAnotado` of `Protocolo`), and
  `menu_registro.cpp:107` tells it to the user. Nothing uses it: the session is that of the LOGIN, with the id
  of the table (`SesionCorrecta`).
* With `strtok` a blank type in FILTER_SERVICIOS makes the mask the type, and the
  list is empty (`FiltroExacto`). The server compares the type exactly, the client without regard to case.
* A registration that was confirmed stays valid whoever registers at the same time, and only an
  existing DNI is called a duplicate (`CuentaSegura`, `RespuestaVeraz`), if no `|` was typed. One in a
  name, a surname or a DNI moves the fields: with `ana|ana` the surname becomes the DNI and the DNI the
  password, the answer is OK, and who was told "Ya puedes iniciar sesion" cannot enter (`separador`). A LOGIN whose query meets
  `SQLITE_BUSY` is however answered CREDENCIALES_INVALIDAS.
* An interrupted save of the configuration leaves an empty file and so the defaults, never half of an edit; a
  blank number reverts an earlier edit of the same run (`ConfiguracionEntera`). A blank
  DNI or password is not kept but replaced by the hash of an uninitialised buffer.

**Bounds.** Two servers are enough for every two-process race, and a race of this code
needs one interfering statement between two of a handler's. One reservation id (`sesiones`) still has it created, moved,
cancelled and asked for afterwards, and ends at SQLITE_FULL; two ids (`un_servidor`) have lists of several
rows, cancellations between insertions, and a place that is
freed and taken again. `admin` has one server, and so `ListaCoherente` is checked there against
the administrator and proved for any number of servers. Two services are needed to move. `protocolo` is
bounded by `MaxPendientes`, the frames on the way with which a client still starts a request: 0
is no restriction in step (`Sincronizado` shows it), and out of step the backlog could grow
without end; `desfase` has it at 1. One reservation is enough for a stale cache
and for answers of the wrong kind; the first user's id is 0, as in `bd.db`, so that his
requests are refused, and the one who registers makes, moves and cancels it. In `tramas` three bytes are the least at which a frame can be cut
into pieces with and without its zero, and two messages the least that could mix. `servicios` needs
two services for a row to follow another one. `cuentas` has two processes, the least that
can race for a DNI or a lock; the administrator types two pairs of DNI and password, one of them that
of the configuration. The theorems below remove the bounds of every
module for all the safety properties that hold; only liveness rests on the instances alone.
Symmetry is used on servers or on names, for safety only.

**Fairness.** `FairSpec` of `Reservas` assumes only that a handler that is running goes on
(`WF_vars(PasoHandler(s))`): it is a straight line of calls that return, and the client
reads what it is sent. `FairSpec` of `Protocolo` assumes the same of both programs between two
choices of the user (`WF_vars(PasoCliente)`, `WF_vars(PasoServidor)`): a program that can send, receive or
compute does. `FairSpec` of `Tramas` assumes that the loops of `enviar` and
`recibir` go on. Nothing is assumed of users, of the
administrator, of the connection, or of programs that are down: they may wait for ever.

**Deadlock** is checked in every run but `tramas`, where both ends may have sent all the
messages of the bound, or may have stopped: anywhere else a system in which nobody can move would be an error.

## 4. What is proved

For every value of the constants, under the assumptions the modules name and TLC evaluates:

* `Reservas` (four): ids are positive naturals, the administrator is not a server, the sets of
  commands are sets of commands.
* `Cuentas` (two): the administrator is not a server; the accounts the table starts with are finitely
  many, with different ids below their number, what is typed is drawn from the sets it is said to be of, and no text of a
  registration is blank, which `menu_registro.cpp` sees to.
* `Protocolo` (`Parametros`): users and services are finitely many, ids of services and of log entries are positive.
* `Tramas` (two): a frame has room for a character and the zero; no message is empty, which none of
  the client's is.
* `Servicios` (two): the name, the municipality, the hours, the type and the description of a form are texts, a blank one being one
  part without characters, and its days and capacity are numbers.

| Theorem | States |
|---|---|
| `TipoCorrecto` | `Spec => []TypeOK` |
| `PropiedadCorrecta` | `Spec => []PropiedadInv` |
| `RespuestaEsCierta` | `Spec => []RespuestaCierta` |
| `BitacoraEsCierta` | `Spec => []BitacoraCierta` |
| `SoloElDuenoModifica` | `Spec => SoloElDueno` |
| `NadieHereda` | `Spec => SinHerencia` |
| `CerrojoExclusivo` | `Spec => []CerrojoInv` |
| `ListaEsCoherente` | `Spec => ListaCoherente` |
| `ListaEsCompleta` | `SinBajas` implies `Spec => ListaCompleta` |
| `UnServidorCumple` | `UnServidorSolo` implies `Spec => PromesaCumplida` (`Reservas` implements `Cupos`) |
| `UnServidorSinSobrecupo` | `UnServidorSolo` implies `Spec => []SinSobrecupo` |
| `UnServidorSinDuplicada` | `UnServidorSolo` implies `Spec => []SinDuplicada` |
| `UnServidorEntraConCupo` | `UnServidorSolo` implies `Spec => EntraConCupo` |
| `CuentasCorrectas` | `Spec => []CuentasInv` (of `Cuentas`, like the following) |
| `TipoCuentas` | `Spec => []TypeOK` |
| `CuentaEsSegura` | `Spec => []CuentaSegura` |
| `RespuestaEsVeraz` | `Spec => RespuestaVeraz` |
| `ConfiguracionEsEntera` | `Spec => ConfiguracionEntera` |
| `TiposCorrectos` | `Spec => []TypeOK` (of `Protocolo`, like the following) |
| `EnSincronia` | `Spec => []Sincronizado` |
| `RespuestaCompletaEnPaso` | `Spec => [](abandonos = 0 => RespuestaCompleta)` |
| `SesionDelTitular` | `Spec => []SesionCorrecta` |
| `CacheAlDia` | `Spec => []CacheVigente` |
| `MuerteSoloPorCorte` | `Spec => MuereSoloPorCorte` |
| `SalidaRespondida` | `Spec => SalidaConRespuesta` |
| `PlazasDelUsuario` | `Spec => PlazasPropias` |
| `CumpleLaPromesa` | `Spec => PromesaCumplida` (`Protocolo` implements `Peticiones`) |
| `TramasTipos` | `Spec => []TypeOK` (of `Tramas`, like the following) |
| `RecibirEnOrden` | `Spec => ClienteEnFase` (`recibir` implements `Canal`) |
| `RecvPorTramas` | `Spec => []ServidorEnFase` |
| `NadaSeMezcla` | `Spec => []SinMezcla` |
| `MascaraExacta` | the mask of any sequence of numbers has seven bits, and bit d is set exactly when d is in it (of `Servicios`, like the following) |
| `ServiciosTipos` | `Spec => []TypeOK` |
| `MuerePorSeparador` | `Spec => []MuereSoloPorSeparador` |
| `ListaDeUnInstante` | `Spec => []ListaInstantanea` |
| `FiltroDelDia` | `SinMascara` implies `Spec => []FiltroExacto` |
| `FichaExacta` | `Spec => []FichaFiel` |
| `UnMenuPorNegocio` | `Spec => []CadaNegocioEnUnMenu` |

*Ownership.* `RespuestaCierta` is not inductive: it says nothing of a handler that has checked
and not yet written. `PropiedadInv` adds it. At every point after its check (`Comprobada`) a
handler holds an id AUTOINCREMENT has given, whose row, if it is still there, is its
requester's (`Suya`); once it has deleted, the row is gone; every logged id has been
given. The proof splits a step in two. `Evoluciona` is what any step does to the table:
ids grow, a surviving row keeps its user, a new row has the next id (`PasoEvoluciona`). From
that a handler that does not move keeps what it knows (`OtroConserva`); the one that moves
is followed action by action (`PropioConserva`). The three properties then follow from
the invariant in a line, and `SoloElDueno` from the invariant and `Evoluciona`.

*Services.* `ServicioInv` says that neither a stored row nor a handler about to write one
names a service whose id has not been given: a handler writes only a service whose
capacity it has read (`EscribiraConoce`), and ids of services only grow (`ServiciosCrecen`).

*Lists.* `CerrojoInv` says that who commits does it alone with no cursor open, and that what
an open cursor has sent is still in the tables. Whoever comes to commit found the way
free (`CerrojoPaso`), and only who commits changes the tables (`TablasConCerrojo`), so
nothing changes under a cursor. Its last row sent, the list is what the query returns then.
While no service is deleted (`SinBajas`) the services are numbered without gaps, so that by
`ServicioInv` every reservation has its service and the join leaves nothing out: `ListaEsCompleta` is
what `huerfana` would be without the deletion.

*One server.* The refinement and the two invariants that `sobrecupo` and `busy`
show false in general hold under `UnServidorSolo`: at most one server process, and an
administrator who changes nothing. It cannot be weakened by much, those two runs being the
ways to break it. The invariant is `LecturasVigentes`: what the handler has read (that
the row is its requester's, that the user has no other, the capacity) is still what the
tables say, and between the last check and the commit the condition `Admite` of
`Cupos` holds. `NadieMas` shows that then no other process moves and no read fails, and
`SigueVigente` follows the handler action by action. `PasoPromesa` maps each step to an
operation of `Cupos` or a stutter; `CupoPaso` and `DuplicadaPaso` show that those
operations keep the two invariants. `EntraConCupo`, which `busy` violates, follows from the first.

*Accounts.* `CuentaSegura` says nothing of a program between its INSERT and its answer, and nothing of
one that has its lock and has not written. `Sabe` does: at the commit the DNI has no account;
after the statement, `rc = OK` means that the account and its password are in the table, and
`CONSTRAINT` that the DNI is; between LOGIN's two queries the password is still right. With
`Exclusivo` (who commits does it alone) an INSERT leaves every account as it was
(`InsertaConserva`), so that the other programs keep what they know (`OtrosConservan`); `EfectoPaso`
follows the one that moves. That the stored DNI and password are those typed is `SinBarraSeLee`: without a `|`
the line has four parts, none of them blank, and `strtok` finds each in its place. The type of `usuario` is proved together with them, for an id is new
only because the DNI is. *Configuration:* the file is empty, or as it was when the program
started, or the last edit (`ConfigInv`); `CargaEntera` is what a start makes of each.

*In step.* `Sincronizado` speaks of menus only, and a menu is reached from the end of a dialogue, so that
the invariant has to say where both programs are at every point of it: `Base /\ (abandonos = 0 => Sinc)`.
`Base` is the type of every frame and the fields it has, and what a dialogue that is under way is about. `Sinc`
says that the client waits for the answer to the latest request (`EnPaso`), where
that request is between the wire and the handlers (`Atendida`; after a cut only a beginning of it may have come),
at which points the two programs can be together while the connection stands (`Enlazados`), and that what is on
the way to the client, followed by what the server has still to send, is a beginning of the answer: an answer of
the right kind or, for a list, one ERR, or else its mark, rows of the tables and its end, with either no row in all
or every row not yet read among them (`Respondida`, `Completa`). A cut leaves a shorter beginning (`EmpiezaPrefijo`) and a frame that is read leaves the
beginning of the rest (`EmpiezaResto`), which is all that is needed of the connection. `CacheSana` adds that the
cache of a connected client is true of the tables except between a change and the list that follows it,
and `DelTitular` whose the session is. Only the dialogue that is left at its blank date
raises `abandonos` (`AbandonosPaso`), and `Reinicia` sets all of it anew. `RespuestaCompletaEnPaso` is the
other side of `desfase`: without that blank date the comment quoted there is right.

*Promise.* From the same invariant each step of `Protocolo` is a step of `Peticiones` or a stutter
(`PromesaPaso`): the parameters sent are `Pide`, the handler's step `Ejecuta`, the end of the reading `Informa`.
What the user is told is the outcome at the server because the line read first is, in step, an answer to
his request (`Primera`). `MuereSoloPorCorte` comes down to `NoMuere`: no line of an answer that has begun makes
`stoi` throw. `SalidaConRespuesta` and `PlazasPropias` follow the one action that closes a session or counts places; for the second, a cache that
is not empty when the services are shown was loaded in the same dialogue from a whole list (`CacheSana`).

*Bytes.* The invariant locates every byte: of what has come, or is on the way, after the first l
frames, byte i of frame k is at position (k - 1 - l) * FRAME_SIZE + i; while the connection stands all of them
are there, and after a cut a beginning of them. `recibir` returns after FRAME_SIZE bytes, and so with
exactly one frame (`ClienteInv`), whose text ends at its first zero (`CadenaDeTrama`); the step is `Entrega` of `Canal`. The server
reads what has come (`ServidorInv` has it aligned while no `recv` has split a frame).
`SinMezcla` needs less, and holds when frames are split: bytes with no zero between them are consecutive
bytes of one message, and everything on the way ends in a zero (`RachaInv`); what `recv` returns and
reads as a string has no zero inside.

*Services.* The invariant of `Servicios` says that a row is the last form typed for it (`Tabla`), that an open cursor
keeps the table as it was at the first step (`Cursor`), that each line sent has the fields of
the form of its row, in ascending order of ids (`Lineas`), that the lines are exactly the rows asked for up to the
cursor (`ListaInv`), and that the cache is the parsed lines (`Ficha`). The lemma
`LaLinea` finds the fields in the concatenation; with a `|` in a text before the capacity only the first one is where
the client expects it. `FiltroDelDia` assumes that no form has for its type the digits that stand for a mask, because with a
blank type FILTER_SERVICIOS takes the mask for the type. *The mask* is a fold over the words typed. The
provers have no induction for it, so the proof goes another way: the fold is the value at
the whole domain of the function that satisfies its recursion (`ElPliegue`); `Mascara` of the set of words,
a sum of seven terms, satisfies it (`UnaPalabra`); and a second one that did would differ from it at a least
set of positions, which cannot be (the order of finite sets is well founded).

Only model-checked: liveness (`PeticionTermina`, `DialogoTermina`, `ServidorTermina`, `RecibirTermina`), which the
prover does not reach. What five runs violate is not true of the code as it is; `UnServidorSinSobrecupo`,
`UnServidorEntraConCupo`, `ListaEsCompleta` and `RespuestaCompletaEnPaso` say under which conditions
four of those statements are.

## 5. What is not modelled, and the plan

By far the most lines of the repository are two copies of the SQLite amalgamation (147,782
lines each, with their headers). They are third-party code, and of them only what the
handlers meet is modelled: locks, SQLITE_BUSY and SQLITE_CONSTRAINT, AUTOINCREMENT, UNIQUE, `last_insert_rowid`.

Left out for good:

* `hash.c` (SHA-256): a pure function of bytes; a password stands for its hash.
* `server_log.c`, ERROR log entries, what the menus print, getters and constructors: output.
* `request_dispatcher.c`, `handler_conexion.c` and `S/negocio.c`, which nothing calls; PING and
  DISCONNECT, which no client sends.
* `db_path` and `log_path` of the configuration; `max_negocios` is modelled as a value of the file, but enforced nowhere.
  `server.config` is read once.
* `get_negocios` counts the services in one statement and reads them in another
  (`A/negocio.c:121`): it would cut off rows added in between, which takes two administration
  programs at once, and the models have one.
* Failures of disk and memory.

Noted while reading, and claimed by no run: the user with id 0 of `bd.db` can log in, but his CREATE and UPDATE are refused,
ids having to be greater than 0, and log entries with `id_usuario` 0 rely on his row; `update_negocio`
leaves `descripcion` as it was; the administrator's menus accept an empty DNI; an edit of the
configuration takes effect at the next start.

What comes next: the half of the liveness properties that is safety, namely a measure that every step of
a handler or of a dialogue under way lowers (`PeticionTermina`, `DialogoTermina`, `RecibirTermina` say
that it reaches its end under fairness); and conditions weaker than `UnServidorSolo`, if there are any: every
operation of the administrator, `get_negocios` included, writes a log entry, and a commit is all that `busy` needs.
