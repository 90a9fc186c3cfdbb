------------------------------ MODULE Cuentas ------------------------------
(***************************************************************************)
(* The accounts of table usuario and who may enter with them.  Server      *)
(* processes execute LOGIN and REGISTER; the administration program does   *)
(* the same from its own menus, over the same file, and admits as          *)
(* administrator whoever types the credentials of its configuration, which *)
(* it edits as well.  Any of the programs may end at any moment.           *)
(*                                                                         *)
(* A text is the sequence of the parts that its '|' characters separate,   *)
(* and so is the line of fields that a client sends.                       *)
(***************************************************************************)
EXTENDS Integers, Sequences, FiniteSets, Functions

CONSTANTS Servidores, Admin,   \* the processes
          Dnis, Claves,        \* what may be typed; a password stands for its hash
          Textos,              \* the parts of what clients type, besides the empty one
          Registros,           \* the forms [nombre, apellido, dni, clave] of the clients
          Entradas,            \* the pairs [dni, clave] with which they log in
          Blanco,              \* an empty line, or part
          Basura,              \* the hash of an uninitialized buffer
          Tecleadas,           \* the pairs [dni, clave] typed in the administration program
          Maximos,             \* values of max_negocios
          Ediciones,           \* what may be typed as [dni, clave, max] of the configuration
          Inicial,             \* the rows of usuario at the start, DNI -> [id, clave]
          Defecto              \* config_defaults: [dni, clave, max]

Procesos == Servidores \cup {Admin}

ASSUME ProcesosAssumption == Admin \notin Servidores
ASSUME DatosAssumption ==
  /\ Blanco \notin Dnis /\ Blanco \notin Claves \cup Maximos \cup Textos
  /\ Basura \notin Dnis \cup Claves
  /\ \A t \in Registros :
       /\ \A x \in {t.nombre, t.apellido, t.dni} :
            x \in Seq(Textos \cup {Blanco}) /\ x \notin {<<>>, <<Blanco>>}
       /\ t.clave \in Claves
  /\ \A t \in Entradas : t.dni \in Seq(Textos \cup {Blanco}) /\ t.clave \in Claves
  /\ Defecto \in [dni: Dnis, clave: Claves, max: Maximos]
  /\ Tecleadas \subseteq [dni: Dnis \cup {Blanco}, clave: Claves \cup {Blanco}]
  /\ Ediciones \subseteq [dni: Dnis \cup {Blanco}, clave: Claves \cup {Blanco},
                          max: Maximos \cup {Blanco}]
  /\ DOMAIN Inicial \in SUBSET Dnis /\ IsFiniteSet(DOMAIN Inicial)
  /\ Inicial \in [DOMAIN Inicial -> [id: 0 .. Cardinality(DOMAIN Inicial) - 1, clave: Claves]]
  /\ \A d, e \in DOMAIN Inicial : Inicial[d].id = Inicial[e].id => d = e

VARIABLES
  usuario,    \* table usuario: DNI -> [id, clave]
  archivo,    \* admin.config: the keys that are in the file
  \* One per process
  pc,
  pet,        \* the request: [op, dni, clave], and what was typed for it
  rc,         \* what its statement returned
  ultimo,     \* sqlite3_last_insert_rowid of its connection, during a request
  resp,       \* its latest answer: [que, id]
  \* The administration program
  cfg,        \* Config, loaded when it starts
  nueva,      \* c_nueva, while it is being saved
  \* History
  dadas,      \* what was typed in the registrations that were told to have succeeded
  tecleada    \* what this run of the program has typed last as its configuration

tablas  == <<usuario, dadas>>
locales == <<pet, rc, ultimo, resp>>
config  == <<archivo, cfg, nueva, tecleada>>
vars    == <<tablas, pc, locales, config>>

-----------------------------------------------------------------------------
(* Requests and answers.                                                    *)

Vacio == [k \in {} |-> k]

\* The DNI and the password of a registration, and whether the client sent a '|' in a text.
Escrito(t, barra) == [dni |-> t.dni, clave |-> t.clave, barra |-> barra]
SinEscribir == [dni |-> Blanco, clave |-> Blanco, barra |-> FALSE]

Peticion(op, d, c, e) == [op |-> op, dni |-> d, clave |-> c, escrito |-> e]

SinPeticion == Peticion("", Blanco, Blanco, SinEscribir)

Respuesta(q) == [que |-> q, id |-> 0, tabla |-> ""]

\* An answer with the id of row u.
ConId(q, u) == [que |-> q, id |-> u.id, tabla |-> u.tabla]

\* Every INSERT gives its row an id; those of log are not told apart.
DeUsuario(i) == [tabla |-> "usuario", id |-> i]
DeLog        == [tabla |-> "log", id |-> 0]

Coincide(d, c) == d \in DOMAIN usuario /\ usuario[d].clave = c

-----------------------------------------------------------------------------
(* SQLite's locks, as in module Reservas.                                   *)

Lecturas   == {"consulta", "id"}
Escrituras == {"inserta", "bitacora"}
Exclusivas == {"confirma", "anota"}

LecturaOcupada(p) == \E q \in Procesos \ {p} : pc[q] \in Exclusivas

EscrituraOcupada(p) ==
  \E q \in Procesos \ {p} : pc[q] \in Lecturas \cup Escrituras \cup Exclusivas

Va(p, de, a) == pc[p] = de /\ pc' = [pc EXCEPT ![p] = a]

\* Where a program waits for its next request: the server's loop, the welcome menu.
Espera == "espera"

Contesta(p, de, r) ==
  /\ Va(p, de, Espera)
  /\ resp' = [resp EXCEPT ![p] = r]
  /\ pet' = [pet EXCEPT ![p] = SinPeticion]
  /\ rc' = [rc EXCEPT ![p] = "OK"]
  /\ ultimo' = [ultimo EXCEPT ![p] = DeLog]

-----------------------------------------------------------------------------
(* A request comes: over the connection of a server, or typed in the menus   *)
(* of the administration program, which accept an empty line and send none.  *)

Atiende(p, op, d, c, e, a) ==
  /\ Va(p, Espera, a)
  /\ pet' = [pet EXCEPT ![p] = Peticion(op, d, c, e)]
  /\ resp' = [resp EXCEPT ![p] = Respuesta("nada")]
  /\ UNCHANGED <<tablas, rc, ultimo, config>>

Rechaza(s, q) == Contesta(s, Espera, Respuesta(q)) /\ UNCHANGED <<tablas, config>>

\* Joining fields with SEP is concatenation.
buildLogin(t)    == t.dni \o <<t.clave>>
buildRegister(t) == t.nombre \o t.apellido \o t.dni \o <<t.clave>>

\* What the k-th call of strtok finds: it skips the empty fields.
Ficha(l, k) ==
  LET es(i) == l[i] # Blanco /\ Cardinality({j \in 1 .. i : l[j] # Blanco}) = k IN
  IF \E i \in DOMAIN l : es(i) THEN l[CHOOSE i \in DOMAIN l : es(i)] ELSE Blanco

ConBarra(t) == \E x \in {t.nombre, t.apellido, t.dni} : Len(x) > 1

RecibeLogin(s) ==
  \E t \in Entradas : LET l == buildLogin(t) IN
    \/ /\ Ficha(l, 2) # Blanco
       /\ Atiende(s, "LOGIN", <<Ficha(l, 1)>>, Ficha(l, 2), SinEscribir, "consulta")
    \/ Ficha(l, 2) = Blanco /\ Rechaza(s, "CREDENCIALES")

\* A '|' in a text moves the fields that follow it, and the last one is not looked for.
RecibeRegister(s) ==
  \E t \in Registros : LET l == buildRegister(t) IN
    \/ /\ Ficha(l, 4) # Blanco
       /\ Atiende(s, "REGISTER", <<Ficha(l, 3)>>, Ficha(l, 4), Escrito(t, ConBarra(t)), "inserta")
    \/ Ficha(l, 4) = Blanco /\ Rechaza(s, "error")

\* The connection was lost after the command: LOGIN and REGISTER answer without fields.
RecibeIncompleta(s) == \E q \in {"CREDENCIALES", "error"} : Rechaza(s, q)

gestionMenuRegistro ==
  \E t \in Tecleadas : Atiende(Admin, "REGISTER", t.dni, t.clave, Escrito(t, FALSE), "inserta")

EsAdministrador(t) == t.dni = cfg.dni /\ t.clave = cfg.clave

\* The configuration is asked first, then the table.
gestionMenuInicioSesion ==
  \E t \in Tecleadas :
    \/ EsAdministrador(t) /\ Atiende(Admin, "ADMIN", t.dni, t.clave, SinEscribir, "bitacora")
    \/ ~EsAdministrador(t) /\ Atiende(Admin, "LOGIN", t.dni, t.clave, SinEscribir, "consulta")

-----------------------------------------------------------------------------
(* login_usuario and insert_usuario                                          *)

\* SQLITE_BUSY leaves u.nombre as null as a wrong password does.
login_usuario(p) ==
  /\ Va(p, "consulta", "bitacora")
  /\ rc' = [rc EXCEPT ![p] = IF ~LecturaOcupada(p) /\ Coincide(pet[p].dni, pet[p].clave)
                             THEN "OK" ELSE "SIN_FILA"]
  /\ UNCHANGED <<tablas, pet, ultimo, resp, config>>

\* Mutant: INSERT OR REPLACE.
Duplicado_Replace(p) == FALSE

\* DNI is UNIQUE.
Duplicado(p) == pet[p].dni \in DOMAIN usuario

Bloquea(p) ==
  /\ Va(p, "inserta", "confirma")
  /\ ~Duplicado(p) /\ ~LecturaOcupada(p)
  /\ UNCHANGED <<tablas, locales, config>>

\* Mutant: every error is taken for a constraint.
InsertaFalla_SinCodigo(p) ==
  /\ Va(p, "inserta", "bitacora")
  /\ Duplicado(p) \/ EscrituraOcupada(p)
  /\ rc' = [rc EXCEPT ![p] = "CONSTRAINT"]
  /\ UNCHANGED <<tablas, pet, ultimo, resp, config>>

InsertaFalla(p) ==
  /\ Va(p, "inserta", "bitacora")
  /\ \/ Duplicado(p) /\ ~LecturaOcupada(p) /\ rc' = [rc EXCEPT ![p] = "CONSTRAINT"]
     \/ EscrituraOcupada(p) /\ rc' = [rc EXCEPT ![p] = "BUSY"]
  /\ UNCHANGED <<tablas, pet, ultimo, resp, config>>

insert_usuario(p) ==
  /\ Va(p, "confirma", "bitacora")
  /\ LET d == pet[p].dni
         i == Cardinality(DOMAIN usuario) IN
     /\ usuario' = [x \in DOMAIN usuario \cup {d} |->
                      IF x = d THEN [id |-> i, clave |-> pet[p].clave] ELSE usuario[x]]
     /\ ultimo' = [ultimo EXCEPT ![p] = DeUsuario(i)]
  /\ UNCHANGED <<dadas, pet, rc, resp, config>>

-----------------------------------------------------------------------------
(* registrar_log, and what follows it.  Its result is not looked at.         *)

BloqueaLog(p) ==
  /\ Va(p, "bitacora", "anota")
  /\ ~LecturaOcupada(p)
  /\ UNCHANGED <<tablas, locales, config>>

\* What REGISTER answers, and what the menu says; u is the last row inserted.
RespuestaRegistro(p, u) ==
  IF rc[p] = "OK" THEN ConId("registrado", u)
  ELSE Respuesta(IF rc[p] = "CONSTRAINT" THEN "DNI_DUPLICADO" ELSE "error")

Registrada(p) == IF rc[p] = "OK" THEN {pet[p].escrito} ELSE {}

TrasLog(p, de, u) ==
  \/ /\ pet[p].op = "REGISTER" /\ Contesta(p, de, RespuestaRegistro(p, u))
     /\ dadas' = dadas \cup Registrada(p)
  \/ /\ pet[p].op = "LOGIN" /\ rc[p] # "OK" /\ Contesta(p, de, Respuesta("CREDENCIALES"))
     /\ UNCHANGED dadas
  \/ /\ pet[p].op = "LOGIN" /\ rc[p] = "OK" /\ p = Admin
     /\ Contesta(p, de, Respuesta("bienvenido"))
     /\ UNCHANGED dadas
  \/ /\ pet[p].op = "LOGIN" /\ rc[p] = "OK" /\ p # Admin /\ Va(p, de, "id")
     /\ UNCHANGED <<pet, rc, ultimo, resp, dadas>>
  \/ /\ pet[p].op = "ADMIN" /\ Va(p, de, "principal")
     /\ pet' = [pet EXCEPT ![p] = SinPeticion]
     /\ UNCHANGED <<rc, ultimo, resp, dadas>>

RegistraLog(p) == TrasLog(p, "anota", DeLog) /\ UNCHANGED <<usuario, config>>

PierdeLog(p) ==
  /\ EscrituraOcupada(p)
  /\ TrasLog(p, "bitacora", ultimo[p])
  /\ UNCHANGED <<usuario, config>>

\* Mutant: LOGIN answers without the test of the -1 that a failed query leaves.
auth_get_id_usuario_SinPrueba(s) ==
  /\ LET d == pet[s].dni IN
       Contesta(s, "id", IF LecturaOcupada(s) \/ d \notin DOMAIN usuario
                         THEN [Respuesta("entra") EXCEPT !.id = -1]
                         ELSE ConId("entra", DeUsuario(usuario[d].id)))
  /\ UNCHANGED <<tablas, config>>

\* The second query of LOGIN, in a transaction of its own.
auth_get_id_usuario(s) ==
  /\ LET d == pet[s].dni IN
       Contesta(s, "id", IF LecturaOcupada(s) \/ d \notin DOMAIN usuario
                         THEN Respuesta("error")
                         ELSE ConId("entra", DeUsuario(usuario[d].id)))
  /\ UNCHANGED <<tablas, config>>

-----------------------------------------------------------------------------
(* The configuration of the administration program                          *)

\* A buffer that sscanf leaves as it was is hashed all the same.
Hash(t, anteriores) == IF t = Blanco THEN anteriores \cup {Basura} ELSE {t}

\* The file is truncated by fopen and written by fclose: it is shorter than the buffer.
\* A blank number is that of the Config in memory.
gestionMenuModificarConfig ==
  /\ Va(Admin, "principal", "guarda")
  /\ tecleada' \in Ediciones
  /\ nueva' \in [dni: Hash(tecleada'.dni, Dnis), clave: Hash(tecleada'.clave, Claves),
                 max: {IF tecleada'.max = Blanco THEN cfg.max ELSE tecleada'.max}]
  /\ archivo' = Vacio
  /\ UNCHANGED <<tablas, locales, cfg>>

\* Mutant: the keys reach the file one at a time.
config_guardar_SinBuffer ==
  /\ pc[Admin] = "guarda"
  /\ \E k \in DOMAIN nueva \ DOMAIN archivo :
       archivo' = Restrict(nueva, DOMAIN archivo \cup {k})
  /\ IF archivo' = nueva THEN Va(Admin, "guarda", "principal") /\ nueva' = Vacio
                         ELSE UNCHANGED <<pc, nueva>>
  /\ UNCHANGED <<tablas, locales, cfg, tecleada>>

config_guardar ==
  /\ Va(Admin, "guarda", "principal")
  /\ archivo' = nueva /\ nueva' = Vacio
  /\ UNCHANGED <<tablas, locales, cfg, tecleada>>

\* gestionMenuPrincipal returns to the welcome menu.
SaleAdmin ==
  /\ Va(Admin, "principal", Espera)
  /\ UNCHANGED <<tablas, locales, config>>

\* Every key that is not in the file has its default.
config_cargar == [k \in DOMAIN Defecto |-> IF k \in DOMAIN archivo THEN archivo[k] ELSE Defecto[k]]

ArrancaAdmin ==
  /\ Va(Admin, "caido", Espera)
  /\ cfg' = config_cargar /\ tecleada' = Vacio
  /\ UNCHANGED <<tablas, locales, archivo, nueva>>

-----------------------------------------------------------------------------
(* The programs end, in their menus or anywhere else, and are started again: *)
(* what was not committed is lost.                                           *)

Cae(p) ==
  /\ pc[p] # "caido"
  /\ pc' = [pc EXCEPT ![p] = "caido"]
  /\ pet' = [pet EXCEPT ![p] = SinPeticion]
  /\ rc' = [rc EXCEPT ![p] = "OK"]
  /\ ultimo' = [ultimo EXCEPT ![p] = DeLog]
  /\ resp' = [resp EXCEPT ![p] = Respuesta("nada")]
  /\ nueva' = IF p = Admin THEN Vacio ELSE nueva
  /\ UNCHANGED <<tablas, archivo, cfg, tecleada>>

Arranca(s) ==
  /\ Va(s, "caido", Espera)
  /\ UNCHANGED <<tablas, locales, config>>

Init ==
  /\ usuario = Inicial /\ archivo = Defecto /\ cfg = Defecto /\ nueva = Vacio
  /\ pc = [p \in Procesos |-> "caido"] /\ pet = [p \in Procesos |-> SinPeticion]
  /\ rc = [p \in Procesos |-> "OK"] /\ ultimo = [p \in Procesos |-> DeLog]
  /\ resp = [p \in Procesos |-> Respuesta("nada")]
  /\ dadas = {} /\ tecleada = Vacio

PasoHandler(p) ==
  \/ login_usuario(p) \/ auth_get_id_usuario(p)
  \/ Bloquea(p) \/ InsertaFalla(p) \/ insert_usuario(p)
  \/ BloqueaLog(p) \/ RegistraLog(p) \/ PierdeLog(p)

PasoServidor(s) ==
  \/ RecibeLogin(s) \/ RecibeRegister(s) \/ RecibeIncompleta(s)
  \/ PasoHandler(s) \/ Cae(s) \/ Arranca(s)

PasoAdmin ==
  \/ gestionMenuRegistro \/ gestionMenuInicioSesion
  \/ gestionMenuModificarConfig \/ config_guardar \/ SaleAdmin
  \/ PasoHandler(Admin) \/ Cae(Admin) \/ ArrancaAdmin

Next == (\E s \in Servidores : PasoServidor(s)) \/ PasoAdmin

Spec == Init /\ [][Next]_vars

-----------------------------------------------------------------------------
(* Properties                                                               *)

Campos == [dni: Dnis \cup {Blanco, Basura}, clave: Claves \cup {Blanco, Basura},
           max: Maximos \cup {Blanco}]

Puntos == {"caido", Espera, "principal", "guarda"} \cup Lecturas \cup Escrituras \cup Exclusivas

\* What strtok may find, and the DNIs and passwords of table usuario.
Fichas == Textos \cup Claves
ClaveFilas == Fichas \cup {Blanco}
DniFilas == Dnis \cup {Blanco} \cup {<<x>> : x \in ClaveFilas}

Escritos == [dni: Dnis \cup {Blanco} \cup Seq(Textos \cup {Blanco}), clave: Claves \cup {Blanco},
             barra: BOOLEAN]

Pedidos == [op: {"", "LOGIN", "REGISTER", "ADMIN"}, dni: DniFilas, clave: ClaveFilas,
            escrito: Escritos]

Codigos == {"OK", "SIN_FILA", "CONSTRAINT", "BUSY"}

Respuestas == [que: {"nada", "error", "CREDENCIALES", "DNI_DUPLICADO", "registrado", "entra",
                     "bienvenido"},
               id: Nat, tabla: {"", "usuario", "log"}]

Filas == [tabla: {"usuario", "log"}, id: Nat]

TipoUsuario ==
  /\ DOMAIN usuario \subseteq DniFilas
  /\ \A d \in DOMAIN usuario : usuario[d] \in [id: Nat, clave: ClaveFilas]
  /\ \A d, e \in DOMAIN usuario : usuario[d].id = usuario[e].id => d = e

TipoProcesos ==
  /\ pc \in [Procesos -> Puntos]
  /\ pet \in [Procesos -> Pedidos] /\ rc \in [Procesos -> Codigos]
  /\ ultimo \in [Procesos -> Filas] /\ resp \in [Procesos -> Respuestas]

TipoConfig ==
  /\ archivo = Vacio \/ archivo \in Campos
  /\ cfg \in Campos /\ {nueva, tecleada} \subseteq Campos \cup {Vacio}

\* Every variable has its type, ids of users are not repeated, and a running program has
\* a whole configuration.
TypeOK == TipoUsuario /\ TipoProcesos /\ TipoConfig

\* Whoever was told that his registration succeeded can enter with the DNI and the password
\* he typed, if he typed no '|' in his name, surname or DNI: no later registration, by another
\* program either, takes or changes his account (insert_usuario, login_usuario).
CuentaSegura == \A t \in dadas : ~t.barra => Coincide(t.dni, t.clave)

\* What menu_registro.cpp:108 tells him, whatever he typed: "Ya puedes iniciar sesion con tu
\* DNI y contrasena".
CuentaTecleada == \A t \in dadas : Coincide(t.dni, t.clave)

\* An answer says what is in the table when it is sent, though it was decided statements
\* earlier: LOGIN gives the id of the account whose DNI and password the request holds,
\* which its second query looks for by DNI alone, and the DNI of the request is called a
\* duplicate only when it is (handler_auth_login, handler_auth_register).
RespuestaVeraz ==
  [][\A p \in Procesos : pc[p] # "caido" /\ resp'[p] # resp[p] =>
       /\ resp'[p].que = "entra" =>
            Coincide(pet[p].dni, pet[p].clave) /\ resp'[p].id = usuario[pet[p].dni].id
       /\ resp'[p].que = "DNI_DUPLICADO" => pet[p].dni \in DOMAIN usuario]_vars

\* The configuration the program starts with is all of what was typed last or all of the
\* defaults, wherever the program was when it ended; a number left blank is the one the
\* previous start loaded (config_guardar, config_cargar, menu_modificar_config.c).
ConfiguracionEntera ==
  [][cfg' # cfg /\ cfg' # Defecto =>
       /\ \A k \in DOMAIN Defecto : tecleada[k] # Blanco => cfg'[k] = tecleada[k]
       /\ tecleada.max = Blanco => cfg'.max = cfg.max]_vars

=============================================================================
