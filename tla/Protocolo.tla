----------------------------- MODULE Protocolo -----------------------------
(***************************************************************************)
(* A client and its server over one connection: the dialogues of the       *)
(* menus, which send a command frame and a frame of parameters and wait    *)
(* for the answer, and the loop of the server.  The connection may be cut  *)
(* and either program may end at any moment; a new pair is then started    *)
(* over the same tables.  A frame arrives whole (module Tramas), and other *)
(* processes of the system are in Reservas.                                *)
(***************************************************************************)
EXTENDS Integers, Sequences, FiniteSets, SequencesExt

CONSTANTS Dnis,          \* what may be typed as DNI
          SinDni,        \* an absent DNI
          Registrados,   \* the users the database starts with; in bd.db the first has the id 0
          Servicios,     \* the ids of table servicio
          IdsLog,        \* the ids the next log entry may get
          MaxReserva,    \* the largest rowid: the INSERT after it fails
          MaxAbandonos,  \* how often a date is left blank after UPDATE_RESERVA was sent
          MaxPendientes  \* frames on the way with which a client still starts a request

ASSUME Parametros == /\ SinDni \notin Dnis /\ Registrados \subseteq Dnis
                     /\ IsFiniteSet(Registrados) /\ IsFiniteSet(Servicios)
                     /\ Servicios \subseteq Nat \ {0}
                     /\ IdsLog \subseteq Nat \ {0} /\ MaxReserva \in Nat /\ MaxAbandonos \in Nat
                     /\ MaxPendientes \in Nat

VARIABLES
  \* The client
  pcC,        \* where its dialogue is
  conectado,  \* SocketClient::_conectado
  sesion,     \* Sesion: _idUsuario, Cerrada without a session
  cache,      \* Cache::_reservas
  curso,      \* the request of the current dialogue
  leidas,     \* the lines recibirLista has read
  dicho,      \* what was last told to the user
  \* The connection
  aServidor, aCliente, enlace,
  \* The server
  pcS,
  recibida,   \* the request being served
  salida,     \* the frames of its answer still to send
  usuario,    \* table usuario, DNI -> id
  reserva,    \* table reserva, id -> [usuario, servicio]
  seqReserva, \* its AUTOINCREMENT
  \* History
  titular,    \* the DNI the session was opened with
  pedida,     \* the latest request whose command was sent
  hecha,      \* how it went at the server: "no" (not yet), "exito", "error"
  abandonos   \* commands left without parameters

cliente  == <<pcC, conectado, sesion, cache, curso, leidas, dicho>>
red      == <<aServidor, aCliente, enlace>>
servidor == <<pcS, recibida, salida>>
tablas   == <<usuario, reserva, seqReserva>>
historia == <<titular, pedida, hecha, abandonos>>
vars     == <<cliente, red, servidor, tablas, historia>>

-----------------------------------------------------------------------------
(* Requests, frames and answers.  A field that is absent, or that atoi     *)
(* cannot read, is 0.                                                      *)

Cerrada == -1

Nada == [cmd |-> "", dni |-> SinDni, usuario |-> 0, servicio |-> 0, reserva |-> 0, motivo |-> ""]

Acceso(c, d)  == [Nada EXCEPT !.cmd = c, !.dni = d]
DeUsuario(c)  == [Nada EXCEPT !.cmd = c, !.usuario = sesion]
Carga(m)      == [DeUsuario("GET_RESERVA") EXCEPT !.motivo = m]
Alta(v)       == [DeUsuario("CREATE_RESERVA") EXCEPT !.servicio = v]
Baja(i)       == [DeUsuario("CANCEL_RESERVA") EXCEPT !.reserva = i]
Cambio(i, v)  == [DeUsuario("UPDATE_RESERVA") EXCEPT !.reserva = i, !.servicio = v]
VerNegocios   == [Nada EXCEPT !.cmd = "GET_SERVICIOS"]

Comando(p)    == [clase |-> "comando", pet |-> [Nada EXCEPT !.cmd = p.cmd]]
Valores(p)    == [clase |-> "parametros", pet |-> p]

Linea(t)      == [tipo |-> t, id |-> 0, servicio |-> 0]
Ok(i)         == [Linea("OK") EXCEPT !.id = i]
Fila(i, v)    == [Linea("RESERVA") EXCEPT !.id = i, !.servicio = v]
Negocio(v)    == [Linea("NEGOCIO") EXCEPT !.servicio = v]

\* "OK|SESION_CERRADA" and "OK|CANCELADA" are OK_TEXTO: their second field is no number.
esOk(m)    == m.tipo \in {"OK", "OK_TEXTO"}
esError(m) == m.tipo = "ERR"

-----------------------------------------------------------------------------
(* The client *)

Menu(p) == IF p.cmd \in {"LOGIN", "REGISTER"} THEN "bienvenida" ELSE "principal"

\* After a request the dialogue that made it goes on: the list of
\* reservations is only the first half of showing the services, of
\* cancelling and of moving.
Prosigue(p, filas) ==
  IF p.motivo = "negocios" THEN pcC' = "envia" /\ curso' = VerNegocios
  ELSE IF p.motivo \in {"cancelar", "modificar"} /\ filas # {} THEN pcC' = "elige" /\ curso' = p
  ELSE pcC' = Menu(p) /\ curso' = Nada

\* Out of step with its server a client may leave ever more frames unread.
Elige(p) == /\ Len(aServidor) + Len(aCliente) <= MaxPendientes
            /\ pcC' = "envia" /\ curso' = p
            /\ UNCHANGED <<conectado, sesion, cache, leidas, dicho, red, servidor, tablas, historia>>

OpcionBienvenida == /\ pcC = "bienvenida"
                    /\ \E c \in {"LOGIN", "REGISTER"}, d \in Dnis : Elige(Acceso(c, d))

OpcionPrincipal ==
  /\ pcC = "principal"
  /\ \E p \in {Carga(m) : m \in {"ver", "negocios", "cancelar", "modificar"}}
              \cup {Alta(v) : v \in Servicios} \cup {DeUsuario("LOGOUT")} : Elige(p)

OpcionReserva ==
  /\ pcC = "elige"
  /\ \/ \E c \in cache :
          \/ curso.motivo = "cancelar" /\ Elige(Baja(c.reserva))
          \/ curso.motivo = "modificar" /\ \E v \in Servicios : Elige(Cambio(c.reserva, v))
     \/ /\ pcC' = "principal" /\ curso' = Nada
        /\ UNCHANGED <<conectado, sesion, cache, leidas, dicho, red, servidor, tablas, historia>>

\* enviar: a frame goes out, is lost unnoticed after the cut, or send fails.
Sale(f) == /\ conectado
           /\ aServidor' = IF enlace THEN Append(aServidor, f) ELSE aServidor
           /\ UNCHANGED <<conectado, aCliente, enlace>>

NoSale == /\ ~enlace
          /\ conectado' = FALSE /\ dicho' = "error"
          /\ Prosigue(curso, {})
          /\ UNCHANGED <<sesion, leidas, red, servidor, tablas, historia>>

\* Mutant: the cache is not emptied before the list is asked for.
EnCache_SinLimpiar == cache

EnCache == IF curso.cmd = "GET_RESERVA" THEN {} ELSE cache

EnviaComando ==
  /\ pcC = "envia" /\ cache' = EnCache
  /\ \/ /\ Sale(Comando(curso))
        /\ pcC' = (IF curso.cmd = "UPDATE_RESERVA" THEN "fecha" ELSE "parametros")
        /\ pedida' = curso /\ hecha' = "no" /\ dicho' = "nada"
        /\ UNCHANGED <<sesion, curso, leidas, servidor, tablas, titular, abandonos>>
     \/ NoSale

EnviaParametros ==
  /\ pcC = "parametros" /\ cache' = cache
  /\ \/ /\ Sale(Valores(curso))
        /\ pcC' = "recibe"
        /\ UNCHANGED <<sesion, curso, leidas, dicho, servidor, tablas, historia>>
     \/ NoSale

\* UPDATE_RESERVA is already sent while the date is being typed.
DaFecha == /\ pcC = "fecha" /\ pcC' = "parametros"
           /\ UNCHANGED <<conectado, sesion, cache, curso, leidas, dicho, red, servidor, tablas, historia>>

DejaLaFecha == /\ pcC = "fecha" /\ abandonos < MaxAbandonos
               /\ pcC' = "principal" /\ curso' = Nada
               /\ abandonos' = abandonos + 1
               /\ UNCHANGED <<conectado, sesion, cache, leidas, dicho, red, servidor, tablas, titular, pedida, hecha>>

-----------------------------------------------------------------------------
(* The client receives *)

\* recibir: the next frame, or "" once nothing more can come.
Siguiente == IF aCliente = <<>> THEN Linea("") ELSE Head(aCliente)

Recibir(m) == /\ m = Siguiente
              /\ aCliente # <<>> \/ ~enlace
              /\ conectado' = (aCliente # <<>>)
              /\ aCliente' = SubSeq(aCliente, 2, Len(aCliente))
              /\ UNCHANGED <<aServidor, enlace>>

\* Nobody catches what std::stoi throws: the program ends.
Muere == /\ pcC' = "muerto" /\ conectado' = FALSE
         /\ sesion' = Cerrada /\ cache' = {} /\ curso' = Nada /\ leidas' = {} /\ titular' = SinDni
         /\ enlace' = FALSE /\ aCliente' = <<>> /\ aServidor' = aServidor
         /\ UNCHANGED <<dicho, servidor, tablas, pedida, hecha, abandonos>>

RecibeAcceso(m) ==
  /\ curso.cmd \in {"LOGIN", "REGISTER"}
  /\ \/ m.tipo = "OK_TEXTO" /\ Muere
     \/ /\ m.tipo # "OK_TEXTO" /\ Recibir(m)
        /\ dicho' = (IF m.tipo = "OK" THEN "exito" ELSE "error")
        /\ IF m.tipo = "OK" /\ curso.cmd = "LOGIN"
             THEN pcC' = "principal" /\ sesion' = m.id /\ titular' = curso.dni
             ELSE pcC' = "bienvenida" /\ UNCHANGED <<sesion, titular>>
        /\ curso' = Nada
        /\ UNCHANGED <<cache, leidas, servidor, tablas, pedida, hecha, abandonos>>

\* Mutant: the session is closed whatever the answer.
CierraSesion_Siempre(m) == TRUE

CierraSesion(m) == esOk(m)

RecibeLogout(m) ==
  /\ curso.cmd = "LOGOUT" /\ Recibir(m)
  /\ IF CierraSesion(m)
       THEN /\ pcC' = "bienvenida" /\ dicho' = "exito"
            /\ sesion' = Cerrada /\ cache' = {} /\ titular' = SinDni
       ELSE /\ pcC' = "principal" /\ dicho' = "error"
            /\ UNCHANGED <<sesion, cache, titular>>
  /\ curso' = Nada
  /\ UNCHANGED <<leidas, servidor, tablas, pedida, hecha, abandonos>>

\* Mutant: whatever is not an ERR is a success, a lost connection too.
Dicho_Optimista(m) == IF esError(m) THEN "error" ELSE "exito"

Dicho(m) == IF esOk(m) THEN "exito" ELSE IF esError(m) THEN "error" ELSE "nada"

\* Mutant: the cancelled reservation stays in the cache.
TrasCancelar_SinLimpiar(m) == cache

TrasCancelar(m) == IF esOk(m) THEN {} ELSE cache

RecibeCambio(m) ==
  /\ curso.cmd \in {"CREATE_RESERVA", "CANCEL_RESERVA", "UPDATE_RESERVA"} /\ Recibir(m)
  /\ dicho' = Dicho(m)
  /\ IF curso.cmd = "CANCEL_RESERVA"
       THEN pcC' = "principal" /\ curso' = Nada /\ cache' = TrasCancelar(m)
       ELSE /\ cache' = cache
            /\ IF esOk(m) THEN pcC' = "envia" /\ curso' = Carga("ver")
                          ELSE pcC' = "principal" /\ curso' = Nada
  /\ UNCHANGED <<sesion, leidas, servidor, tablas, historia>>

\* cargarReservas over the lines of recibirLista: a lone ERR is reported,
\* and any other line that is not a reservation makes stoi throw.
CargaReservas(m, lineas) ==
  IF pcC = "recibe" /\ esError(m)
  THEN /\ Recibir(m) /\ dicho' = "error" /\ leidas' = {} /\ cache' = cache
       /\ Prosigue(curso, {})
       /\ UNCHANGED <<sesion, servidor, tablas, historia>>
  ELSE IF \E l \in lineas : l.tipo # "RESERVA"
  THEN Muere
  ELSE /\ Recibir(m) /\ dicho' = "exito" /\ leidas' = {}
       /\ cache' = cache \cup {[reserva |-> l.id, servicio |-> l.servicio] : l \in lineas}
       /\ Prosigue(curso, cache')
       /\ UNCHANGED <<sesion, servidor, tablas, historia>>

\* cargarNegocios takes any line for a service, the empty one included.
CargaNegocios(m, lineas) ==
  /\ Recibir(m) /\ leidas' = {}
  /\ dicho' = (IF pcC = "recibe" /\ esError(m) THEN "error" ELSE "exito")
  /\ Prosigue(curso, {})
  /\ UNCHANGED <<sesion, cache, servidor, tablas, historia>>

\* Mutant: LIST_END is taken for a line of data.
Datos_ConFin(m) == IF m.tipo = "LIST_START" THEN {} ELSE {m}

Datos(m) == IF m.tipo \in {"LIST_START", "LIST_END"} THEN {} ELSE {m}

RecibeLista(m) ==
  LET cierra == IF pcC = "lista" THEN m.tipo \in {"LIST_END", ""} ELSE m.tipo # "LIST_START"
      lineas == leidas \cup Datos(m)
  IN  /\ curso.cmd \in {"GET_RESERVA", "GET_SERVICIOS"}
      /\ \/ /\ ~cierra /\ Recibir(m)
            /\ pcC' = "lista" /\ leidas' = lineas
            /\ UNCHANGED <<sesion, cache, curso, dicho, servidor, tablas, historia>>
         \/ cierra /\ curso.cmd = "GET_RESERVA" /\ CargaReservas(m, lineas)
         \/ cierra /\ curso.cmd = "GET_SERVICIOS" /\ CargaNegocios(m, lineas)

Recibe ==
  /\ pcC \in {"recibe", "lista"}
  /\ aCliente # <<>> \/ ~enlace
  /\ \E m \in {Siguiente} :
       RecibeAcceso(m) \/ RecibeLogout(m) \/ RecibeCambio(m) \/ RecibeLista(m)

PasoCliente == EnviaComando \/ EnviaParametros \/ Recibe

-----------------------------------------------------------------------------
(* The server *)

SinCambioCliente == UNCHANGED <<cliente, titular, pedida, abandonos>>

\* recv of a command.  What is no command is answered ERR and forgotten.
RecibeComando ==
  /\ pcS = "comando" /\ aServidor # <<>>
  /\ aServidor' = Tail(aServidor)
  /\ IF Head(aServidor).clase = "comando"
       THEN pcS' = "parametros" /\ recibida' = Head(aServidor).pet /\ salida' = salida
       ELSE pcS' = "contesta" /\ salida' = <<Linea("ERR")>> /\ recibida' = recibida
  /\ SinCambioCliente /\ UNCHANGED <<aCliente, enlace, tablas, hecha>>

\* The second recv takes any frame, and no frame at all after the cut.
Parametro(f) == IF f.clase = "parametros" THEN f.pet ELSE Nada

RecibeParametros ==
  /\ pcS = "parametros"
  /\ \/ /\ aServidor # <<>>
        /\ recibida' = [Parametro(Head(aServidor)) EXCEPT !.cmd = recibida.cmd]
        /\ aServidor' = Tail(aServidor)
     \/ /\ aServidor = <<>> /\ ~enlace
        /\ UNCHANGED <<recibida, aServidor>>
  /\ pcS' = "atiende"
  /\ SinCambioCliente /\ UNCHANGED <<aCliente, enlace, salida, tablas, hecha>>

\* Mutant: the loop goes on after recv <= 0.
TrasCorte_Sigue == pcS' = "comando"

\* recv <= 0: the loop ends and so does the process.
TrasCorte == pcS' = "caido"

Desconecta ==
  /\ pcS = "comando" /\ aServidor = <<>> /\ ~enlace
  /\ TrasCorte
  /\ SinCambioCliente /\ UNCHANGED <<red, recibida, salida, tablas, hecha>>

Atiende(c) == /\ pcS = "atiende" /\ recibida.cmd = c
              /\ pcS' = "contesta" /\ recibida' = Nada
              /\ SinCambioCliente /\ UNCHANGED red

Contesta(r, lineas) == hecha' = r /\ salida' = lineas

Exito(lineas) == Contesta("exito", lineas)

\* Mutant: a missing return after an error answers twice.
Rechaza_SinReturn(c) == /\ Atiende(c) /\ Contesta("error", <<Linea("ERR"), Linea("ERR")>>)
                        /\ UNCHANGED tablas

\* Every handler but that of LOGOUT may refuse: wrong password, no free place, a locked
\* table, a SELECT that cannot be prepared...
Rechaza(c) == /\ Atiende(c) /\ Contesta("error", <<Linea("ERR")>>)
              /\ UNCHANGED tablas

\* Mutant: LOGIN answers the last inserted id, as REGISTER does.
handler_auth_login_UltimoId ==
  \/ Rechaza("LOGIN")
  \/ /\ Atiende("LOGIN") /\ recibida.dni \in DOMAIN usuario
     /\ \E n \in IdsLog : Exito(<<Ok(n)>>)
     /\ UNCHANGED tablas

handler_auth_login ==
  \/ Rechaza("LOGIN")
  \/ /\ Atiende("LOGIN") /\ recibida.dni \in DOMAIN usuario
     /\ Exito(<<Ok(usuario[recibida.dni])>>)
     /\ UNCHANGED tablas

\* The id answered is that of the last INSERT: registrar_log's, unless it failed.
IdAnotado(i) == IdsLog \cup {i}

handler_auth_register ==
  \/ Rechaza("REGISTER")
  \/ /\ Atiende("REGISTER") /\ recibida.dni \notin DOMAIN usuario \cup {SinDni}
     /\ LET i == Cardinality(DOMAIN usuario) IN
          /\ usuario' = [d \in DOMAIN usuario \cup {recibida.dni} |->
                           IF d = recibida.dni THEN i ELSE usuario[d]]
          /\ \E n \in IdAnotado(i) : Exito(<<Ok(n)>>)
     /\ UNCHANGED <<reserva, seqReserva>>

handler_auth_logout ==
  /\ Atiende("LOGOUT") /\ Exito(<<Linea("OK_TEXTO")>>)
  /\ UNCHANGED tablas

\* Mutant: the list has no end mark.
Lista_SinFin(filas) == Exito(<<Linea("LIST_START")>> \o filas)

Lista(filas) == Exito(<<Linea("LIST_START")>> \o filas \o <<Linea("LIST_END")>>)

\* The rows of a SELECT, or none: a first sqlite3_step that returns SQLITE_BUSY ends the
\* loop as the end of the rows does.
Leidas(filas) == {{}, filas}

handler_servicios_get_all ==
  \/ Rechaza("GET_SERVICIOS")
  \/ /\ Atiende("GET_SERVICIOS")
     /\ \E filas \in Leidas({Negocio(v) : v \in Servicios}) : Lista(SetToSeq(filas))
     /\ UNCHANGED tablas

handler_get_reserva ==
  \/ Rechaza("GET_RESERVA")
  \/ /\ Atiende("GET_RESERVA")
     /\ LET suyas == {i \in DOMAIN reserva : reserva[i].usuario = recibida.usuario} IN
          \E filas \in Leidas({Fila(i, reserva[i].servicio) : i \in suyas}) : Lista(SetToSeq(filas))
     /\ UNCHANGED tablas

ya_reservado(u, v) == \E i \in DOMAIN reserva : reserva[i] = [usuario |-> u, servicio |-> v]

es_propia(i, u) == i \in DOMAIN reserva /\ reserva[i].usuario = u

handler_create_reserva ==
  \/ Rechaza("CREATE_RESERVA")
  \/ /\ Atiende("CREATE_RESERVA")
     /\ recibida.usuario > 0 /\ recibida.servicio > 0
     /\ ~ya_reservado(recibida.usuario, recibida.servicio)
     /\ seqReserva < MaxReserva /\ seqReserva' = seqReserva + 1
     /\ reserva' = [i \in DOMAIN reserva \cup {seqReserva'} |->
                      IF i = seqReserva'
                        THEN [usuario |-> recibida.usuario, servicio |-> recibida.servicio]
                        ELSE reserva[i]]
     /\ Exito(<<Ok(seqReserva')>>)
     /\ UNCHANGED usuario

handler_cancel_reserva ==
  \/ Rechaza("CANCEL_RESERVA")
  \/ /\ Atiende("CANCEL_RESERVA") /\ es_propia(recibida.reserva, recibida.usuario)
     /\ reserva' = [i \in DOMAIN reserva \ {recibida.reserva} |-> reserva[i]]
     /\ Exito(<<Linea("OK_TEXTO")>>)
     /\ UNCHANGED <<usuario, seqReserva>>

handler_update_reserva ==
  \/ Rechaza("UPDATE_RESERVA")
  \/ /\ Atiende("UPDATE_RESERVA")
     /\ recibida.usuario > 0 /\ recibida.servicio > 0
     /\ es_propia(recibida.reserva, recibida.usuario)
     /\ ~ya_reservado(recibida.usuario, recibida.servicio)
     /\ reserva' = [reserva EXCEPT ![recibida.reserva].servicio = recibida.servicio]
     /\ Exito(<<Ok(recibida.reserva)>>)
     /\ UNCHANGED <<usuario, seqReserva>>

\* Mutant: only the first line of an answer is sent.
EnviaLinea_SoloUna ==
  /\ pcS = "contesta"
  /\ aCliente' = IF enlace THEN Append(aCliente, Head(salida)) ELSE aCliente
  /\ salida' = Tail(salida)
  /\ pcS' = "comando"
  /\ SinCambioCliente /\ UNCHANGED <<aServidor, enlace, recibida, tablas, hecha>>

\* send: after the cut the frame is lost, and nobody looks at the result.
EnviaLinea ==
  /\ pcS = "contesta"
  /\ aCliente' = IF enlace THEN Append(aCliente, Head(salida)) ELSE aCliente
  /\ salida' = Tail(salida)
  /\ pcS' = IF salida' = <<>> THEN "comando" ELSE "contesta"
  /\ SinCambioCliente /\ UNCHANGED <<aServidor, enlace, recibida, tablas, hecha>>

PasoServidor ==
  \/ RecibeComando \/ RecibeParametros \/ Desconecta \/ EnviaLinea
  \/ handler_auth_login \/ handler_auth_register \/ handler_auth_logout
  \/ handler_servicios_get_all \/ handler_get_reserva
  \/ handler_create_reserva \/ handler_cancel_reserva \/ handler_update_reserva

-----------------------------------------------------------------------------
(* Faults and endings *)

Prefijos(q) == {SubSeq(q, 1, n) : n \in 0 .. Len(q)}

SeCorta == /\ enlace /\ enlace' = FALSE
           /\ aServidor' \in Prefijos(aServidor) /\ aCliente' \in Prefijos(aCliente)
           /\ UNCHANGED <<cliente, servidor, tablas, historia>>

\* The server dies, between a commit and its answer for instance.
Cae == /\ pcS # "caido" /\ pcS' = "caido"
       /\ recibida' = Nada /\ salida' = <<>>
       /\ enlace' = FALSE /\ aServidor' = <<>> /\ aCliente' \in Prefijos(aCliente)
       /\ UNCHANGED <<cliente, tablas, historia>>

\* The user leaves by the welcome menu, or closes the window anywhere else.
Termina == /\ pcC \notin {"fin", "muerto"} /\ pcC' = "fin" /\ conectado' = FALSE
           /\ sesion' = Cerrada /\ cache' = {} /\ curso' = Nada /\ leidas' = {} /\ titular' = SinDni
           /\ enlace' = FALSE /\ aCliente' = <<>> /\ aServidor' \in Prefijos(aServidor)
           /\ UNCHANGED <<dicho, servidor, tablas, pedida, hecha, abandonos>>

Init ==
  /\ pcC = "bienvenida" /\ conectado = TRUE /\ sesion = Cerrada /\ cache = {}
  /\ curso = Nada /\ leidas = {} /\ dicho = "nada"
  /\ aServidor = <<>> /\ aCliente = <<>> /\ enlace = TRUE
  /\ pcS = "comando" /\ recibida = Nada /\ salida = <<>>
  /\ usuario \in Bijection(Registrados, 0 .. Cardinality(Registrados) - 1)
  /\ reserva = [i \in {} |-> Nada] /\ seqReserva = 0
  /\ titular = SinDni /\ pedida = Nada /\ hecha = "no" /\ abandonos = 0

\* The client does not connect again: both programs are started anew.
Reinicia ==
  /\ pcC \in {"fin", "muerto"} /\ pcS = "caido"
  /\ pcC' = "bienvenida" /\ conectado' = TRUE /\ sesion' = Cerrada /\ cache' = {}
  /\ curso' = Nada /\ leidas' = {} /\ dicho' = "nada"
  /\ aServidor' = <<>> /\ aCliente' = <<>> /\ enlace' = TRUE
  /\ pcS' = "comando" /\ recibida' = Nada /\ salida' = <<>>
  /\ titular' = SinDni /\ pedida' = Nada /\ hecha' = "no" /\ abandonos' = 0
  /\ UNCHANGED tablas

Next == \/ OpcionBienvenida \/ OpcionPrincipal \/ OpcionReserva \/ DaFecha \/ DejaLaFecha
        \/ PasoCliente \/ PasoServidor
        \/ SeCorta \/ Cae \/ Termina \/ Reinicia

Spec == Init /\ [][Next]_vars

\* Both programs are straight lines of calls that return; the user owes nothing.
FairSpec == Spec /\ WF_vars(PasoCliente) /\ WF_vars(PasoServidor)

-----------------------------------------------------------------------------
(* Properties *)

Cursos == [cmd : {"", "LOGIN", "REGISTER", "LOGOUT", "GET_SERVICIOS", "GET_RESERVA",
                  "CREATE_RESERVA", "CANCEL_RESERVA", "UPDATE_RESERVA"},
           dni : Dnis \cup {SinDni}, usuario : Nat, servicio : Nat, reserva : Nat,
           motivo : {"", "ver", "negocios", "cancelar", "modificar"}]

Lineas == [tipo : {"", "OK", "OK_TEXTO", "ERR", "LIST_START", "LIST_END", "RESERVA", "NEGOCIO"},
           id : Nat, servicio : Nat]

Tramas == [clase : {"comando", "parametros"}, pet : Cursos]

\* Types: the variables of the two programs and of the connection, and a
\* client that has noticed the loss is never ahead of it.
TypeOK ==
  /\ pcC \in {"bienvenida", "principal", "elige", "envia", "fecha", "parametros",
              "recibe", "lista", "fin", "muerto"}
  /\ conectado \in BOOLEAN /\ enlace \in BOOLEAN /\ (enlace => conectado)
  /\ sesion \in Nat \cup {Cerrada} /\ curso \in Cursos /\ leidas \in SUBSET Lineas
  /\ cache \in SUBSET [reserva : Nat, servicio : Nat]
  /\ dicho \in {"nada", "exito", "error"}
  /\ aServidor \in Seq(Tramas) /\ aCliente \in Seq(Lineas)
  /\ pcS \in {"comando", "parametros", "atiende", "contesta", "caido"}
  /\ recibida \in Cursos /\ salida \in Seq(Lineas)
  /\ pcS = "contesta" <=> salida # <<>>
  /\ DOMAIN usuario \in SUBSET Dnis /\ \A d \in DOMAIN usuario : usuario[d] \in Nat
  /\ DOMAIN reserva \in SUBSET (1 .. seqReserva)
  /\ \A i \in DOMAIN reserva : reserva[i] \in [usuario : Nat, servicio : Nat]
  /\ seqReserva \in 0 .. MaxReserva
  /\ titular \in Dnis \cup {SinDni} /\ pedida \in Cursos
  /\ hecha \in {"no", "exito", "error"} /\ abandonos \in 0 .. MaxAbandonos

EnMenu == pcC \in {"bienvenida", "principal", "elige", "envia"}

Al_dia == /\ aServidor = <<>> /\ aCliente = <<>>
          /\ pcS = "comando"

\* While the connection stands and no command was left half sent, a client
\* that is not in the middle of a request has nothing on the way in either
\* direction and a server that waits for a command (the order of enviar
\* and recibir in every menu, menu_*.cpp, against the loop of main).
Sincronizado == EnMenu /\ enlace /\ abandonos = 0 => Al_dia

\* What menu_negocios.cpp says of cargarReservasYNegocios: the answer of the
\* first request has been read whole when the second one is sent.
RespuestaCompleta == pcC = "envia" /\ curso.cmd = "GET_SERVICIOS" /\ enlace => Al_dia

\* The open session is that of the user whose DNI was typed, whatever
\* answers came in between (menu_inicio_sesion.cpp, handler_auth_login).
SesionCorrecta == sesion # Cerrada /\ abandonos = 0 =>
                    titular \in DOMAIN usuario /\ sesion = usuario[titular]

\* In its menus a connected client never offers a reservation that is gone,
\* has moved, or is another user's: Cache.cpp is emptied or loaded again by
\* every dialogue that changes the table.
CacheVigente ==
  pcC \in {"bienvenida", "principal", "elige"} /\ conectado /\ abandonos = 0 =>
    \A c \in cache : /\ c.reserva \in DOMAIN reserva
                     /\ reserva[c.reserva] = [usuario |-> sesion, servicio |-> c.servicio]

\* With the connection up no answer makes std::stoi throw (parseReserva,
\* parseLogin): the client dies of a lost connection only.
MuereSoloPorCorte == [][Recibe /\ pcC' = "muerto" /\ abandonos = 0 => ~enlace]_vars

contarReservasPorServicio(v) == Cardinality({c \in cache : c.servicio = v})

\* cargarNegocios shows the services, with the connection up and in step.
MuestraNegocios == /\ curso.cmd = "GET_SERVICIOS" /\ pcC \in {"recibe", "lista"} /\ dicho' = "exito"
                   /\ enlace /\ abandonos = 0

\* The places cargarNegocios shows as taken are none, because the user has no reservation
\* or GET_RESERVA failed or met a lock just before, or else all of the user's at that
\* moment: never part of them, nor those of another user, nor rows of a list read earlier
\* (menu_negocios.cpp:82, contarReservasPorServicio).
PlazasPropias ==
  [][MuestraNegocios /\ cache # {} =>
     \A v \in Servicios : contarReservasPorServicio(v) =
        Cardinality({i \in DOMAIN reserva : reserva[i] = [usuario |-> sesion, servicio |-> v]})]_vars

\* A session is closed, while the client runs, only after the server has
\* executed its LOGOUT and the connection has brought the answer: once the
\* connection is lost the main menu is never left (menu_principal.cpp:29).
SalidaConRespuesta ==
  [][sesion # Cerrada /\ sesion' = Cerrada /\ pcC' \notin {"fin", "muerto"} /\ abandonos = 0 =>
       conectado' /\ pedida.cmd = "LOGOUT" /\ hecha = "exito"]_vars

\* A dialogue of two programs that wait for each other never blocks: a
\* request that is under way ends, with a command left half sent too.
DialogoTermina ==
  pcC \in {"envia", "parametros", "recibe", "lista"} ~>
    pcC \in {"bienvenida", "principal", "elige", "fecha", "fin", "muerto"}

\* A server whose connection is gone ends, wherever the cut found it.
ServidorTermina == ~enlace ~> pcS = "caido"

Promesa == INSTANCE Peticiones WITH
             peticion <- pedida,
             espera   <- pcC \in {"fecha", "parametros", "recibe", "lista"},
             hecha    <- hecha,
             dicho    <- dicho,
             reserva  <- reserva,
             enlace   <- enlace,
             libre    <- abandonos = 0

\* The two programs implement Peticiones: a request is executed at most once, and what
\* the client reports of it happened (the dialogues of menu_*.cpp, the loop of main).
PromesaCumplida == Promesa!Spec
=============================================================================
