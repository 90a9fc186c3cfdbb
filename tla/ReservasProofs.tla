--------------------------- MODULE ReservasProofs ---------------------------
(***************************************************************************)
(* Theorems about Reservas, for every set of servers, users and services   *)
(* and every value of the bounds.                                          *)
(***************************************************************************)
EXTENDS Reservas, TLAPS

-----------------------------------------------------------------------------
(* The helpers from which the actions are built.                            *)

\* Va moves one process, from the point its guard names to another point.
LEMMA VaPuntos ==
  ASSUME pc \in [Procesos -> Puntos], NEW p \in Procesos, NEW d, NEW h \in Puntos,
         Va(p, d, h)
  PROVE  /\ pc' \in [Procesos -> Puntos]
         /\ pc[p] = d /\ pc'[p] = h
         /\ \A q \in Procesos : q # p => pc'[q] = pc[q]
BY DEF Va

\* Termina keeps the types of what belongs to the servers.
LEMMA TerminaTipo ==
  ASSUME TipoProcesos, NEW s \in Servidores, NEW d, NEW r \in Respuestas,
         Termina(s, d, r), edicion' = edicion
  PROVE  /\ TipoProcesos'
         /\ pet' = [pet EXCEPT ![s] = SinPeticion]
<1>1. pc' \in [Procesos -> Puntos]
  BY VaPuntos DEF TipoProcesos, Termina, Contesta, Puntos, Procesos
<1>2. SinPeticion \in Peticion
  BY IdsAssumption DEF SinPeticion, Peticion, Ops, IdUsuario, IdReserva, IdServicio
<1> QED BY <1>1, <1>2 DEF TipoProcesos, Termina, Contesta

\* Sigue moves the server and nothing else.
LEMMA SigueTipo ==
  ASSUME TipoProcesos, NEW s \in Servidores, NEW d, NEW h \in Puntos,
         Sigue(s, d, h), edicion' = edicion
  PROVE  TipoProcesos'
BY VaPuntos DEF TipoProcesos, Sigue, Procesos

\* Recibe either stores the parsed parameters or rejects them.
LEMMA RecibeTipo ==
  ASSUME TypeOK, NEW s \in Servidores, NEW p \in Peticion, NEW valido \in BOOLEAN,
         NEW h \in Puntos, Recibe(s, p, valido, h),
         valido /\ p.op \in {"CREATE", "UPDATE"} => p.usuario # 0 /\ p.servicio # 0
  PROVE  TypeOK'
<1>1. TipoTablas'
  BY DEF TypeOK, TipoTablas, Recibe, tablas
<1>2. CASE valido
  <2>1. TipoProcesos' /\ pet' = [pet EXCEPT ![s] = p]
    BY <1>2, VaPuntos DEF TypeOK, TipoProcesos, Recibe, Contesta, Respuestas, Procesos
  <2> QED BY <1>1, <1>2, <2>1 DEF TypeOK, TipoProcesos
<1>3. CASE ~valido
  <2>1. TipoProcesos' /\ pet' = [pet EXCEPT ![s] = SinPeticion]
    BY <1>3, TerminaTipo DEF TypeOK, Recibe, Respuestas
  <2> QED BY <1>1, <2>1 DEF TypeOK, TipoProcesos, SinPeticion
<1> QED BY <1>2, <1>3

-----------------------------------------------------------------------------
(* Type correctness.                                                        *)

\* A request is parsed into typed parameters.
LEMMA TipoRecepcion ==
  ASSUME TypeOK, NEW s \in Servidores, Recepcion(s)
  PROVE  TypeOK'
<1> USE DEF Puntos, Lecturas
<1>0. /\ 0 \in IdUsuario /\ 0 \in IdReserva /\ 0 \in IdServicio
      /\ \A u \in IdUsuario : u \in Nat
      /\ \A r \in IdReserva \cup IdServicio : r \in Nat
  BY IdsAssumption DEF IdUsuario, IdReserva, IdServicio
<1>1. CASE RecibeCreate(s)
  <2>1. PICK p \in [op: {"CREATE"}, usuario: IdUsuario, servicio: IdServicio, reserva: {0}] :
          Recibe(s, p, p.usuario > 0 /\ p.servicio > 0, "ya")
    BY <1>1 DEF RecibeCreate
  <2>2. /\ p \in Peticion
        /\ p.usuario > 0 /\ p.servicio > 0 => p.usuario # 0 /\ p.servicio # 0
    BY <1>0 DEF Peticion, Ops
  <2> QED BY <2>1, <2>2, RecibeTipo
<1>2. CASE RecibeGet(s)
  <2>1. PICK p \in [op: {"GET"}, usuario: IdUsuario, servicio: {0}, reserva: {0}] :
          Recibe(s, p, TRUE, "abre")
    BY <1>2 DEF RecibeGet
  <2>2. p \in Peticion /\ p.op = "GET"
    BY <1>0 DEF Peticion, Ops
  <2> QED BY <2>1, <2>2, RecibeTipo
<1>3. CASE RecibeCancel(s)
  <2>1. PICK p \in [op: {"CANCEL"}, usuario: IdUsuario, servicio: {0}, reserva: IdReserva] :
          Recibe(s, p, TRUE, "propia")
    BY <1>3 DEF RecibeCancel
  <2>2. p \in Peticion /\ p.op = "CANCEL"
    BY <1>0 DEF Peticion, Ops
  <2> QED BY <2>1, <2>2, RecibeTipo
<1>4. CASE RecibeUpdate(s)
  <2>1. PICK p \in [op: {"UPDATE"}, usuario: IdUsuario, servicio: IdServicio,
                    reserva: IdReserva] :
          Recibe(s, p, p.usuario > 0 /\ p.reserva > 0 /\ p.servicio > 0, "propia")
    BY <1>4 DEF RecibeUpdate
  <2>2. /\ p \in Peticion
        /\ p.usuario > 0 /\ p.reserva > 0 /\ p.servicio > 0 => p.usuario # 0 /\ p.servicio # 0
    BY <1>0 DEF Peticion, Ops
  <2> QED BY <2>1, <2>2, RecibeTipo
<1> QED BY <1>1, <1>2, <1>3, <1>4 DEF Recepcion

\* The queries of a handler change no table.
LEMMA TipoConsultas ==
  ASSUME TypeOK, NEW s \in Servidores,
         \/ CompruebaPropia(s) \/ CompruebaYa(s) \/ LeeCapacidad(s) \/ CompruebaCupo(s)
         \/ AbreCursor(s) \/ EnviaFila(s) \/ CierraCursor(s)
  PROVE  TypeOK'
<1> USE DEF Puntos, Lecturas, Escrituras, Respuestas
<1> SUFFICES TipoProcesos' /\ TipoTablas' /\
             (pet' = pet \/ pet' = [pet EXCEPT ![s] = SinPeticion])
  BY DEF TypeOK, TipoProcesos, SinPeticion
<1>1. TipoTablas'
  BY DEF TypeOK, TipoTablas, tablas, CompruebaPropia, CompruebaYa, LeeCapacidad,
         CompruebaCupo, AbreCursor, EnviaFila, CierraCursor
<1>2. CASE CompruebaPropia(s)
  BY <1>1, <1>2, SigueTipo, TerminaTipo DEF TypeOK, CompruebaPropia, Sigue
<1>3. CASE CompruebaYa(s)
  BY <1>1, <1>3, SigueTipo, TerminaTipo DEF TypeOK, CompruebaYa, Sigue
<1>4. CASE LeeCapacidad(s)
  <2>1. get_capacidad_max(s, pet[s].servicio) \in Capacidades \cup {-1}
    BY DEF get_capacidad_max, TypeOK, TipoTablas
  <2> QED BY <1>1, <1>4, <2>1, VaPuntos DEF LeeCapacidad, TypeOK, TipoProcesos, Procesos
<1>5. CASE CompruebaCupo(s)
  <2>1. CASE HayCupo(s)
    BY <1>1, <1>5, <2>1, VaPuntos DEF CompruebaCupo, TypeOK, TipoProcesos, Procesos
  <2>2. CASE ~HayCupo(s)
    BY <1>1, <1>5, <2>2, TerminaTipo DEF CompruebaCupo, TypeOK
  <2> QED BY <2>1, <2>2
<1>6. CASE AbreCursor(s)
  BY <1>1, <1>6, SigueTipo, TerminaTipo DEF TypeOK, AbreCursor, Sigue
<1>7. CASE EnviaFila(s)
  <2>1. FilasDe(pet[s].usuario) \subseteq IdReserva
    BY IdsAssumption DEF FilasDe, TypeOK, TipoTablas, IdReserva
  <2> QED BY <1>1, <1>7, <2>1 DEF EnviaFila, TypeOK, TipoProcesos, tablas
<1>8. CASE CierraCursor(s)
  BY <1>1, <1>8, TerminaTipo DEF TypeOK, CierraCursor
<1> QED BY <1>2, <1>3, <1>4, <1>5, <1>6, <1>7, <1>8

\* The statements that write, and the answers that follow them.
LEMMA TipoEscrituras ==
  ASSUME TypeOK, NEW s \in Servidores,
         \/ Bloquea(s) \/ Escritura(s) \/ EscrituraFalla(s) \/ EnviaExito(s)
         \/ BloqueaLog(s) \/ RegistraLog(s) \/ PierdeLog(s)
  PROVE  TypeOK'
<1> USE IdsAssumption DEF Puntos, Lecturas, Escrituras, Exclusivas, Respuestas
<1>1. pc' \in [Procesos -> Puntos]
  BY VaPuntos DEF TypeOK, TipoProcesos, Procesos, Bloquea, Escritura, InsertaReserva,
     BorraReserva, CambiaReserva, EscrituraFalla, EnviaExito, BloqueaLog, RegistraLog,
     PierdeLog, Contesta
<1>2. CASE Bloquea(s) \/ BloqueaLog(s) \/ PierdeLog(s)
  BY <1>1, <1>2 DEF TypeOK, TipoTablas, TipoProcesos, Bloquea, BloqueaLog, PierdeLog, tablas,
     locales
<1>3. CASE EscrituraFalla(s) \/ EnviaExito(s)
  BY <1>1, <1>3 DEF TypeOK, TipoTablas, TipoProcesos, EscrituraFalla, EnviaExito, tablas,
     Contesta
<1>4. CASE InsertaReserva(s)
  <2>1. seqReserva' \in IdReserva /\ seqReserva' = seqReserva + 1 /\ seqReserva \in Nat
    BY <1>4 DEF InsertaReserva, TypeOK, TipoTablas, IdReserva
  <2>2. pet[s].usuario \in Usuarios /\ pet[s].servicio \in IdServicio \ {0}
    BY <1>4 DEF InsertaReserva, TypeOK, TipoProcesos, Peticion, IdUsuario
  <2>3. TipoTablas'
    BY <1>4, <2>1, <2>2 DEF InsertaReserva, TypeOK, TipoTablas, IdReserva
  <2>4. pet' \in [Servidores -> Peticion]
    BY <1>4, <2>1 DEF InsertaReserva, TypeOK, TipoProcesos, Peticion
  <2>5. TipoProcesos'
    BY <1>1, <1>4, <2>4 DEF InsertaReserva, TypeOK, TipoProcesos
  <2> QED BY <1>4, <2>3, <2>5 DEF InsertaReserva, TypeOK, TipoProcesos, Peticion
<1>5. CASE BorraReserva(s)
  <2>1. TipoTablas'
    BY <1>5 DEF BorraReserva, TypeOK, TipoTablas, Restrict
  <2> QED BY <1>1, <1>5, <2>1 DEF BorraReserva, TypeOK, TipoProcesos
<1>6. CASE CambiaReserva(s)
  <2>1. pet[s].servicio \in IdServicio \ {0}
    BY <1>6 DEF CambiaReserva, TypeOK, TipoProcesos, Peticion
  <2>2. TipoTablas'
    BY <1>6, <2>1 DEF CambiaReserva, TypeOK, TipoTablas
  <2> QED BY <1>1, <1>6, <2>2 DEF CambiaReserva, TypeOK, TipoProcesos
<1>7. CASE RegistraLog(s)
  <2>1. TipoTablas'
    BY <1>7 DEF RegistraLog, TypeOK, TipoTablas, TipoProcesos, Peticion
  <2> QED BY <1>1, <1>7, <2>1 DEF RegistraLog, TypeOK, TipoProcesos, locales
<1> QED BY <1>2, <1>3, <1>4, <1>5, <1>6, <1>7 DEF Escritura

\* A server that dies or starts touches no table.
LEMMA TipoCaidas ==
  ASSUME TypeOK, NEW s \in Servidores, Cae(s) \/ Arranca(s)
  PROVE  TypeOK'
<1>1. TipoTablas'
  BY DEF TypeOK, TipoTablas, tablas, Cae, Arranca
<1>2. CASE Cae(s)
  <2>1. SinPeticion \in Peticion
    BY IdsAssumption DEF SinPeticion, Peticion, Ops, IdUsuario, IdReserva, IdServicio
  <2> QED BY <1>1, <1>2, <2>1 DEF TypeOK, TipoProcesos, Cae, SinPeticion, Puntos, Respuestas
<1>3. CASE Arranca(s)
  BY <1>1, <1>3, VaPuntos DEF TypeOK, TipoProcesos, Arranca, Puntos, Procesos, locales
<1> QED BY <1>2, <1>3

\* The administrator's operations keep the services typed.
LEMMA TipoAdmin ==
  ASSUME TypeOK, PasoAdmin
  PROVE  TypeOK'
<1>0. /\ pc' \in [Procesos -> Puntos]
      /\ UNCHANGED <<reserva, seqReserva, bitacora, locales>>
  BY VaPuntos DEF PasoAdmin, TypeOK, TipoProcesos, Procesos, AdminElige, AdminVer, AdminBloquea,
     AdminAlta, AdminBaja, AdminCambio, AdminFalla, AdminBloqueaLog, AdminVuelve, tablas,
     Puntos, Lecturas, Escrituras, Exclusivas
<1>1. edicion' \in Edicion
  BY DEF PasoAdmin, TypeOK, TipoProcesos, AdminElige, AdminVer, AdminBloquea, AdminAlta,
     AdminBaja, AdminCambio, AdminFalla, AdminBloqueaLog, AdminVuelve, Edicion
<1>2. TipoProcesos' /\ pet' = pet
  BY <1>0, <1>1 DEF TypeOK, TipoProcesos, locales
<1>3. /\ seqServicio' \in IdServicio
      /\ DOMAIN servicio' \subseteq 1 .. seqServicio'
      /\ servicio' \in [DOMAIN servicio' -> [nombre: Nombres, capacidad: Capacidades]]
  <2> USE DEF TypeOK, TipoTablas
  <2>1. CASE AdminAlta
    <3>1. edicion.nombre \in Nombres /\ edicion.capacidad \in Capacidades
      BY <2>1 DEF AdminAlta, TipoProcesos, Edicion, SinEdicion
    <3> QED BY <2>1, <3>1, IdsAssumption DEF AdminAlta, IdServicio
  <2>2. CASE AdminBaja
    BY <2>2 DEF AdminBaja, Restrict
  <2>3. CASE AdminCambio
    <3>1. edicion.nuevo \in Nombres /\ edicion.capacidad \in Capacidades
      BY <2>3 DEF AdminCambio, TipoProcesos, Edicion, SinEdicion
    <3> QED BY <2>3, <3>1 DEF AdminCambio
  <2>4. CASE UNCHANGED tablas
    BY <2>4 DEF tablas
  <2> QED BY <2>1, <2>2, <2>3, <2>4 DEF PasoAdmin, AdminElige, AdminVer, AdminBloquea,
             AdminFalla, AdminBloqueaLog, AdminVuelve
<1> QED BY <1>0, <1>2, <1>3 DEF TypeOK, TipoTablas

\* Every step keeps the types.
LEMMA TipoCadaPaso ==
  ASSUME TypeOK, [Next]_vars
  PROVE  TypeOK'
<1>1. ASSUME NEW s \in Servidores, PasoServidor(s) PROVE TypeOK'
  BY <1>1, TipoRecepcion, TipoConsultas, TipoEscrituras, TipoCaidas
     DEF PasoServidor, PasoHandler
<1>2. CASE PasoAdmin
  BY <1>2, TipoAdmin
<1>3. CASE UNCHANGED vars
  BY <1>3 DEF vars, TypeOK, TipoTablas, TipoProcesos
<1> QED BY <1>1, <1>2, <1>3 DEF Next

\* Type correctness: only registered users own reservations, and every stored id is one
\* AUTOINCREMENT has given.
THEOREM TipoCorrecto == Spec => []TypeOK
<1>1. Init => TypeOK
  <2> SUFFICES ASSUME Init PROVE TypeOK
    OBVIOUS
  <2>1. TipoTablas
    BY IdsAssumption DEF Init, TipoTablas, TablaVacia, IdReserva, IdServicio
  <2>2. SinPeticion \in Peticion
    BY IdsAssumption DEF SinPeticion, Peticion, Ops, IdUsuario, IdReserva, IdServicio
  <2>3. TipoProcesos
    BY <2>2 DEF Init, TipoProcesos, Puntos, Respuestas, Edicion, SinEdicion
  <2> QED BY <2>1, <2>3 DEF Init, TypeOK, SinPeticion
<1>2. TypeOK /\ [Next]_vars => TypeOK'
  BY TipoCadaPaso
<1> QED BY <1>1, <1>2, PTL DEF Spec

-----------------------------------------------------------------------------
(* Ownership.                                                               *)

\* How any step may change the table of reservations: ids only grow, and a row that
\* was there keeps its user.
Evoluciona ==
  /\ seqReserva \in Nat /\ seqReserva' \in Nat /\ seqReserva <= seqReserva'
  /\ \A i \in DOMAIN reserva' :
       \/ i \in DOMAIN reserva /\ reserva'[i].usuario = reserva[i].usuario
       \/ i = seqReserva + 1 /\ seqReserva' = seqReserva + 1

\* Only the writing statement of a server touches the table of reservations.
LEMMA SoloEscritura ==
  ASSUME [Next]_vars, ~UNCHANGED <<reserva, seqReserva>>
  PROVE  \E s \in Servidores : Escritura(s)
<1>1. ASSUME NEW s \in Servidores, PasoServidor(s), ~Escritura(s)
      PROVE  UNCHANGED <<reserva, seqReserva>>
  <2>1. CASE Recepcion(s)
    BY <2>1 DEF Recepcion, RecibeCreate, RecibeGet, RecibeCancel, RecibeUpdate, Recibe, tablas
  <2>2. CASE PasoHandler(s)
    BY <1>1, <2>2 DEF PasoHandler, CompruebaPropia, CompruebaYa, LeeCapacidad, CompruebaCupo,
       Bloquea, EscrituraFalla, EnviaExito, BloqueaLog, RegistraLog, PierdeLog, AbreCursor,
       EnviaFila, CierraCursor, tablas
  <2> QED BY <1>1, <2>1, <2>2 DEF PasoServidor, Cae, Arranca, tablas
<1>2. ASSUME PasoAdmin PROVE UNCHANGED <<reserva, seqReserva>>
  BY <1>2 DEF PasoAdmin, AdminElige, AdminVer, AdminBloquea, AdminAlta, AdminBaja,
     AdminCambio, AdminFalla, AdminBloqueaLog, AdminVuelve, tablas
<1> QED BY <1>1, <1>2 DEF Next, vars

\* Every step changes the table that way.
LEMMA PasoEvoluciona ==
  ASSUME TypeOK, [Next]_vars
  PROVE  Evoluciona
<1>0. seqReserva \in Nat
  BY IdsAssumption DEF TypeOK, TipoTablas, IdReserva
<1>1. CASE UNCHANGED <<reserva, seqReserva>>
  BY <1>0, <1>1 DEF Evoluciona
<1>2. ASSUME NEW s \in Servidores, Escritura(s) PROVE Evoluciona
  <2>1. CASE InsertaReserva(s) BY <1>0, <2>1 DEF InsertaReserva, Evoluciona
  <2>2. CASE BorraReserva(s) BY <1>0, <2>2 DEF BorraReserva, Evoluciona, Restrict
  <2>3. CASE CambiaReserva(s)
    <3>1. \A i \in DOMAIN reserva : reserva'[i].usuario = reserva[i].usuario
      BY <2>3 DEF CambiaReserva, TypeOK, TipoTablas
    <3> QED BY <1>0, <2>3, <3>1 DEF CambiaReserva, Evoluciona
  <2> QED BY <1>2, <2>1, <2>2, <2>3 DEF Escritura
<1> QED BY <1>1, <1>2, SoloEscritura

\* A server that does not take the step keeps what it knows.
LEMMA OtroConserva ==
  ASSUME TypeOK, Evoluciona, NEW t \in Servidores, PropiedadDe(t),
         pc'[t] = pc[t], pet'[t] = pet[t], resp'[t] = resp[t]
  PROVE  PropiedadDe(t)'
<1>1. DOMAIN reserva \subseteq 1 .. seqReserva
  BY DEF TypeOK, TipoTablas
<1>2. pet[t].reserva \in Nat
  BY IdsAssumption DEF TypeOK, TipoProcesos, Peticion, IdReserva
<1>3. Comprobada(t)' <=> Comprobada(t)
  BY DEF Comprobada
<1>4. Suya(t) => Suya(t)'
  BY <1>1, <1>2 DEF Suya, Evoluciona
<1>5. pet[t].op = "CANCEL" /\ (pc[t] = "contesta" \/ resp[t] = "CANCELADA")
        => pet[t].reserva \in 1 .. seqReserva
  BY DEF PropiedadDe, Comprobada, Suya
<1> QED BY <1>1, <1>2, <1>3, <1>4, <1>5 DEF PropiedadDe, Evoluciona

\* The server that takes the step knows what it needs after it.
LEMMA PropioConserva ==
  ASSUME TypeOK, Evoluciona, NEW s \in Servidores, PropiedadDe(s), PasoServidor(s)
  PROVE  PropiedadDe(s)'
<1>0. /\ DOMAIN reserva \subseteq 1 .. seqReserva
      /\ pet \in [Servidores -> Peticion] /\ resp \in [Servidores -> Respuestas]
      /\ pc \in [Procesos -> Puntos] /\ s \in Procesos
  BY DEF TypeOK, TipoTablas, TipoProcesos, Procesos
<1>a. pet[s].reserva \in Nat /\ seqReserva \in Nat
  BY <1>0, IdsAssumption DEF Peticion, IdReserva, Evoluciona
<1>b. ASSUME NEW d, NEW r, Termina(s, d, r), r \notin {"OK", "CANCELADA"}
      PROVE  PropiedadDe(s)'
  BY <1>0, <1>b DEF Termina, Contesta, Va, PropiedadDe, Comprobada, SinPeticion
<1>c. ASSUME UNCHANGED <<reserva, seqReserva>> PROVE Suya(s) /\ pet'[s] = pet[s] => Suya(s)'
  BY <1>c DEF Suya
<1>1. CASE Recepcion(s)
  <2>1. ASSUME NEW p, NEW v, NEW h \in {"ya", "abre", "propia"}, Recibe(s, p, v, h),
               h = "ya" => p.op = "CREATE", h = "propia" => p.op \in {"CANCEL", "UPDATE"}
        PROVE  PropiedadDe(s)'
    <3>1. CASE v
      <4>1. pc'[s] = h /\ pet'[s] = p /\ resp'[s] = "NADA"
        BY <1>0, <2>1, <3>1 DEF Recibe, Contesta, Va
      <4> QED BY <2>1, <4>1 DEF PropiedadDe, Comprobada
    <3>2. CASE ~v BY <1>b, <2>1, <3>2 DEF Recibe
    <3> QED BY <3>1, <3>2
  <2>2. CASE RecibeCreate(s) BY <2>1, <2>2 DEF RecibeCreate
  <2>3. CASE RecibeGet(s) BY <2>1, <2>3 DEF RecibeGet
  <2>4. CASE RecibeCancel(s) BY <2>1, <2>4 DEF RecibeCancel
  <2>5. CASE RecibeUpdate(s) BY <2>1, <2>5 DEF RecibeUpdate
  <2> QED BY <1>1, <2>2, <2>3, <2>4, <2>5 DEF Recepcion
<1>2. CASE CompruebaPropia(s)
  <2>1. CASE es_propia(s, pet[s].reserva, pet[s].usuario)
    <3>1. Suya(s)
      BY <1>0, <2>1 DEF es_propia, Suya
    <3>2. /\ pet'[s] = pet[s] /\ resp'[s] = resp[s] /\ UNCHANGED <<reserva, seqReserva>>
          /\ pc[s] = "propia"
          /\ pc'[s] = IF pet[s].op = "CANCEL" THEN "escribe" ELSE "ya"
      BY <1>0, <1>2, <2>1 DEF CompruebaPropia, Sigue, Va, tablas
    <3> QED BY <1>c, <3>1, <3>2 DEF PropiedadDe
  <2>2. CASE ~es_propia(s, pet[s].reserva, pet[s].usuario)
    BY <1>2, <1>b, <2>2 DEF CompruebaPropia
  <2> QED BY <2>1, <2>2
<1>3. CASE CompruebaYa(s) \/ LeeCapacidad(s) \/ CompruebaCupo(s)
  <2>1. CASE \E d, r : Termina(s, d, r) /\ r \notin {"OK", "CANCELADA"}
    BY <1>b, <2>1
  <2>2. CASE /\ pc[s] \in {"ya", "capacidad", "ocupadas"}
             /\ pc'[s] \in {"capacidad", "ocupadas", "escribe"}
             /\ pet'[s] = pet[s] /\ resp'[s] = resp[s] /\ UNCHANGED <<reserva, seqReserva>>
    BY <1>c, <2>2 DEF PropiedadDe, Comprobada
  <2> QED BY <1>0, <1>3, <2>1, <2>2 DEF CompruebaYa, LeeCapacidad, CompruebaCupo, Sigue, Va, tablas
<1>4. CASE Bloquea(s) \/ BloqueaLog(s) \/ RegistraLog(s) \/ PierdeLog(s)
  <2>1. /\ pet' = pet /\ resp' = resp /\ UNCHANGED <<reserva, seqReserva>>
        /\ \/ pc[s] = "escribe" /\ pc'[s] = "confirma"
           \/ pc'[s] \in {"anota", "espera"}
    BY <1>0, <1>4 DEF Bloquea, BloqueaLog, RegistraLog, PierdeLog, Va, tablas, locales
  <2> QED BY <1>c, <2>1 DEF PropiedadDe, Comprobada
<1>5. CASE InsertaReserva(s)
  <2>1. /\ pc'[s] = "contesta" /\ resp' = resp /\ seqReserva' = seqReserva + 1
        /\ pet'[s].reserva = seqReserva' /\ pet'[s].op = "CREATE"
        /\ pet'[s].usuario = pet[s].usuario /\ reserva'[seqReserva'].usuario = pet[s].usuario
    BY <1>0, <1>5 DEF InsertaReserva, Va, Peticion
  <2>2. resp[s] # "CANCELADA"
    BY <1>5 DEF InsertaReserva, PropiedadDe
  <2> QED BY <1>a, <2>1, <2>2 DEF PropiedadDe, Suya
<1>6. CASE BorraReserva(s)
  <2>1. /\ pc[s] = "confirma" /\ pc'[s] = "contesta" /\ pet[s].op = "CANCEL"
        /\ pet' = pet /\ resp' = resp /\ seqReserva' = seqReserva
        /\ pet[s].reserva \notin DOMAIN reserva'
    BY <1>0, <1>6 DEF BorraReserva, Va, Restrict
  <2> QED BY <2>1 DEF PropiedadDe, Comprobada, Suya
<1>7. CASE CambiaReserva(s)
  <2>1. /\ pc[s] = "confirma" /\ pc'[s] = "contesta" /\ pet[s].op = "UPDATE"
        /\ pet' = pet /\ resp' = resp /\ seqReserva' = seqReserva
        /\ DOMAIN reserva' = DOMAIN reserva
    BY <1>0, <1>7 DEF CambiaReserva, Va
  <2>2. Suya(s)
    BY <2>1 DEF PropiedadDe, Comprobada
  <2>3. Suya(s)'
    BY <1>a, <2>1, <2>2, <1>0 DEF Suya, Evoluciona
  <2> QED BY <2>1, <2>3 DEF PropiedadDe
<1>8. CASE EscrituraFalla(s) \/ EnviaExito(s)
  <2>1. /\ pc'[s] = "bitacora" /\ pet' = pet /\ UNCHANGED <<reserva, seqReserva>>
        /\ \/ resp'[s] \notin {"OK", "CANCELADA"}
           \/ /\ pc[s] = "contesta"
              /\ resp'[s] = IF pet[s].op = "CANCEL" THEN "CANCELADA" ELSE "OK"
    BY <1>0, <1>8 DEF EscrituraFalla, EnviaExito, Contesta, Va, tablas
  <2> QED BY <1>c, <2>1 DEF PropiedadDe, Comprobada
<1>9. CASE AbreCursor(s) \/ EnviaFila(s) \/ CierraCursor(s)
  <2>1. CASE \E d, r : Termina(s, d, r) /\ r \notin {"OK", "CANCELADA"}
    BY <1>b, <2>1
  <2>2. CASE /\ pc'[s] = "filas" /\ pet' = pet /\ resp' = resp
             /\ UNCHANGED <<reserva, seqReserva>>
    BY <1>c, <2>2 DEF PropiedadDe, Comprobada
  <2> QED BY <1>0, <1>9, <2>1, <2>2 DEF AbreCursor, EnviaFila, CierraCursor, Sigue, Va, tablas
<1>10. CASE Cae(s)
  BY <1>0, <1>10 DEF Cae, PropiedadDe, Comprobada, SinPeticion
<1>11. CASE Arranca(s)
  <2>1. /\ pc'[s] = "espera" /\ pet' = pet /\ resp' = resp /\ UNCHANGED <<reserva, seqReserva>>
    BY <1>0, <1>11 DEF Arranca, Va, tablas, locales
  <2> QED BY <1>c, <2>1 DEF PropiedadDe, Comprobada
<1> QED BY <1>1, <1>2, <1>3, <1>4, <1>5, <1>6, <1>7, <1>8, <1>9, <1>10, <1>11
        DEF PasoServidor, PasoHandler, Escritura

\* A step of one process leaves the handlers of the others alone.
LEMMA SoloElActor ==
  ASSUME TypeOK, Next
  PROVE  \/ \E s \in Servidores :
              /\ PasoServidor(s)
              /\ \A t \in Servidores \ {s} :
                   pc'[t] = pc[t] /\ pet'[t] = pet[t] /\ resp'[t] = resp[t]
         \/ \A t \in Servidores : pc'[t] = pc[t] /\ pet'[t] = pet[t] /\ resp'[t] = resp[t]
<1>0. /\ pet \in [Servidores -> Peticion] /\ resp \in [Servidores -> Respuestas]
      /\ pc \in [Procesos -> Puntos] /\ Servidores \subseteq Procesos
  BY DEF TypeOK, TipoProcesos, Procesos
<1>1. ASSUME NEW s \in Servidores, PasoServidor(s), NEW t \in Servidores \ {s}
      PROVE  pc'[t] = pc[t] /\ pet'[t] = pet[t] /\ resp'[t] = resp[t]
  <2>1. CASE Recepcion(s)
    BY <1>0, <1>1, <2>1 DEF Recepcion, RecibeCreate, RecibeGet, RecibeCancel, RecibeUpdate,
       Recibe, Termina, Contesta, Va
  <2>2. CASE CompruebaPropia(s) \/ CompruebaYa(s) \/ LeeCapacidad(s) \/ CompruebaCupo(s)
    BY <1>0, <1>1, <2>2 DEF CompruebaPropia, CompruebaYa, LeeCapacidad, CompruebaCupo,
       Sigue, Termina, Contesta, Va
  <2>3. CASE Bloquea(s) \/ Escritura(s) \/ EscrituraFalla(s) \/ EnviaExito(s)
    BY <1>0, <1>1, <2>3 DEF Bloquea, Escritura, InsertaReserva, BorraReserva, CambiaReserva,
       EscrituraFalla, EnviaExito, Contesta, Va, locales
  <2>4. CASE BloqueaLog(s) \/ RegistraLog(s) \/ PierdeLog(s)
    BY <1>0, <1>1, <2>4 DEF BloqueaLog, RegistraLog, PierdeLog, Va, locales
  <2>5. CASE AbreCursor(s) \/ EnviaFila(s) \/ CierraCursor(s)
    BY <1>0, <1>1, <2>5 DEF AbreCursor, EnviaFila, CierraCursor, Sigue, Termina, Contesta, Va
  <2>6. CASE Cae(s) \/ Arranca(s)
    BY <1>0, <1>1, <2>6 DEF Cae, Arranca, Va, locales
  <2> QED BY <1>1, <2>1, <2>2, <2>3, <2>4, <2>5, <2>6 DEF PasoServidor, PasoHandler
<1>2. ASSUME PasoAdmin, NEW t \in Servidores
      PROVE  pc'[t] = pc[t] /\ pet'[t] = pet[t] /\ resp'[t] = resp[t]
  BY <1>0, <1>2, ServidoresAssumption DEF PasoAdmin, AdminElige, AdminVer, AdminBloquea,
     AdminAlta, AdminBaja, AdminCambio, AdminFalla, AdminBloqueaLog, AdminVuelve, Va, locales
<1> QED BY <1>1, <1>2 DEF Next

\* The log only grows, by entries about what the handler that writes it has just done.
LEMMA BitacoraCrece ==
  ASSUME TypeOK, [Next]_vars, NEW e \in bitacora' \ bitacora
  PROVE  \E s \in Servidores :
           /\ resp[s] \in {"OK", "CANCELADA"}
           /\ e = [op |-> pet[s].op, usuario |-> pet[s].usuario, reserva |-> pet[s].reserva]
           /\ reserva' = reserva /\ seqReserva' = seqReserva
<1>1. CASE UNCHANGED bitacora
  BY <1>1
<1>2. ASSUME NEW s \in Servidores, RegistraLog(s)
      PROVE  /\ resp[s] \in {"OK", "CANCELADA"}
             /\ e = [op |-> pet[s].op, usuario |-> pet[s].usuario, reserva |-> pet[s].reserva]
             /\ reserva' = reserva /\ seqReserva' = seqReserva
  BY <1>2 DEF RegistraLog
<1>3. ASSUME NEW s \in Servidores, PasoServidor(s), ~RegistraLog(s)
      PROVE  UNCHANGED bitacora
  <2>1. CASE Recepcion(s)
    BY <2>1 DEF Recepcion, RecibeCreate, RecibeGet, RecibeCancel, RecibeUpdate, Recibe, tablas
  <2>2. CASE PasoHandler(s)
    BY <1>3, <2>2 DEF PasoHandler, CompruebaPropia, CompruebaYa, LeeCapacidad, CompruebaCupo,
       Bloquea, Escritura, InsertaReserva, BorraReserva, CambiaReserva, EscrituraFalla,
       EnviaExito, BloqueaLog, PierdeLog, AbreCursor, EnviaFila, CierraCursor, tablas
  <2> QED BY <1>3, <2>1, <2>2 DEF PasoServidor, Cae, Arranca, tablas
<1>4. CASE PasoAdmin
  BY <1>1, <1>4 DEF PasoAdmin, AdminElige, AdminVer, AdminBloquea, AdminAlta, AdminBaja,
     AdminCambio, AdminFalla, AdminBloqueaLog, AdminVuelve, tablas
<1> QED BY <1>1, <1>2, <1>3, <1>4 DEF Next, vars

\* Ownership is an invariant.
THEOREM PropiedadCorrecta == Spec => []PropiedadInv
<1>1. Init => PropiedadInv
  BY DEF Init, PropiedadInv, PropiedadDe, Comprobada, SinPeticion, BitacoraCierta, Procesos
<1>2. TypeOK /\ PropiedadInv /\ [Next]_vars => PropiedadInv'
  <2> SUFFICES ASSUME TypeOK, PropiedadInv, [Next]_vars
               PROVE  PropiedadInv'
    OBVIOUS
  <2>0. Evoluciona
    BY PasoEvoluciona
  <2>1. ASSUME NEW s \in Servidores PROVE PropiedadDe(s)'
    <3>1. PropiedadDe(s)
      BY DEF PropiedadInv
    <3>2. CASE Next
      BY <2>0, <3>1, <3>2, SoloElActor, PropioConserva, OtroConserva
    <3>3. CASE UNCHANGED vars
      BY <2>0, <3>1, <3>3, OtroConserva DEF vars
    <3> QED BY <3>2, <3>3
  <2>2. ASSUME NEW e \in bitacora'
        PROVE  /\ e.reserva \in 1 .. seqReserva'
               /\ e.op = "CANCEL" => e.reserva \notin DOMAIN reserva'
               /\ e.reserva \in DOMAIN reserva' => reserva'[e.reserva].usuario = e.usuario
    <3>1. CASE e \in bitacora
      <4>1. /\ e.reserva \in 1 .. seqReserva
            /\ e.op = "CANCEL" => e.reserva \notin DOMAIN reserva
            /\ e.reserva \in DOMAIN reserva => reserva[e.reserva].usuario = e.usuario
        BY <3>1 DEF PropiedadInv, BitacoraCierta
      <4> QED BY <2>0, <4>1 DEF Evoluciona
    <3>2. CASE e \notin bitacora
      <4>1. PICK s \in Servidores :
              /\ resp[s] \in {"OK", "CANCELADA"}
              /\ e = [op |-> pet[s].op, usuario |-> pet[s].usuario, reserva |-> pet[s].reserva]
              /\ reserva' = reserva /\ seqReserva' = seqReserva
        BY <3>2, BitacoraCrece
      <4>2. PropiedadDe(s)
        BY DEF PropiedadInv
      <4> QED BY <4>1, <4>2 DEF PropiedadDe, Comprobada, Suya
    <3> QED BY <3>1, <3>2
  <2> QED BY <2>1, <2>2 DEF PropiedadInv, BitacoraCierta
<1> QED BY <1>1, <1>2, TipoCorrecto, PTL DEF Spec

\* What a server has told its client stays true.
THEOREM RespuestaEsCierta == Spec => []RespuestaCierta
<1>1. PropiedadInv => RespuestaCierta
  BY DEF PropiedadInv, PropiedadDe, Comprobada, Suya, RespuestaCierta
<1> QED BY <1>1, PropiedadCorrecta, PTL

\* Every entry of the log stays true of the tables.
THEOREM BitacoraEsCierta == Spec => []BitacoraCierta
<1>1. PropiedadInv => BitacoraCierta
  BY DEF PropiedadInv
<1> QED BY <1>1, PropiedadCorrecta, PTL

\* Only a request of its owner changes or removes a reservation, and none gives it away.
THEOREM SoloElDuenoModifica == Spec => SoloElDueno
<1>1. ASSUME TypeOK, PropiedadInv, [Next]_vars, NEW i \in DOMAIN reserva,
             i \notin DOMAIN reserva' \/ reserva'[i] # reserva[i]
      PROVE  /\ \E s \in Servidores : /\ pc[s] = "confirma" /\ pc'[s] = "contesta"
                                      /\ pet[s].op \in {"CANCEL", "UPDATE"}
                                      /\ pet[s].reserva = i
                                      /\ pet[s].usuario = reserva[i].usuario
             /\ i \in DOMAIN reserva' => reserva'[i].usuario = reserva[i].usuario
  <2>0. Evoluciona /\ seqReserva \in Nat /\ i \in 1 .. seqReserva
    BY <1>1, PasoEvoluciona DEF TypeOK, TipoTablas, Evoluciona
  <2>1. \E s \in Servidores : Escritura(s)
    BY <1>1, SoloEscritura
  <2>2. PICK s \in Servidores : BorraReserva(s) \/ CambiaReserva(s)
    BY <1>1, <2>0, <2>1 DEF Escritura, InsertaReserva
  <2>3. /\ pc[s] = "confirma" /\ pc'[s] = "contesta"
        /\ pet[s].op \in {"CANCEL", "UPDATE"} /\ pet[s].reserva = i
    BY <1>1, <2>2 DEF BorraReserva, CambiaReserva, Va, TypeOK, TipoProcesos, Procesos, Restrict
  <2>4. pet[s].usuario = reserva[i].usuario
    BY <1>1, <2>3 DEF PropiedadInv, PropiedadDe, Comprobada, Suya
  <2> QED BY <1>1, <2>0, <2>3, <2>4 DEF Evoluciona
<1>2. TypeOK /\ PropiedadInv /\ [Next]_vars =>
        [\A i \in DOMAIN reserva :
           i \notin DOMAIN reserva' \/ reserva'[i] # reserva[i] =>
             /\ \E s \in Servidores : /\ pc[s] = "confirma" /\ pc'[s] = "contesta"
                                      /\ pet[s].op \in {"CANCEL", "UPDATE"}
                                      /\ pet[s].reserva = i
                                      /\ pet[s].usuario = reserva[i].usuario
             /\ i \in DOMAIN reserva' => reserva'[i].usuario = reserva[i].usuario]_vars
  BY <1>1
<1> QED BY <1>2, TipoCorrecto, PropiedadCorrecta, PTL DEF Spec, SoloElDueno

-----------------------------------------------------------------------------
(* Services that come and go.                                               *)

\* When a handler is about to write a service into a row.
Escribira(s) == /\ pet[s].op \in {"CREATE", "UPDATE"}
                /\ \/ pc[s] \in {"escribe", "confirma"}
                   \/ pc[s] = "ocupadas" /\ capacidad[s] >= 0

\* The servers never write the services.
LEMMA ServicioDelAdmin ==
  ASSUME NEW s \in Servidores, PasoServidor(s)
  PROVE  UNCHANGED <<servicio, seqServicio>>
<1>1. CASE Recepcion(s)
  BY <1>1 DEF Recepcion, RecibeCreate, RecibeGet, RecibeCancel, RecibeUpdate, Recibe, tablas
<1>2. CASE PasoHandler(s)
  BY <1>2 DEF PasoHandler, CompruebaPropia, CompruebaYa, LeeCapacidad, CompruebaCupo,
     Bloquea, Escritura, InsertaReserva, BorraReserva, CambiaReserva, EscrituraFalla,
     EnviaExito, BloqueaLog, RegistraLog, PierdeLog, AbreCursor, EnviaFila, CierraCursor, tablas
<1> QED BY <1>1, <1>2 DEF PasoServidor, Cae, Arranca, tablas

\* Ids of services only grow, and a new service has the id that comes next.
LEMMA ServiciosCrecen ==
  ASSUME TypeOK, [Next]_vars
  PROVE  /\ seqServicio \in Nat /\ seqServicio' \in Nat /\ seqServicio <= seqServicio'
         /\ \A v \in DOMAIN servicio' \ DOMAIN servicio :
              v = seqServicio + 1 /\ reserva' = reserva
<1>0. seqServicio \in Nat
  BY IdsAssumption DEF TypeOK, TipoTablas, IdServicio
<1>1. CASE UNCHANGED <<servicio, seqServicio>>
  BY <1>0, <1>1
<1>2. ASSUME NEW s \in Servidores, PasoServidor(s) PROVE UNCHANGED <<servicio, seqServicio>>
  BY <1>2, ServicioDelAdmin
<1>3. CASE PasoAdmin
  <2>1. CASE AdminAlta BY <1>0, <2>1 DEF AdminAlta
  <2>2. CASE AdminBaja BY <1>0, <2>2 DEF AdminBaja, Restrict
  <2>3. CASE AdminCambio BY <1>0, <2>3 DEF AdminCambio
  <2>4. CASE UNCHANGED tablas BY <1>1, <2>4 DEF tablas
  <2> QED BY <1>3, <2>1, <2>2, <2>3, <2>4 DEF PasoAdmin, AdminElige, AdminVer, AdminBloquea,
             AdminFalla, AdminBloqueaLog, AdminVuelve
<1> QED BY <1>1, <1>2, <1>3 DEF Next, vars

\* A handler comes to write a service only from the query that found it.
LEMMA EscribiraConoce ==
  ASSUME TypeOK, ServicioInv, Next, NEW t \in Servidores, Escribira(t)'
  PROVE  pet'[t].servicio <= seqServicio
<1>0. /\ pet \in [Servidores -> Peticion] /\ resp \in [Servidores -> Respuestas]
      /\ pc \in [Procesos -> Puntos] /\ Servidores \subseteq Procesos
      /\ capacidad \in [Servidores -> Capacidades \cup {-1}]
      /\ DOMAIN servicio \subseteq 1 .. seqServicio
  BY DEF TypeOK, TipoTablas, TipoProcesos, Procesos
<1>1. CASE /\ pc'[t] = pc[t] /\ pet'[t] = pet[t] /\ capacidad'[t] = capacidad[t]
  BY <1>1 DEF Escribira, ServicioInv
<1>2. CASE PasoServidor(t)
  <2>1. CASE Recepcion(t)
    <3>1. pc'[t] \notin {"escribe", "confirma", "ocupadas"}
      BY <1>0, <2>1 DEF Recepcion, RecibeCreate, RecibeGet, RecibeCancel, RecibeUpdate,
         Recibe, Termina, Contesta, Va
    <3> QED BY <3>1 DEF Escribira
  <2>2. CASE CompruebaPropia(t)
    <3>1. \/ pc'[t] \notin {"escribe", "confirma", "ocupadas"}
          \/ pet'[t].op = "CANCEL"
      BY <1>0, <2>2 DEF CompruebaPropia, Sigue, Termina, Contesta, Va
    <3> QED BY <3>1 DEF Escribira
  <2>3. CASE LeeCapacidad(t)
    <3>1. pet' = pet /\ pc'[t] = "ocupadas"
          /\ capacidad'[t] = get_capacidad_max(t, pet[t].servicio)
      BY <1>0, <2>3 DEF LeeCapacidad, Va
    <3>2. pet[t].servicio \in DOMAIN servicio
      BY <3>1 DEF Escribira, get_capacidad_max
    <3> QED BY <1>0, <3>1, <3>2
  <2>4. CASE CompruebaCupo(t)
    <3>1. \/ pc'[t] = "espera"
          \/ /\ pet' = pet /\ pc[t] = "ocupadas" /\ capacidad[t] >= 0
      BY <1>0, <2>4 DEF CompruebaCupo, HayCupo, Termina, Contesta, Va
    <3> QED BY <3>1 DEF Escribira, ServicioInv
  <2>5. CASE Bloquea(t)
    <3>1. pet' = pet /\ pc[t] = "escribe"
      BY <2>5 DEF Bloquea, Va, locales
    <3> QED BY <3>1 DEF Escribira, ServicioInv
  <2>6. CASE \/ CompruebaYa(t) \/ Escritura(t) \/ EscrituraFalla(t) \/ EnviaExito(t)
             \/ BloqueaLog(t) \/ RegistraLog(t) \/ PierdeLog(t)
             \/ AbreCursor(t) \/ CierraCursor(t) \/ Cae(t) \/ Arranca(t)
    <3>1. pc'[t] \notin {"escribe", "confirma", "ocupadas"}
      BY <1>0, <2>6 DEF CompruebaYa, Escritura, InsertaReserva, BorraReserva, CambiaReserva,
         EscrituraFalla, EnviaExito, BloqueaLog, RegistraLog, PierdeLog, AbreCursor,
         CierraCursor, Cae, Arranca, Sigue, Termina, Contesta, Va
    <3> QED BY <3>1 DEF Escribira
  <2>7. CASE EnviaFila(t)
    BY <1>1, <2>7 DEF EnviaFila
  <2> QED BY <1>2, <2>1, <2>2, <2>3, <2>4, <2>5, <2>6, <2>7 DEF PasoServidor, PasoHandler
<1>3. ASSUME NEW s \in Servidores \ {t}, PasoServidor(s)
      PROVE  pc'[t] = pc[t] /\ pet'[t] = pet[t] /\ capacidad'[t] = capacidad[t]
  <2>1. CASE Recepcion(s)
    BY <1>0, <1>3, <2>1 DEF Recepcion, RecibeCreate, RecibeGet, RecibeCancel, RecibeUpdate,
       Recibe, Termina, Contesta, Va
  <2>2. CASE CompruebaPropia(s) \/ CompruebaYa(s) \/ LeeCapacidad(s) \/ CompruebaCupo(s)
    BY <1>0, <1>3, <2>2 DEF CompruebaPropia, CompruebaYa, LeeCapacidad, CompruebaCupo,
       Sigue, Termina, Contesta, Va
  <2>3. CASE Bloquea(s) \/ Escritura(s) \/ EscrituraFalla(s) \/ EnviaExito(s)
    BY <1>0, <1>3, <2>3 DEF Bloquea, Escritura, InsertaReserva, BorraReserva, CambiaReserva,
       EscrituraFalla, EnviaExito, Contesta, Va, locales
  <2>4. CASE \/ BloqueaLog(s) \/ RegistraLog(s) \/ PierdeLog(s)
             \/ AbreCursor(s) \/ EnviaFila(s) \/ CierraCursor(s)
    BY <1>0, <1>3, <2>4 DEF BloqueaLog, RegistraLog, PierdeLog, AbreCursor, EnviaFila,
       CierraCursor, Sigue, Termina, Contesta, Va, locales
  <2>5. CASE Cae(s) \/ Arranca(s)
    BY <1>0, <1>3, <2>5 DEF Cae, Arranca, Va, locales
  <2> QED BY <1>3, <2>1, <2>2, <2>3, <2>4, <2>5 DEF PasoServidor, PasoHandler
<1>4. ASSUME PasoAdmin
      PROVE  pc'[t] = pc[t] /\ pet'[t] = pet[t] /\ capacidad'[t] = capacidad[t]
  BY <1>0, <1>4, ServidoresAssumption DEF PasoAdmin, AdminElige, AdminVer, AdminBloquea,
     AdminAlta, AdminBaja, AdminCambio, AdminFalla, AdminBloqueaLog, AdminVuelve, Va, locales
<1> QED BY <1>1, <1>2, <1>3, <1>4 DEF Next

\* No row, and no row about to be written, names a service that does not exist yet.
LEMMA ServicioConocido == Spec => []ServicioInv
<1>1. Init => ServicioInv
  BY DEF Init, ServicioInv, TablaVacia, SinPeticion
<1>2. TypeOK /\ ServicioInv /\ [Next]_vars => ServicioInv'
  <2> SUFFICES ASSUME TypeOK, ServicioInv, [Next]_vars
               PROVE  ServicioInv'
    OBVIOUS
  <2>0. /\ seqServicio \in Nat /\ seqServicio' \in Nat /\ seqServicio <= seqServicio'
    BY ServiciosCrecen
  <2>1. ASSUME NEW i \in DOMAIN reserva' PROVE reserva'[i].servicio <= seqServicio
    <3>1. CASE UNCHANGED reserva
      BY <2>1, <3>1 DEF ServicioInv
    <3>2. CASE ~UNCHANGED reserva
      <4>1. PICK s \in Servidores : Escritura(s)
        BY <3>2, SoloEscritura
      <4>2. \/ i \in DOMAIN reserva /\ reserva'[i].servicio = reserva[i].servicio
            \/ Escribira(s) /\ reserva'[i].servicio = pet[s].servicio
        <5>1. CASE InsertaReserva(s)
          BY <2>1, <5>1 DEF InsertaReserva, Escribira, Va, TypeOK, TipoTablas
        <5>2. CASE BorraReserva(s)
          BY <2>1, <5>2 DEF BorraReserva, Restrict
        <5>3. CASE CambiaReserva(s)
          BY <2>1, <5>3 DEF CambiaReserva, Escribira, Va, TypeOK, TipoTablas
        <5> QED BY <4>1, <5>1, <5>2, <5>3 DEF Escritura
      <4> QED BY <4>2 DEF ServicioInv, Escribira
    <3> QED BY <3>1, <3>2
  <2>2. ASSUME NEW t \in Servidores, Escribira(t)' PROVE pet'[t].servicio <= seqServicio
    <3>1. CASE Next BY <2>2, <3>1, EscribiraConoce
    <3>2. CASE UNCHANGED vars BY <2>2, <3>2 DEF vars, ServicioInv, Escribira
    <3> QED BY <3>1, <3>2
  <2>3. /\ \A i \in DOMAIN reserva' : reserva'[i].servicio \in Nat
        /\ \A t \in Servidores : pet'[t].servicio \in Nat
    <3>1. TypeOK'
      BY TipoCadaPaso
    <3> QED BY <3>1, IdsAssumption DEF TypeOK, TipoTablas, TipoProcesos, Peticion, IdServicio
  <2> QED BY <2>0, <2>1, <2>2, <2>3 DEF ServicioInv, Escribira
<1> QED BY <1>1, <1>2, TipoCorrecto, PTL DEF Spec

\* A service that is added starts with no reservations.
THEOREM NadieHereda == Spec => SinHerencia
<1>1. ASSUME TypeOK, ServicioInv, [Next]_vars,
             NEW v \in DOMAIN servicio' \ DOMAIN servicio, NEW i \in DOMAIN reserva'
      PROVE  reserva'[i].servicio # v
  <2>1. v = seqServicio + 1 /\ reserva' = reserva /\ seqServicio \in Nat
    BY <1>1, ServiciosCrecen
  <2>2. reserva[i].servicio <= seqServicio
    BY <1>1, <2>1 DEF ServicioInv
  <2> QED BY <2>1, <2>2
<1>2. TypeOK /\ ServicioInv /\ [Next]_vars =>
        [\A v \in DOMAIN servicio' \ DOMAIN servicio :
           \A i \in DOMAIN reserva' : reserva'[i].servicio # v]_vars
  BY <1>1
<1> QED BY <1>2, TipoCorrecto, ServicioConocido, PTL DEF Spec, SinHerencia

-----------------------------------------------------------------------------
(* Locks and lists.                                                         *)

\* A server that comes to commit found nobody committing and no cursor open; one that
\* opens a cursor found nobody committing.  No other process moves with it.
LEMMA CerrojoServidor ==
  ASSUME TypeOK, NEW s \in Servidores, PasoServidor(s)
  PROVE  /\ \A q \in Procesos \ {s} : pc'[q] = pc[q]
         /\ pc'[s] \in Exclusivas => ~Bloqueada(s) \/ pc[s] \in Exclusivas
         /\ pc'[s] = "filas" => ~LecturaOcupada(s) \/ pc[s] = "filas"
<1> USE DEF Exclusivas
<1>0. pc \in [Procesos -> Puntos] /\ Servidores \subseteq Procesos /\ Admin \in Procesos
  BY DEF TypeOK, TipoProcesos, Procesos
<1>1. CASE Recepcion(s)
  BY <1>0, <1>1 DEF Recepcion, RecibeCreate, RecibeGet, RecibeCancel, RecibeUpdate,
     Recibe, Termina, Contesta, Va
<1>2. CASE CompruebaPropia(s) \/ CompruebaYa(s) \/ LeeCapacidad(s) \/ CompruebaCupo(s)
  BY <1>0, <1>2 DEF CompruebaPropia, CompruebaYa, LeeCapacidad, CompruebaCupo,
     Sigue, Termina, Contesta, Va
<1>3. CASE Bloquea(s) \/ Escritura(s) \/ EscrituraFalla(s) \/ EnviaExito(s)
  BY <1>0, <1>3 DEF Bloquea, Escritura, InsertaReserva, BorraReserva, CambiaReserva,
     EscrituraFalla, EnviaExito, Contesta, Va
<1>4. CASE BloqueaLog(s) \/ RegistraLog(s) \/ PierdeLog(s)
  BY <1>0, <1>4 DEF BloqueaLog, RegistraLog, PierdeLog, Va
<1>5. CASE AbreCursor(s) \/ EnviaFila(s) \/ CierraCursor(s)
  BY <1>0, <1>5 DEF AbreCursor, EnviaFila, CierraCursor, Sigue, Termina, Contesta, Va
<1>6. CASE Cae(s) \/ Arranca(s)
  BY <1>0, <1>6 DEF Cae, Arranca, Va
<1> QED BY <1>1, <1>2, <1>3, <1>4, <1>5, <1>6 DEF PasoServidor, PasoHandler

\* Whoever comes to commit found nobody committing and no cursor open; whoever opens a
\* cursor found nobody committing.
LEMMA CerrojoPaso ==
  ASSUME TypeOK, Next
  PROVE  \E p \in Procesos :
           /\ \A q \in Procesos \ {p} : pc'[q] = pc[q]
           /\ pc'[p] \in Exclusivas => ~Bloqueada(p) \/ pc[p] \in Exclusivas
           /\ pc'[p] = "filas" => ~LecturaOcupada(p) \/ pc[p] = "filas"
<1> USE DEF Exclusivas
<1>0. pc \in [Procesos -> Puntos] /\ Servidores \subseteq Procesos /\ Admin \in Procesos
  BY DEF TypeOK, TipoProcesos, Procesos
<1>1. ASSUME NEW s \in Servidores, PasoServidor(s)
      PROVE  /\ \A q \in Procesos \ {s} : pc'[q] = pc[q]
             /\ pc'[s] \in Exclusivas => ~Bloqueada(s) \/ pc[s] \in Exclusivas
             /\ pc'[s] = "filas" => ~LecturaOcupada(s) \/ pc[s] = "filas"
  BY <1>1, CerrojoServidor
<1>2. ASSUME PasoAdmin
      PROVE  /\ \A q \in Procesos \ {Admin} : pc'[q] = pc[q]
             /\ pc'[Admin] \in Exclusivas => ~Bloqueada(Admin) \/ pc[Admin] \in Exclusivas
             /\ pc'[Admin] # "filas"
  BY <1>0, <1>2 DEF PasoAdmin, AdminElige, AdminVer, AdminBloquea, AdminAlta, AdminBaja,
     AdminCambio, AdminFalla, AdminBloqueaLog, AdminVuelve, Va
<1> QED BY <1>0, <1>1, <1>2 DEF Next

\* The tables change only in a process that commits.
LEMMA TablasConCerrojo ==
  ASSUME TypeOK, Next
  PROVE  \/ UNCHANGED <<reserva, servicio>>
         \/ \E p \in Procesos : pc[p] = "confirma" /\ pc'[p] # "confirma"
<1>0. pc \in [Procesos -> Puntos] /\ Servidores \subseteq Procesos /\ Admin \in Procesos
  BY DEF TypeOK, TipoProcesos, Procesos
<1>1. ASSUME NEW s \in Servidores, PasoServidor(s)
      PROVE  \/ UNCHANGED <<reserva, servicio>>
             \/ pc[s] = "confirma" /\ pc'[s] # "confirma"
  <2>1. CASE Recepcion(s)
    BY <2>1 DEF Recepcion, RecibeCreate, RecibeGet, RecibeCancel, RecibeUpdate, Recibe, tablas
  <2>2. CASE Escritura(s)
    BY <1>0, <2>2 DEF Escritura, InsertaReserva, BorraReserva, CambiaReserva, Va
  <2>3. CASE PasoHandler(s) /\ ~Escritura(s)
    BY <2>3 DEF PasoHandler, CompruebaPropia, CompruebaYa, LeeCapacidad, CompruebaCupo,
       Bloquea, EscrituraFalla, EnviaExito, BloqueaLog, RegistraLog, PierdeLog, AbreCursor,
       EnviaFila, CierraCursor, tablas
  <2> QED BY <1>1, <2>1, <2>2, <2>3 DEF PasoServidor, Cae, Arranca, tablas
<1>2. ASSUME PasoAdmin
      PROVE  \/ UNCHANGED <<reserva, servicio>>
             \/ pc[Admin] = "confirma" /\ pc'[Admin] # "confirma"
  BY <1>0, <1>2 DEF PasoAdmin, AdminElige, AdminVer, AdminBloquea, AdminAlta, AdminBaja,
     AdminCambio, AdminFalla, AdminBloqueaLog, AdminVuelve, Va, tablas
<1> QED BY <1>0, <1>1, <1>2 DEF Next

\* What a step does to the list a server has sent so far.
LEMMA ListaPaso ==
  ASSUME TypeOK, Next, NEW s \in Servidores
  PROVE  \/ pc'[s] = pc[s] /\ lista'[s] = lista[s] /\ pet'[s].usuario = pet[s].usuario
         \/ /\ pc[s] = "filas" /\ pc'[s] = "filas" /\ pet' = pet
            /\ lista'[s] \subseteq lista[s] \cup FilasDe(pet[s].usuario)
         \/ pc[s] = "filas" /\ pc'[s] = "espera" /\ lista'[s] = {} /\ CierraCursor(s)
         \/ pc'[s] \notin {"filas", "espera"} /\ lista'[s] = {}
         \/ pc[s] # "filas" /\ lista'[s] \in {lista[s], {}}
<1>0. /\ pc \in [Procesos -> Puntos] /\ Servidores \subseteq Procesos
      /\ lista \in [Servidores -> SUBSET IdReserva] /\ pet \in [Servidores -> Peticion]
  BY DEF TypeOK, TipoProcesos, Procesos
<1>1. CASE PasoServidor(s)
  <2>1. CASE Recepcion(s)
    BY <1>0, <2>1 DEF Recepcion, RecibeCreate, RecibeGet, RecibeCancel, RecibeUpdate,
       Recibe, Termina, Contesta, Va, SinPeticion
  <2>2. CASE CompruebaPropia(s) \/ CompruebaYa(s) \/ LeeCapacidad(s) \/ CompruebaCupo(s)
    BY <1>0, <2>2 DEF CompruebaPropia, CompruebaYa, LeeCapacidad, CompruebaCupo,
       Sigue, Termina, Contesta, Va
  <2>3. CASE \/ Bloquea(s) \/ Escritura(s) \/ EscrituraFalla(s) \/ EnviaExito(s)
             \/ BloqueaLog(s) \/ RegistraLog(s) \/ PierdeLog(s)
    BY <1>0, <2>3 DEF Bloquea, Escritura, InsertaReserva, BorraReserva, CambiaReserva,
       EscrituraFalla, EnviaExito, BloqueaLog, RegistraLog, PierdeLog, Contesta, Va, locales
  <2>4. CASE AbreCursor(s) \/ CierraCursor(s)
    BY <1>0, <2>4 DEF AbreCursor, CierraCursor, Sigue, Termina, Contesta, Va
  <2>5. CASE EnviaFila(s)
    BY <1>0, <2>5 DEF EnviaFila
  <2>6. CASE Cae(s) \/ Arranca(s)
    BY <1>0, <2>6 DEF Cae, Arranca, Va, locales
  <2> QED BY <1>1, <2>1, <2>2, <2>3, <2>4, <2>5, <2>6 DEF PasoServidor, PasoHandler
<1>2. ASSUME NEW t \in Servidores \ {s}, PasoServidor(t)
      PROVE  pc'[s] = pc[s] /\ lista'[s] = lista[s] /\ pet'[s].usuario = pet[s].usuario
  <2>1. CASE Recepcion(t)
    BY <1>0, <1>2, <2>1 DEF Recepcion, RecibeCreate, RecibeGet, RecibeCancel, RecibeUpdate,
       Recibe, Termina, Contesta, Va
  <2>2. CASE CompruebaPropia(t) \/ CompruebaYa(t) \/ LeeCapacidad(t) \/ CompruebaCupo(t)
    BY <1>0, <1>2, <2>2 DEF CompruebaPropia, CompruebaYa, LeeCapacidad, CompruebaCupo,
       Sigue, Termina, Contesta, Va
  <2>3. CASE Bloquea(t) \/ Escritura(t) \/ EscrituraFalla(t) \/ EnviaExito(t)
    BY <1>0, <1>2, <2>3 DEF Bloquea, Escritura, InsertaReserva, BorraReserva, CambiaReserva,
       EscrituraFalla, EnviaExito, Contesta, Va, locales
  <2>4. CASE BloqueaLog(t) \/ RegistraLog(t) \/ PierdeLog(t) \/ Cae(t) \/ Arranca(t)
    BY <1>0, <1>2, <2>4 DEF BloqueaLog, RegistraLog, PierdeLog, Cae, Arranca, Va, locales
  <2>5. CASE AbreCursor(t) \/ EnviaFila(t) \/ CierraCursor(t)
    BY <1>0, <1>2, <2>5 DEF AbreCursor, EnviaFila, CierraCursor, Sigue, Termina, Contesta, Va
  <2> QED BY <1>2, <2>1, <2>2, <2>3, <2>4, <2>5 DEF PasoServidor, PasoHandler
<1>3. CASE PasoAdmin
  BY <1>0, <1>3, ServidoresAssumption DEF PasoAdmin, AdminElige, AdminVer, AdminBloquea,
     AdminAlta, AdminBaja, AdminCambio, AdminFalla, AdminBloqueaLog, AdminVuelve, Va, locales
<1> QED BY <1>1, <1>2, <1>3 DEF Next

\* Who commits is alone, and an open cursor sees tables that do not change.
THEOREM CerrojoExclusivo == Spec => []CerrojoInv
<1>1. Init => CerrojoInv
  BY ServidoresAssumption DEF Init, CerrojoInv, Exclusivas, Procesos
<1>2. TypeOK /\ CerrojoInv /\ [Next]_vars => CerrojoInv'
  <2> SUFFICES ASSUME TypeOK, CerrojoInv, [Next]_vars
               PROVE  CerrojoInv'
    OBVIOUS
  <2>1. CASE UNCHANGED vars
    BY <2>1 DEF vars, CerrojoInv, FilasDe
  <2>2. CASE Next
    <3>1. ASSUME NEW p \in Procesos, NEW q \in Procesos, p # q, pc'[p] \in Exclusivas
          PROVE  pc'[q] \notin Exclusivas \cup {"filas"}
      <4>1. PICK a \in Procesos :
              /\ \A b \in Procesos \ {a} : pc'[b] = pc[b]
              /\ pc'[a] \in Exclusivas => ~Bloqueada(a) \/ pc[a] \in Exclusivas
              /\ pc'[a] = "filas" => ~LecturaOcupada(a) \/ pc[a] = "filas"
        BY <2>2, CerrojoPaso
      <4> QED BY <3>1, <4>1 DEF CerrojoInv, Bloqueada, LecturaOcupada, Exclusivas
    <3>2. ASSUME NEW s \in Servidores
          PROVE  IF pc'[s] = "filas" THEN lista'[s] \subseteq FilasDe(pet[s].usuario)'
                                     ELSE lista'[s] = {}
      <4>0. s \in Procesos
        BY DEF Procesos
      <4>1. pc[s] = "filas" /\ pc'[s] = "filas" => UNCHANGED <<reserva, servicio>>
        BY <2>2, <4>0, TablasConCerrojo DEF CerrojoInv, Exclusivas
      <4>2. UNCHANGED <<reserva, servicio>> /\ pet'[s].usuario = pet[s].usuario
              => FilasDe(pet[s].usuario)' = FilasDe(pet[s].usuario)
        BY DEF FilasDe
      <4> QED BY <2>2, <4>1, <4>2, ListaPaso DEF CerrojoInv
    <3> QED BY <3>1, <3>2 DEF CerrojoInv
  <2> QED BY <2>1, <2>2
<1> QED BY <1>1, <1>2, TipoCorrecto, PTL DEF Spec

\* A list is one state of the tables although its rows are sent one by one.
THEOREM ListaEsCoherente == Spec => ListaCoherente
<1>1. ASSUME TypeOK, CerrojoInv, Next, NEW s \in Servidores, CierraLista(s)
      PROVE  lista[s] = FilasDe(pet[s].usuario)
  <2>1. pc[s] = "filas" /\ pc'[s] = "espera"
    BY <1>1 DEF CierraLista
  <2>2. CierraCursor(s)
    BY <1>1, <2>1, ListaPaso
  <2> QED BY <1>1, <2>1, <2>2 DEF CierraCursor, CerrojoInv
<1>2. TypeOK /\ CerrojoInv /\ [Next]_vars =>
        [\A s \in Servidores : CierraLista(s) => lista[s] = FilasDe(pet[s].usuario)]_vars
  BY <1>1
<1> QED BY <1>2, TipoCorrecto, CerrojoExclusivo, PTL DEF Spec, ListaCoherente

\* The administrator deletes no service.
SinBajas == "BAJA" \notin OpsAdmin

\* While no service is deleted a list holds every reservation of the user: deletions are the
\* only way to the rows the join of GET_RESERVA leaves out.
THEOREM ListaEsCompleta ==
  ASSUME SinBajas
  PROVE  Spec => ListaCompleta
<1> DEFINE Numerados == DOMAIN servicio = 1 .. seqServicio
<1>1. Init => Numerados
  BY DEF Init
<1>2. TypeOK /\ Numerados /\ [Next]_vars => Numerados'
  <2> SUFFICES ASSUME TypeOK, Numerados, [Next]_vars
               PROVE  Numerados'
    OBVIOUS
  <2>0. seqServicio \in Nat
    BY IdsAssumption DEF TypeOK, TipoTablas, IdServicio
  <2>1. CASE UNCHANGED <<servicio, seqServicio>>
    BY <2>1
  <2>2. ASSUME NEW s \in Servidores, PasoServidor(s) PROVE UNCHANGED <<servicio, seqServicio>>
    BY <2>2, ServicioDelAdmin
  <2>3. CASE PasoAdmin
    <3>1. CASE AdminAlta
      <4>1. seqServicio' = seqServicio + 1 /\ DOMAIN servicio' = DOMAIN servicio \cup {seqServicio'}
        BY <3>1 DEF AdminAlta
      <4> QED BY <2>0, <4>1
    <3>2. ~AdminBaja
      <4>1. edicion.op = "BAJA" => "BAJA" \in OpsAdmin
        <5>1. edicion \in Edicion
          BY DEF TypeOK, TipoProcesos
        <5>2. \A e \in Edicion : e.op = "NADA" \/ e.op \in OpsAdmin
          BY DEF Edicion, SinEdicion
        <5> QED BY <5>1, <5>2
      <4> QED BY <4>1 DEF AdminBaja, SinBajas
    <3>3. CASE AdminCambio BY <3>3 DEF AdminCambio
    <3>4. CASE UNCHANGED tablas BY <2>1, <3>4 DEF tablas
    <3> QED BY <2>3, <3>1, <3>2, <3>3, <3>4 DEF PasoAdmin, AdminElige, AdminVer, AdminBloquea,
               AdminFalla, AdminBloqueaLog, AdminVuelve
  <2> QED BY <2>1, <2>2, <2>3 DEF Next, vars
<1>3. ASSUME TypeOK, ServicioInv, Numerados, NEW u, NEW i \in DOMAIN reserva,
             reserva[i].usuario = u
      PROVE  i \in FilasDe(u)
  <2>1. reserva[i].servicio \in Nat \ {0} /\ seqServicio \in Nat
    <3>1. reserva[i] \in [usuario: Usuarios, servicio: IdServicio \ {0}]
      BY <1>3 DEF TypeOK, TipoTablas
    <3>2. reserva[i].servicio \in IdServicio \ {0} /\ seqServicio \in IdServicio
      BY <1>3, <3>1 DEF TypeOK, TipoTablas
    <3> QED BY <3>2, IdsAssumption DEF IdServicio
  <2>2. reserva[i].servicio <= seqServicio
    BY <1>3 DEF ServicioInv
  <2> QED BY <1>3, <2>1, <2>2 DEF FilasDe
<1>4. TypeOK /\ ServicioInv /\ Numerados
        /\ [\A s \in Servidores : CierraLista(s) => lista[s] = FilasDe(pet[s].usuario)]_vars
        => [\A s \in Servidores : CierraLista(s) =>
              \A i \in DOMAIN reserva : reserva[i].usuario = pet[s].usuario => i \in lista[s]]_vars
  BY <1>3
<1> QED BY <1>1, <1>2, <1>4, TipoCorrecto, ServicioConocido, ListaEsCoherente, PTL
        DEF Spec, ListaCoherente, ListaCompleta
=============================================================================
