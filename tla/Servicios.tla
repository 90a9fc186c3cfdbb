----------------------------- MODULE Servicios -----------------------------
(***************************************************************************)
(* What a service is on its way from the administrator's menu to a         *)
(* client's screen: the form that is typed, the row of table servicio, the *)
(* line the server sends and the object of NegocioFactory.  The            *)
(* administration program and one server share the SQLite file; the server *)
(* sends a row at a time with its cursor open.                             *)
(*                                                                         *)
(* A text is the sequence of the parts that its '|' characters separate,   *)
(* so that joining fields with SEP and splitting the line again is         *)
(* concatenation.  A line is a sequence of fields.                         *)
(***************************************************************************)
EXTENDS Integers, Sequences, FiniteSets, SequencesExt, FiniteSetsExt, Functions

CONSTANTS Formularios,   \* what may be typed in the administrator's menus
          Mascaras,      \* the masks a FILTER_SERVICIOS asks for
          Largas,        \* the descriptions that do not fit in a frame
          Cifras,        \* the texts std::stoi reads a number from: they start with a digit
          MaxServicio    \* bound: the largest rowid AUTOINCREMENT gives

Semana == 0 .. 6         \* LUNES .. DOMINGO; any other number is a word that is no day

ASSUME FormulariosAssumption ==
  \A f \in Formularios :
    /\ \A t \in {f.nombre, f.municipio, f.apertura, f.cierre, f.tipo, f.descripcion} :
         t \in Seq(STRING) /\ t # <<>>
    /\ f.dias \in Seq(Nat) /\ f.capacidad \in Int
ASSUME NumerosAssumption == Mascaras \subseteq Nat /\ MaxServicio \in Nat

VARIABLES
  servicio,      \* table servicio: id -> row
  seqServicio,   \* its AUTOINCREMENT
  \* The administration program
  pcA, edicion,
  \* The server
  pcS, peticion,
  ultimo,        \* the last row its cursor returned
  trama,         \* the lines sent between LIST_START and LIST_END
  \* The client
  pcC,
  negocios,      \* Cache::_negocios
  \* History
  tecleado,      \* id -> the form its row was last written from
  foto,          \* tecleado when the handler executed its first sqlite3_step
  ocupada        \* that step returned SQLITE_BUSY

admin    == <<servicio, seqServicio, pcA, edicion, tecleado>>
servidor == <<pcS, peticion, ultimo, trama, foto, ocupada>>
cliente  == <<pcC, negocios>>
vars     == <<admin, servidor, cliente>>

Nombres == {f.nombre : f \in Formularios}
Tipos   == {f.tipo : f \in Formularios}
Vacia   == [i \in {} |-> i]

-----------------------------------------------------------------------------
(* The mask of days                                                         *)

EnMascara(m, d) == (m \div 2^d) % 2 = 1

\* Mutant: += for |=.
convertirDiasInt_Suma(t) ==
  FoldLeft(LAMBDA m, d : IF d \in Semana THEN m + 2^d ELSE m, 0, t)

\* The words that are no day are skipped.
convertirDiasInt(t) ==
  FoldLeft(LAMBDA m, d : IF d \in Semana /\ ~EnMascara(m, d) THEN m + 2^d ELSE m, 0, t)

convertirIntDias(m) == {d \in Semana : EnMascara(m, d)}

-----------------------------------------------------------------------------
(* The administrator: a menu collects a form, one statement writes it and   *)
(* registrar_log writes another.  As in module Reservas a writing statement *)
(* takes its EXCLUSIVE lock and then commits, and SQLITE_BUSY is an error.  *)

Leyendo == pcS = "filas"                       \* the cursor keeps a SHARED lock
Escribiendo == pcA \in {"confirma", "anota"}

\* Mutant: the rows are read in advance, and the cursor does not keep its lock.
Bloqueada_SinCursor == FALSE

Bloqueada == Leyendo

ConNombre(n) == {i \in DOMAIN servicio : servicio[i].nombre = n}

\* Mutant: a capacity of 0 is stored as typed.
CapacidadMinima_Cero(cap) == IF cap < 0 THEN 1 ELSE cap

CapacidadMinima(cap) == IF cap > 0 THEN cap ELSE 1

Negocio(f) ==
  [nombre |-> f.nombre, municipio |-> f.municipio, apertura |-> f.apertura, cierre |-> f.cierre,
   fecha |-> convertirDiasInt(f.dias), tipo |-> f.tipo,
   capacidad |-> CapacidadMinima(f.capacidad), descripcion |-> f.descripcion]

\* What the three menus ask for.
Ediciones == [op: {"ALTA"}, formulario: Formularios] \cup [op: {"BAJA"}, nombre: Nombres]
               \cup [op: {"CAMBIO"}, nombre: Nombres, formulario: Formularios]

Paso(de, a) == pcA = de /\ pcA' = a

AdminTeclea ==
  /\ Paso("menu", "escribe")
  /\ edicion' \in Ediciones
  /\ edicion'.op = "ALTA" => seqServicio < MaxServicio
  /\ UNCHANGED <<servicio, seqServicio, tecleado, servidor, cliente>>

\* UNIQUE(nombre_servicio)
Rechazada ==
  \/ edicion.op = "ALTA" /\ ConNombre(edicion.formulario.nombre) # {}
  \/ /\ edicion.op = "CAMBIO" /\ ConNombre(edicion.nombre) # {}
     /\ ConNombre(edicion.formulario.nombre) \ ConNombre(edicion.nombre) # {}

AdminBloquea ==
  /\ Paso("escribe", "confirma")
  /\ ~Rechazada /\ ~Bloqueada
  /\ UNCHANGED <<servicio, seqServicio, edicion, tecleado, servidor, cliente>>

AdminFalla ==
  /\ Paso("escribe", "bitacora")
  /\ Rechazada \/ Bloqueada
  /\ UNCHANGED <<servicio, seqServicio, edicion, tecleado, servidor, cliente>>

insert_negocio ==
  /\ Paso("confirma", "bitacora")
  /\ edicion.op = "ALTA"
  /\ seqServicio' = seqServicio + 1
  /\ servicio' = [i \in DOMAIN servicio \cup {seqServicio'} |->
                    IF i = seqServicio' THEN Negocio(edicion.formulario) ELSE servicio[i]]
  /\ tecleado' = [i \in DOMAIN servicio' |->
                    IF i = seqServicio' THEN edicion.formulario ELSE tecleado[i]]
  /\ UNCHANGED <<edicion, servidor, cliente>>

delete_negocio ==
  /\ Paso("confirma", "bitacora")
  /\ edicion.op = "BAJA"
  /\ servicio' = Restrict(servicio, DOMAIN servicio \ ConNombre(edicion.nombre))
  /\ tecleado' = Restrict(tecleado, DOMAIN servicio')
  /\ UNCHANGED <<seqServicio, edicion, servidor, cliente>>

\* Every column but descripcion, which the menu does not ask for.
update_negocio ==
  /\ Paso("confirma", "bitacora")
  /\ edicion.op = "CAMBIO"
  /\ LET n == Negocio(edicion.formulario)
         cambiadas == ConNombre(edicion.nombre) IN
     /\ servicio' = [i \in DOMAIN servicio |->
                       IF i \in cambiadas
                       THEN [n EXCEPT !.descripcion = servicio[i].descripcion]
                       ELSE servicio[i]]
     /\ tecleado' = [i \in DOMAIN servicio |->
                       IF i \in cambiadas THEN edicion.formulario ELSE tecleado[i]]
  /\ UNCHANGED <<seqServicio, edicion, servidor, cliente>>

AdminBloqueaLog ==
  /\ ~Bloqueada
  /\ Paso("bitacora", "anota")
  /\ UNCHANGED <<servicio, seqServicio, edicion, tecleado, servidor, cliente>>

AdminVuelve ==
  /\ \/ Paso("anota", "menu")
     \/ Paso("bitacora", "menu") /\ Bloqueada
  /\ edicion' = Vacia
  /\ UNCHANGED <<servicio, seqServicio, tecleado, servidor, cliente>>

-----------------------------------------------------------------------------
(* The server's handlers                                                    *)

Num(n)   == [num |-> n]
Txt(t)   == [txt |-> t]
Dias(ds) == [dias |-> ds]
Partes(t) == [k \in DOMAIN t |-> Txt(t[k])]

\* Only a description can make a line longer than its frame: it is the last field,
\* and the menus limit all the others.
Cabe(d) == IF d \in Largas THEN [d EXCEPT ![Len(d)] = "(cortada)"] ELSE d

\* Mutant: the line before the capacity was added to it.
svc_format_negocio_con_id_SinCapacidad(id, n, descripcion) ==
  <<Num(id)>> \o Partes(n.nombre) \o Partes(n.municipio) \o Partes(n.apertura) \o Partes(n.cierre)
    \o <<Dias(convertirIntDias(n.fecha))>> \o Partes(n.tipo) \o Partes(Cabe(descripcion))

svc_format_negocio_con_id(id, n, descripcion) ==
  <<Num(id)>> \o Partes(n.nombre) \o Partes(n.municipio) \o Partes(n.apertura) \o Partes(n.cierre)
    \o <<Dias(convertirIntDias(n.fecha))>> \o Partes(n.tipo) \o <<Num(n.capacidad)>>
    \o Partes(Cabe(descripcion))

\* What the handlers make of the parameters: a column value, or "TODOS".  strtok skips
\* an empty token, so that of "|5" the mask is taken for the type.
FiltroTipo(p) ==
  IF p.tipo # "" THEN p.tipo ELSE IF p.op = "FILTER_SERVICIOS" THEN "(mascara)" ELSE "TODOS"

FiltroFecha(p) == IF p.op = "FILTER_SERVICIOS" /\ p.tipo # "" THEN p.mascara ELSE 0

\* Mutant: the days a service has in common with the mask must be all of the mask.
Cumple_TodosLosDias(p, n) ==
  /\ FiltroTipo(p) = "TODOS" \/ n.tipo = <<FiltroTipo(p)>>
  /\ \A d \in Semana : EnMascara(FiltroFecha(p), d) => EnMascara(n.fecha, d)

\* The WHERE of the SELECT; (fecha & ?) != 0.
Cumple(p, n) ==
  /\ FiltroTipo(p) = "TODOS" \/ n.tipo = <<FiltroTipo(p)>>
  /\ \/ FiltroFecha(p) = 0
     \/ \E d \in Semana : EnMascara(n.fecha, d) /\ EnMascara(FiltroFecha(p), d)

Siguientes == {i \in DOMAIN servicio : i > ultimo /\ Cumple(peticion, servicio[i])}

Ejecuta(op, a) == /\ peticion.op \in op /\ pcS' = a
                  /\ foto' = tecleado /\ ocupada' = Escribiendo

\* handler_servicios_get_all and handler_servicios_filter: the first step of the
\* SELECT; SQLITE_BUSY ends the loop like a table without rows.
AbreLista ==
  /\ pcS = "abre"
  /\ Ejecuta({"GET_SERVICIOS", "FILTER_SERVICIOS"}, IF Escribiendo THEN "enviada" ELSE "filas")
  /\ UNCHANGED <<admin, peticion, ultimo, trama, cliente>>

EnviaFila ==
  /\ pcS = "filas" /\ Siguientes # {}
  /\ LET i == Min(Siguientes) IN
     /\ ultimo' = i
     /\ trama' = Append(trama, svc_format_negocio_con_id(i, servicio[i], servicio[i].descripcion))
  /\ UNCHANGED <<admin, pcS, peticion, foto, ocupada, cliente>>

CierraLista ==
  /\ pcS = "filas" /\ Siguientes = {}
  /\ pcS' = "enviada"
  /\ UNCHANGED <<admin, peticion, ultimo, trama, foto, ocupada, cliente>>

\* handler_servicios_get_one: the description is used after sqlite3_finalize has freed
\* it.  An error is an answer without lines.
handler_servicios_get_one ==
  /\ pcS = "abre"
  /\ Ejecuta({"GET_SERVICIO"}, "enviada")
  /\ IF Escribiendo \/ peticion.id \notin DOMAIN servicio
     THEN UNCHANGED trama
     ELSE \E d \in {servicio[peticion.id].descripcion, <<"(liberada)">>} :
            trama' = <<svc_format_negocio_con_id(peticion.id, servicio[peticion.id], d)>>
  /\ UNCHANGED <<admin, peticion, ultimo, cliente>>

-----------------------------------------------------------------------------
(* The client                                                               *)

Grafias == [restaurante |-> {Txt("restaurante"), Txt("Restaurante")},
            servicio    |-> {Txt("servicio"), Txt("Servicio")},
            actividad   |-> {Txt("actividad"), Txt("Actividad")}]

\* The case of the letters does not count.
tipoDesdeString(c) ==
  IF \E t \in DOMAIN Grafias : c \in Grafias[t]
  THEN CHOOSE t \in DOMAIN Grafias : c \in Grafias[t] ELSE "desconocido"

\* std::stoi reads the digits a field starts with, and throws when there are none.
EsNumero(c) == "num" \in DOMAIN c \/ ("txt" \in DOMAIN c /\ c.txt \in Cifras)

\* A line starts with an id or, in the older form of the protocol, with the name.
parseServicio(campos) ==
  LET k == IF "num" \in DOMAIN campos[1] THEN 1 ELSE 0 IN
  [id |-> IF k = 1 THEN campos[1] ELSE Num(0),
   nombre |-> campos[k + 1], municipio |-> campos[k + 2],
   apertura |-> campos[k + 3], cierre |-> campos[k + 4], dias |-> campos[k + 5], tipo |-> campos[k + 6],
   capacidad |-> campos[k + 7],
   descripcion |-> IF Len(campos) >= k + 8 THEN campos[k + 8] ELSE Txt("")]

\* Mutant: an unknown type keeps a type of its own.
crear_Desconocido(p) == [p EXCEPT !.tipo = tipoDesdeString(p.tipo)]

\* NegocioFactory::crear; a Restaurante has no days.
crear(p) ==
  LET t == tipoDesdeString(p.tipo) IN
  [p EXCEPT !.tipo = IF t = "desconocido" THEN "servicio" ELSE t,
            !.dias = IF t = "restaurante" THEN Dias({}) ELSE p.dias]

\* mostrarPorTipo: what each option of the menu shows.
PorTipo(t) == {k \in DOMAIN negocios : negocios[k].tipo = t}

\* The menus only ask for GET_SERVICIOS "TODOS"; Protocol.h builds the others.
Peticiones ==
       {[op |-> "GET_SERVICIOS", tipo |-> t] : t \in {"", "TODOS"} \cup {Head(t) : t \in Tipos}}
  \cup {[op |-> "FILTER_SERVICIOS", tipo |-> t, mascara |-> m] :
          t \in {"", "TODOS"} \cup {Head(t) : t \in Tipos}, m \in Mascaras}
  \cup {[op |-> "GET_SERVICIO", id |-> i] : i \in 0 .. MaxServicio}

Pide ==
  /\ pcC = "menu"
  /\ pcC' = "recibe" /\ negocios' = <<>>
  /\ pcS' = "abre" /\ peticion' \in Peticiones
  /\ ultimo' = 0 /\ trama' = <<>> /\ foto' = Vacia /\ ocupada' = FALSE
  /\ UNCHANGED admin

\* recibirLista, parseListaServicios and the objects put in the cache; the exception
\* of std::stoi is caught by nobody.
RecibeLista ==
  /\ pcC = "recibe" /\ pcS = "enviada"
  /\ LET parsed == [k \in DOMAIN trama |-> parseServicio(trama[k])] IN
     IF \A k \in DOMAIN parsed : EsNumero(parsed[k].capacidad)
     THEN pcC' = "menu" /\ negocios' = [k \in DOMAIN parsed |-> crear(parsed[k])]
     ELSE pcC' = "muerto" /\ UNCHANGED negocios
  /\ UNCHANGED <<admin, servidor>>

\* The client is started again, and its server with it.
Reinicia ==
  /\ pcC = "muerto"
  /\ pcC' = "menu" /\ pcS' = "espera" /\ peticion' = Vacia /\ trama' = <<>> /\ ultimo' = 0
  /\ foto' = Vacia /\ ocupada' = FALSE
  /\ UNCHANGED <<admin, negocios>>

-----------------------------------------------------------------------------
Init ==
  /\ servicio = Vacia /\ seqServicio = 0 /\ pcA = "menu" /\ edicion = Vacia
  /\ pcS = "espera" /\ peticion = Vacia /\ ultimo = 0 /\ trama = <<>>
  /\ pcC = "menu" /\ negocios = <<>>
  /\ tecleado = Vacia /\ foto = Vacia /\ ocupada = FALSE

Admin == \/ AdminTeclea \/ AdminBloquea \/ AdminFalla \/ insert_negocio \/ delete_negocio
         \/ update_negocio \/ AdminBloqueaLog \/ AdminVuelve

Servidor == AbreLista \/ EnviaFila \/ CierraLista \/ handler_servicios_get_one

Cliente == Pide \/ RecibeLista \/ Reinicia

Next == Admin \/ Servidor \/ Cliente

Spec == Init /\ [][Next]_vars

-----------------------------------------------------------------------------
(* Properties                                                               *)

\* Every variable has its type; a stored capacity is at least 1 and a mask is one of the
\* seven days.
TypeOK ==
  /\ seqServicio \in 0 .. MaxServicio
  /\ DOMAIN servicio \subseteq 1 .. seqServicio
  /\ servicio \in [DOMAIN servicio ->
                     [nombre: Nombres, municipio: {f.municipio : f \in Formularios},
                      apertura: {f.apertura : f \in Formularios},
                      cierre: {f.cierre : f \in Formularios},
                      fecha: 0 .. 127, tipo: Tipos, capacidad: Nat \ {0},
                      descripcion: {f.descripcion : f \in Formularios}]]
  /\ tecleado \in [DOMAIN servicio -> Formularios]
  /\ DOMAIN foto \subseteq 1 .. MaxServicio /\ foto \in [DOMAIN foto -> Formularios]
  /\ pcA \in {"menu", "escribe", "confirma", "bitacora", "anota"}
  /\ edicion \in {Vacia} \cup Ediciones
  /\ pcS \in {"espera", "abre", "filas", "enviada"} /\ peticion \in {Vacia} \cup Peticiones
  /\ ultimo \in 0 .. MaxServicio /\ ocupada \in BOOLEAN
  /\ pcC \in {"menu", "recibe", "muerto"}
  /\ Len(trama) <= MaxServicio /\ Len(negocios) <= MaxServicio

DiasDe(f)  == Range(f.dias) \cap Semana
Enviados   == {trama[k][1].num : k \in DOMAIN trama}

\* No text before the capacity holds a '|'.
SinBarra(f) == \A t \in {f.nombre, f.municipio, f.apertura, f.cierre, f.tipo} : Len(t) = 1

\* The services of a type, and the ones open on a day of a mask, as typed.
DelTipo(t) == {i \in DOMAIN foto : t \in {"", "TODOS"} \/ foto[i].tipo = <<t>>}
AbiertosEn(m) == {i \in DOMAIN foto : \E d \in DiasDe(foto[i]) : EnMascara(m, d)}

\* GET_SERVICIOS: the rows are read one by one while the administrator works, and the
\* list is nevertheless the table at one moment, each service once; or it is empty,
\* because the administrator was writing at that moment.
ListaInstantanea ==
  pcS = "enviada" /\ peticion.op = "GET_SERVICIOS" =>
    /\ Enviados = IF ocupada THEN {} ELSE DelTipo(peticion.tipo)
    /\ Len(trama) = Cardinality(Enviados)

\* FILTER_SERVICIOS answers with the services of the type that open on a day of the
\* mask, by what the administrator typed; mask 0 is every day.  A blank type, which is
\* every type for GET_SERVICIOS, gives an empty list.
FiltroExacto ==
  pcS = "enviada" /\ peticion.op = "FILTER_SERVICIOS" =>
    Enviados = IF ocupada \/ peticion.tipo = "" THEN {}
               ELSE IF peticion.mascara = 0 THEN DelTipo(peticion.tipo)
               ELSE DelTipo(peticion.tipo) \cap AbiertosEn(peticion.mascara)

Cargada == pcC = "menu" /\ pcS = "enviada"

\* What the client shows of a service is what the administrator typed, if no text before
\* the capacity holds a '|': the mask, the line and its parsing lose nothing of the name,
\* the municipality, the hours, the days, the type or the capacity.
FichaFiel ==
  Cargada =>
    /\ Len(negocios) = Len(trama)
    /\ \A k \in DOMAIN negocios : LET n == negocios[k]  f == foto[n.id.num] IN
         SinBarra(f) =>
           /\ n.nombre = Txt(f.nombre[1]) /\ n.municipio = Txt(f.municipio[1])
           /\ n.apertura = Txt(f.apertura[1]) /\ n.cierre = Txt(f.cierre[1])
           /\ n.capacidad = Num(Max({1, f.capacidad}))
           /\ n.tipo # "restaurante" => n.dias = Dias(DiasDe(f))
           /\ n.tipo \in DOMAIN Grafias
           /\ Txt(f.tipo[1]) \in UNION {Grafias[t] : t \in DOMAIN Grafias}
                => Txt(f.tipo[1]) \in Grafias[n.tipo]

\* The type is free text for the administrator, and the menu of the client has three
\* options: every service of the list is under exactly one of them.
CadaNegocioEnUnMenu ==
  Cargada /\ peticion = [op |-> "GET_SERVICIOS", tipo |-> "TODOS"] /\ ~ocupada =>
    \A i \in DOMAIN foto :
      Cardinality({t \in DOMAIN Grafias : \E k \in PorTipo(t) : negocios[k].id = Num(i)}) = 1

\* The exception that ends the client while it reads a list comes only from a '|' that
\* the administrator typed before the capacity, in the name, the municipality, an hour or
\* the type; no description, long, cut or with a '|' in it, is enough.
MuereSoloPorSeparador ==
  pcC = "muerto" => \E i \in DOMAIN foto : ~SinBarra(foto[i])

=============================================================================
