-------------------------- MODULE ProtocoloProofs --------------------------
(***************************************************************************)
(* Theorems about Protocolo, for any users, services and bounds.           *)
(***************************************************************************)
EXTENDS Protocolo, TLAPS, FiniteSetTheorems, SequenceTheorems

-----------------------------------------------------------------------------
(* Type correctness, by parts                                               *)

TipoCliente ==
  /\ pcC \in {"bienvenida", "principal", "elige", "envia", "fecha", "parametros",
              "recibe", "lista", "fin", "muerto"}
  /\ conectado \in BOOLEAN
  /\ sesion \in Nat \cup {Cerrada} /\ curso \in Cursos /\ leidas \in SUBSET Lineas
  /\ cache \in SUBSET [reserva : Nat, servicio : Nat]
  /\ dicho \in {"nada", "exito", "error"}

TipoRed ==
  /\ aServidor \in Seq(Tramas) /\ aCliente \in Seq(Lineas)
  /\ enlace \in BOOLEAN /\ (enlace => conectado)

TipoServidor ==
  /\ pcS \in {"comando", "parametros", "atiende", "contesta", "caido"}
  /\ recibida \in Cursos /\ salida \in Seq(Lineas)
  /\ pcS = "contesta" <=> salida # <<>>

TipoTablas ==
  /\ DOMAIN usuario \in SUBSET Dnis /\ \A d \in DOMAIN usuario : usuario[d] \in Nat
  /\ DOMAIN reserva \in SUBSET (1 .. seqReserva)
  /\ \A i \in DOMAIN reserva : reserva[i] \in [usuario : Nat, servicio : Nat]
  /\ seqReserva \in 0 .. MaxReserva

TipoHistoria ==
  /\ titular \in Dnis \cup {SinDni} /\ pedida \in Cursos
  /\ hecha \in {"no", "exito", "error"} /\ abandonos \in 0 .. MaxAbandonos

LEMMA TiposPorPartes ==
  TypeOK <=> TipoCliente /\ TipoRed /\ TipoServidor /\ TipoTablas /\ TipoHistoria
BY DEF TypeOK, TipoCliente, TipoRed, TipoServidor, TipoTablas, TipoHistoria

LEMMA TiposPorPartesPrima ==
  TypeOK' <=> TipoCliente' /\ TipoRed' /\ TipoServidor' /\ TipoTablas' /\ TipoHistoria'
BY DEF TypeOK, TipoCliente, TipoRed, TipoServidor, TipoTablas, TipoHistoria

\* A part whose variables do not change keeps its type.
LEMMA PartesQuietas ==
  /\ TipoServidor /\ UNCHANGED servidor => TipoServidor'
  /\ TipoTablas /\ UNCHANGED tablas => TipoTablas'
  /\ TipoHistoria /\ UNCHANGED historia => TipoHistoria'
  /\ TipoRed /\ UNCHANGED red /\ conectado' = conectado => TipoRed'
  /\ TipoCliente /\ UNCHANGED cliente => TipoCliente'
BY DEF TipoCliente, TipoRed, TipoServidor, TipoTablas, TipoHistoria,
       cliente, red, servidor, tablas, historia

Listados == {"GET_SERVICIOS", "GET_RESERVA"}

EnPeticion == pcC \in {"envia", "fecha", "parametros", "recibe", "lista"}

\* What the dialogue knows: who is logged in, which request it is in, which lines it has.
Dialogo ==
  /\ EnPeticion => curso.cmd # ""
  /\ pcC \in {"principal", "elige"} \/ (EnPeticion /\ curso.cmd \notin {"LOGIN", "REGISTER"})
       => sesion # Cerrada
  /\ curso.motivo # "" => curso.cmd = "GET_RESERVA"
  /\ pcC = "elige" => curso.motivo \in {"cancelar", "modificar"}
  /\ pcC = "bienvenida" \/ (EnPeticion /\ curso.cmd \in {"LOGIN", "REGISTER"}) => sesion = Cerrada
  /\ sesion = Cerrada => cache = {}
  /\ pcC = "fecha" => curso.cmd = "UPDATE_RESERVA"
  /\ pcC = "lista" => curso.cmd \in Listados
  /\ pcC # "lista" => leidas = {}

\* Who has ended has no session and no connection.
Acabado ==
  /\ pcC \in {"fin", "muerto"} => sesion = Cerrada /\ ~enlace
  /\ pcS = "caido" => ~enlace
  /\ IsFiniteSet(DOMAIN usuario)

Base == TypeOK /\ Dialogo /\ Acabado

-----------------------------------------------------------------------------
(* Requests and lines *)

LEMMA NadaTipo == Nada \in Cursos
BY DEF Nada, Cursos

LEMMA CamposCurso ==
  ASSUME NEW p \in Cursos
  PROVE  /\ p.usuario \in Nat /\ p.servicio \in Nat /\ p.reserva \in Nat
         /\ p.dni \in Dnis \cup {SinDni}
         /\ p.cmd \in {"", "LOGIN", "REGISTER", "LOGOUT", "GET_SERVICIOS", "GET_RESERVA",
                       "CREATE_RESERVA", "CANCEL_RESERVA", "UPDATE_RESERVA"}
BY DEF Cursos

LEMMA TramasTipo ==
  ASSUME NEW p \in Cursos
  PROVE  /\ Comando(p) \in Tramas /\ Valores(p) \in Tramas
         /\ Comando(p).clase = "comando" /\ Comando(p).pet = [Nada EXCEPT !.cmd = p.cmd]
         /\ Valores(p).clase = "parametros" /\ Valores(p).pet = p
BY DEF Comando, Valores, Tramas, Cursos, Nada

LEMMA LineasTipo ==
  /\ \A t \in {"", "OK", "OK_TEXTO", "ERR", "LIST_START", "LIST_END", "RESERVA", "NEGOCIO"} :
        Linea(t) \in Lineas /\ Linea(t).tipo = t
  /\ \A i \in Nat : Ok(i) \in Lineas /\ Ok(i).tipo = "OK" /\ Ok(i).id = i
  /\ \A i, v \in Nat : /\ Fila(i, v) \in Lineas /\ Fila(i, v).tipo = "RESERVA"
                       /\ Fila(i, v).id = i /\ Fila(i, v).servicio = v
  /\ \A v \in Nat : Negocio(v) \in Lineas /\ Negocio(v).tipo = "NEGOCIO"
BY DEF Linea, Ok, Fila, Negocio, Lineas

LEMMA CamposLinea ==
  ASSUME NEW m \in Lineas
  PROVE  /\ m.id \in Nat /\ m.servicio \in Nat
         /\ m.tipo \in {"", "OK", "OK_TEXTO", "ERR", "LIST_START", "LIST_END", "RESERVA", "NEGOCIO"}
BY DEF Lineas

LEMMA Pedidas ==
  /\ \A c \in {"LOGIN", "REGISTER"}, d \in Dnis :
        Acceso(c, d) \in Cursos /\ Acceso(c, d).cmd = c
  /\ VerNegocios \in Cursos /\ VerNegocios.cmd = "GET_SERVICIOS"
  /\ sesion \in Nat =>
       /\ DeUsuario("LOGOUT") \in Cursos /\ DeUsuario("LOGOUT").cmd = "LOGOUT"
       /\ DeUsuario("LOGOUT").usuario = sesion
       /\ \A m \in {"ver", "negocios", "cancelar", "modificar"} :
             /\ Carga(m) \in Cursos /\ Carga(m).cmd = "GET_RESERVA"
             /\ Carga(m).usuario = sesion
       /\ \A i, v \in Nat :
             /\ Alta(v) \in Cursos /\ Alta(v).cmd = "CREATE_RESERVA" /\ Alta(v).usuario = sesion
             /\ Baja(i) \in Cursos /\ Baja(i).cmd = "CANCEL_RESERVA" /\ Baja(i).usuario = sesion
             /\ Cambio(i, v) \in Cursos /\ Cambio(i, v).cmd = "UPDATE_RESERVA"
             /\ Cambio(i, v).usuario = sesion
BY DEF Acceso, VerNegocios, DeUsuario, Carga, Alta, Baja, Cambio, Nada, Cursos

\* SetToSeq lists a finite set.
LEMMA SetToSeqLista ==
  ASSUME NEW S, IsFiniteSet(S), NEW T, S \subseteq T
  PROVE  /\ SetToSeq(S) \in Seq(T)
         /\ \A i \in 1 .. Len(SetToSeq(S)) : SetToSeq(S)[i] \in S
         /\ \A x \in S : \E i \in 1 .. Len(SetToSeq(S)) : SetToSeq(S)[i] = x
<1> DEFINE n == Cardinality(S)
           f == SetToSeq(S)
<1>1. n \in Nat /\ ExistsBijection(1 .. n, S)
  BY FS_CardinalityType
<1>2. \E g \in [1 .. n -> S] : IsInjective(g)
  BY <1>1 DEF ExistsBijection, Bijection, Injection
<1>3. f \in [1 .. n -> S] /\ IsInjective(f)
  BY <1>2 DEF SetToSeq
<1>4. f \in Injection(1 .. n, S)
  BY <1>3 DEF Injection
<1>5. IsFiniteSet(1 .. n) /\ Cardinality(1 .. n) = n
  BY <1>1, FS_Interval
<1>6. f \in Surjection(1 .. n, S)
  BY <1>4, <1>5, FS_Injection
<1>7. Len(f) = n /\ f \in Seq(T)
  BY <1>1, <1>3
<1> QED BY <1>3, <1>6, <1>7 DEF Surjection

-----------------------------------------------------------------------------
(* What the steps of the client do                                          *)

LEMMA ProsigueAdonde ==
  ASSUME NEW p \in Cursos, NEW F, Prosigue(p, F)
  PROVE  /\ curso' \in Cursos
         /\ \/ p.motivo = "negocios" /\ pcC' = "envia" /\ curso' = VerNegocios
            \/ pcC' = "elige" /\ curso' = p /\ F # {} /\ p.motivo \in {"cancelar", "modificar"}
            \/ p.motivo # "negocios" /\ pcC' = Menu(p) /\ curso' = Nada
BY Pedidas, NadaTipo DEF Prosigue

LEMMA MenuAdonde ==
  ASSUME NEW p
  PROVE  /\ Menu(p) \in {"bienvenida", "principal"}
         /\ Menu(p) = "principal" <=> p.cmd \notin {"LOGIN", "REGISTER"}
BY DEF Menu

\* Moving on after a request keeps the dialogue sound.
LEMMA ProsigueDialogo ==
  ASSUME Dialogo, TipoCliente, EnPeticion, NEW F, Prosigue(curso, F),
         sesion' = sesion, leidas' = {}, sesion = Cerrada => cache' = {}
  PROVE  /\ Dialogo'
         /\ curso' \in Cursos /\ pcC' \in {"bienvenida", "principal", "elige", "envia"}
<1>1. curso \in Cursos
  BY DEF TipoCliente
<1>2. VerNegocios.motivo = "" /\ Nada.motivo = ""
  BY DEF VerNegocios, Nada
<1>3. CASE curso.motivo = "negocios" /\ pcC' = "envia" /\ curso' = VerNegocios
  BY <1>2, <1>3, Pedidas DEF Dialogo, EnPeticion
<1>4. CASE pcC' = "elige" /\ curso' = curso /\ curso.motivo \in {"cancelar", "modificar"}
  BY <1>1, <1>4 DEF Dialogo, EnPeticion
<1>5. CASE pcC' = Menu(curso) /\ curso' = Nada
  BY <1>2, <1>5, NadaTipo, MenuAdonde DEF Dialogo, EnPeticion
<1> QED BY <1>1, <1>3, <1>4, <1>5, ProsigueAdonde

LEMMA EligeBase ==
  ASSUME Base, ~EnPeticion, pcC \notin {"fin", "muerto"},
         NEW p \in Cursos, Elige(p), p.cmd # "",
         p.motivo # "" => p.cmd = "GET_RESERVA",
         p.cmd \in {"LOGIN", "REGISTER"} <=> sesion = Cerrada
  PROVE  Base'
<1>1. UNCHANGED <<red, servidor, tablas, historia>> /\ UNCHANGED <<conectado, sesion, cache, leidas, dicho>>
      /\ pcC' = "envia" /\ curso' = p
  BY DEF Elige
<1>2. TypeOK'
  BY <1>1, TiposPorPartes, TiposPorPartesPrima, PartesQuietas DEF Base, TipoCliente
<1>3. Dialogo' /\ Acabado'
  BY <1>1 DEF Base, Dialogo, Acabado, EnPeticion, red, servidor, tablas
<1> QED BY <1>2, <1>3 DEF Base

LEMMA OpcionesBase ==
  ASSUME Base, OpcionBienvenida \/ OpcionPrincipal \/ OpcionReserva \/ DaFecha \/ DejaLaFecha
  PROVE  Base'
<1> USE DEF EnPeticion
<1>0. TipoCliente /\ TipoRed /\ TipoServidor /\ TipoTablas /\ TipoHistoria
  BY TiposPorPartes DEF Base
<1>1. CASE OpcionBienvenida
  <2>1. PICK c \in {"LOGIN", "REGISTER"}, d \in Dnis :
          pcC = "bienvenida" /\ sesion = Cerrada /\ Elige(Acceso(c, d))
    BY <1>1 DEF OpcionBienvenida, Base, Dialogo
  <2>2. Acceso(c, d) \in Cursos /\ Acceso(c, d).cmd = c /\ Acceso(c, d).motivo = ""
    BY Pedidas DEF Acceso, Nada
  <2> QED BY <2>1, <2>2, EligeBase
<1>2. CASE OpcionPrincipal
  <2>1. pcC = "principal" /\ sesion # Cerrada /\ sesion \in Nat
    BY <1>0, <1>2 DEF OpcionPrincipal, Base, Dialogo, TipoCliente
  <2>2. CASE \E m \in {"ver", "negocios", "cancelar", "modificar"} : Elige(Carga(m))
    BY <2>1, <2>2, EligeBase, Pedidas
  <2>3. CASE \E v \in Servicios : Elige(Alta(v))
    <3>1. PICK v \in Servicios : Elige(Alta(v))
      BY <2>3
    <3>2. v \in Nat /\ Alta(v).motivo = ""
      BY Parametros DEF Alta, DeUsuario, Nada
    <3> QED BY <3>1, <3>2, <2>1, EligeBase, Pedidas
  <2>4. CASE Elige(DeUsuario("LOGOUT"))
    <3>1. DeUsuario("LOGOUT").motivo = ""
      BY DEF DeUsuario, Nada
    <3> QED BY <3>1, <2>1, <2>4, EligeBase, Pedidas
  <2> QED BY <1>2, <2>2, <2>3, <2>4 DEF OpcionPrincipal
<1>3. CASE OpcionReserva
  <2>1. pcC = "elige" /\ sesion # Cerrada /\ sesion \in Nat
    BY <1>0, <1>3 DEF OpcionReserva, Base, Dialogo, TipoCliente
  <2>2. CASE \E c \in cache : Elige(Baja(c.reserva))
    <3>1. PICK c \in cache : Elige(Baja(c.reserva))
      BY <2>2
    <3>2. c.reserva \in Nat /\ Baja(c.reserva).motivo = ""
      BY <1>0 DEF TipoCliente, Baja, DeUsuario, Nada
    <3>3. 0 \in Nat
      OBVIOUS
    <3>4. Baja(c.reserva) \in Cursos /\ Baja(c.reserva).cmd = "CANCEL_RESERVA"
      BY <2>1, <3>2, <3>3, Pedidas
    <3> QED BY <3>1, <3>2, <3>4, <2>1, EligeBase
  <2>3. CASE \E c \in cache : \E v \in Servicios : Elige(Cambio(c.reserva, v))
    <3>1. PICK c \in cache, v \in Servicios : Elige(Cambio(c.reserva, v))
      BY <2>3
    <3>2. c.reserva \in Nat /\ v \in Nat /\ Cambio(c.reserva, v).motivo = ""
      BY <1>0, Parametros DEF TipoCliente, Cambio, DeUsuario, Nada
    <3>3. Cambio(c.reserva, v) \in Cursos /\ Cambio(c.reserva, v).cmd = "UPDATE_RESERVA"
      BY <2>1, <3>2, Pedidas
    <3> QED BY <3>1, <3>2, <3>3, <2>1, EligeBase
  <2>4. CASE /\ pcC' = "principal" /\ curso' = Nada
             /\ UNCHANGED <<conectado, sesion, cache, leidas, dicho, red, servidor, tablas, historia>>
    <3>1. TypeOK'
      BY <2>4, <1>0, NadaTipo, TiposPorPartesPrima, PartesQuietas DEF TipoCliente
    <3>2. Dialogo'
      BY <2>1, <2>4 DEF Base, Dialogo, Nada
    <3>3. Acabado'
      BY <2>1, <2>4 DEF Base, Acabado, red, servidor, tablas
    <3> QED BY <3>1, <3>2, <3>3 DEF Base
  <2> QED BY <1>3, <2>2, <2>3, <2>4 DEF OpcionReserva
<1>4. CASE DaFecha
  <2>1. TypeOK'
    BY <1>4, <1>0, TiposPorPartesPrima, PartesQuietas DEF DaFecha, TipoCliente
  <2>2. Dialogo' /\ Acabado'
    BY <1>4 DEF DaFecha, Base, Dialogo, Acabado, red, servidor, tablas
  <2> QED BY <2>1, <2>2 DEF Base
<1>5. CASE DejaLaFecha
  <2>1. TipoHistoria'
    BY <1>5, <1>0, Parametros DEF DejaLaFecha, TipoHistoria
  <2>2. TypeOK'
    BY <1>5, <1>0, <2>1, NadaTipo, TiposPorPartesPrima, PartesQuietas DEF DejaLaFecha, TipoCliente
  <2>3. sesion # Cerrada
    BY <1>5 DEF DejaLaFecha, Base, Dialogo
  <2>4. Dialogo' /\ Acabado'
    BY <1>5, <2>3 DEF DejaLaFecha, Base, Dialogo, Acabado, red, servidor, tablas, Nada
  <2> QED BY <2>2, <2>4 DEF Base
<1> QED BY <1>1, <1>2, <1>3, <1>4, <1>5

LEMMA NoSaleBase ==
  ASSUME Base, pcC \in {"envia", "parametros"}, NoSale, cache' \in {{}, cache}
  PROVE  Base'
<1>0. TipoCliente /\ TipoRed /\ TipoServidor /\ TipoTablas /\ TipoHistoria
  BY TiposPorPartes DEF Base
<1>1. leidas' = {} /\ sesion' = sesion /\ Prosigue(curso, {}) /\ EnPeticion
      /\ (sesion = Cerrada => cache' = {})
  BY DEF NoSale, Base, Dialogo, EnPeticion
<1>2. Dialogo' /\ curso' \in Cursos /\ pcC' \in {"bienvenida", "principal", "elige", "envia"}
  BY <1>0, <1>1, ProsigueDialogo DEF Base
<1>3. TipoCliente'
  BY <1>0, <1>1, <1>2 DEF NoSale, TipoCliente
<1>4. TipoRed'
  BY <1>0 DEF NoSale, TipoRed, red
<1>5. TypeOK'
  BY <1>0, <1>3, <1>4, TiposPorPartesPrima, PartesQuietas DEF NoSale
<1>6. Acabado'
  BY <1>2 DEF NoSale, Base, Acabado, red, servidor, tablas
<1> QED BY <1>2, <1>5, <1>6 DEF Base

LEMMA SaleTipo ==
  ASSUME TipoRed, NEW f \in Tramas, Sale(f)
  PROVE  TipoRed' /\ enlace' = enlace /\ conectado' = conectado /\ conectado
BY DEF TipoRed, Sale

LEMMA EnviosBase ==
  ASSUME Base, EnviaComando \/ EnviaParametros
  PROVE  Base'
<1>0. TipoCliente /\ TipoRed /\ TipoServidor /\ TipoTablas /\ TipoHistoria
  BY TiposPorPartes DEF Base
<1>1. ASSUME EnviaComando, ~NoSale
      PROVE  Base'
  <2>1. Comando(curso) \in Tramas
    BY <1>0, TramasTipo DEF TipoCliente
  <2>2. Sale(Comando(curso)) /\ pcC = "envia"
    BY <1>1 DEF EnviaComando
  <2>3. TipoRed' /\ enlace' = enlace /\ conectado' = conectado /\ UNCHANGED servidor /\ UNCHANGED tablas
    BY <1>0, <1>1, <2>1, <2>2, SaleTipo DEF EnviaComando
  <2>4. TipoCliente'
    BY <1>0, <1>1, <2>3 DEF EnviaComando, EnCache, TipoCliente
  <2>5. TipoHistoria'
    BY <1>0, <1>1 DEF EnviaComando, TipoHistoria, TipoCliente
  <2>6. TypeOK'
    BY <1>0, <2>3, <2>4, <2>5, TiposPorPartesPrima, PartesQuietas
  <2>7. Dialogo'
    BY <1>1, <2>2 DEF EnviaComando, EnCache, Base, Dialogo, EnPeticion
  <2>8. Acabado'
    BY <1>1, <2>2, <2>3 DEF EnviaComando, Base, Acabado, servidor, tablas
  <2> QED BY <2>6, <2>7, <2>8 DEF Base
<1>2. ASSUME EnviaParametros, ~NoSale
      PROVE  Base'
  <2>1. Valores(curso) \in Tramas
    BY <1>0, TramasTipo DEF TipoCliente
  <2>2. Sale(Valores(curso)) /\ pcC = "parametros"
    BY <1>2 DEF EnviaParametros
  <2>3. TipoRed' /\ enlace' = enlace /\ conectado' = conectado /\ UNCHANGED servidor /\ UNCHANGED tablas
    BY <1>0, <1>2, <2>1, <2>2, SaleTipo DEF EnviaParametros
  <2>4. TipoCliente'
    BY <1>0, <1>2, <2>3 DEF EnviaParametros, TipoCliente
  <2>6. TypeOK'
    BY <1>0, <1>2, <2>3, <2>4, TiposPorPartesPrima, PartesQuietas DEF EnviaParametros
  <2>7. Dialogo'
    BY <1>2, <2>2 DEF EnviaParametros, Base, Dialogo, EnPeticion
  <2>8. Acabado'
    BY <1>2, <2>2, <2>3 DEF EnviaParametros, Base, Acabado, servidor, tablas
  <2> QED BY <2>6, <2>7, <2>8 DEF Base
<1>3. ASSUME NoSale
      PROVE  Base'
  BY <1>3, NoSaleBase DEF EnviaComando, EnviaParametros, EnCache
<1> QED BY <1>1, <1>2, <1>3

\* The frame read, and what is left.
LEMMA RecibirTipo ==
  ASSUME TipoRed, TipoCliente, NEW m, Recibir(m)
  PROVE  /\ m \in Lineas /\ m = Siguiente
         /\ TipoRed' /\ UNCHANGED <<aServidor, enlace>>
         /\ conectado' \in BOOLEAN /\ conectado' = (aCliente # <<>>)
         /\ aCliente = <<>> => ~enlace /\ m.tipo = "" /\ aCliente' = <<>>
         /\ aCliente # <<>> => /\ m = aCliente[1] /\ aCliente' = Tail(aCliente)
                               /\ Len(aCliente') = Len(aCliente) - 1
                               /\ \A i \in 1 .. Len(aCliente') : aCliente'[i] = aCliente[i + 1]
<1>1. CASE aCliente = <<>>
  <2>1. m = Linea("") /\ Linea("") \in Lineas /\ Linea("").tipo = ""
    BY <1>1, LineasTipo DEF Recibir, Siguiente
  <2>2. aCliente' = <<>>
    BY <1>1 DEF Recibir
  <2>3. aCliente' \in Seq(Lineas)
    BY <2>2
  <2> QED BY <1>1, <2>1, <2>2, <2>3 DEF Recibir, TipoRed, TipoCliente
<1>2. CASE aCliente # <<>>
  <2>1. /\ Head(aCliente) \in Lineas /\ Head(aCliente) = aCliente[1]
        /\ Tail(aCliente) \in Seq(Lineas)
        /\ Len(Tail(aCliente)) = Len(aCliente) - 1
        /\ \A i \in 1 .. Len(Tail(aCliente)) : Tail(aCliente)[i] = aCliente[i + 1]
    BY <1>2, HeadTailProperties DEF TipoRed
  <2>2. aCliente' = Tail(aCliente)
    BY <1>2, TailIsSubSeq DEF Recibir, TipoRed
  <2> QED BY <1>2, <2>1, <2>2 DEF Recibir, Siguiente, TipoRed
<1> QED BY <1>1, <1>2

LEMMA MuereBase ==
  ASSUME Base, Muere
  PROVE  Base'
<1>0. TipoCliente /\ TipoRed /\ TipoServidor /\ TipoTablas /\ TipoHistoria
  BY TiposPorPartes DEF Base
<1>1. TipoCliente'
  BY <1>0, NadaTipo DEF Muere, TipoCliente
<1>2. <<>> \in Seq(Lineas)
  OBVIOUS
<1>3. TipoRed'
  BY <1>0, <1>2 DEF Muere, TipoRed
<1>4. TipoHistoria'
  BY <1>0 DEF Muere, TipoHistoria
<1>5. TypeOK'
  BY <1>0, <1>1, <1>3, <1>4, TiposPorPartesPrima, PartesQuietas DEF Muere
<1>6. Dialogo' /\ Acabado'
  BY DEF Muere, Base, Dialogo, Acabado, EnPeticion, Nada, servidor, tablas
<1> QED BY <1>5, <1>6 DEF Base

LEMMA RecibeAccesoBase ==
  ASSUME Base, pcC \in {"recibe", "lista"}, NEW m, RecibeAcceso(m)
  PROVE  Base'
<1>0. TipoCliente /\ TipoRed /\ TipoServidor /\ TipoTablas /\ TipoHistoria
  BY TiposPorPartes DEF Base
<1>1. CASE Muere
  BY <1>1, MuereBase
<1>2. CASE Recibir(m) /\ ~Muere
  <2>1. m \in Lineas /\ m.id \in Nat /\ TipoRed' /\ conectado' \in BOOLEAN
    BY <1>0, <1>2, RecibirTipo, CamposLinea
  <2>2. TipoCliente' /\ TipoHistoria'
    <3>1. curso.dni \in Dnis \cup {SinDni} /\ sesion' \in Nat \cup {Cerrada}
          /\ pcC' \in {"principal", "bienvenida"}
      BY <1>0, <1>2, <2>1, CamposCurso DEF RecibeAcceso, TipoCliente
    <3>2. TipoCliente'
      BY <1>0, <1>2, <2>1, <3>1, NadaTipo DEF RecibeAcceso, TipoCliente
    <3>3. TipoHistoria'
      BY <1>0, <1>2, <3>1 DEF RecibeAcceso, TipoHistoria
    <3> QED BY <3>2, <3>3
  <2>3. TypeOK'
    BY <1>0, <1>2, <2>1, <2>2, TiposPorPartesPrima, PartesQuietas DEF RecibeAcceso
  <2>4. Dialogo'
    <3>1. curso.cmd \notin Listados
      BY DEF RecibeAcceso, Listados
    <3>2. leidas' = {} /\ curso' = Nada /\ pcC' \in {"principal", "bienvenida"}
      BY <1>2, <3>1 DEF RecibeAcceso, Base, Dialogo
    <3>3. /\ pcC' = "principal" => sesion' # Cerrada
          /\ pcC' = "bienvenida" => sesion' = Cerrada
          /\ cache' = {}
      <4>1. sesion = Cerrada /\ cache = {}
        BY DEF RecibeAcceso, Base, Dialogo, EnPeticion
      <4>2. m.id # Cerrada
        BY <2>1 DEF Cerrada
      <4> QED BY <1>2, <4>1, <4>2 DEF RecibeAcceso
    <3> QED BY <3>2, <3>3 DEF Dialogo, Nada, EnPeticion
  <2>5. Acabado'
    BY <1>2 DEF RecibeAcceso, Recibir, Base, Acabado, servidor, tablas
  <2> QED BY <2>3, <2>4, <2>5 DEF Base
<1> QED BY <1>1, <1>2 DEF RecibeAcceso

LEMMA RecibeLogoutBase ==
  ASSUME Base, pcC \in {"recibe", "lista"}, NEW m, RecibeLogout(m)
  PROVE  Base'
<1>0. TipoCliente /\ TipoRed /\ TipoServidor /\ TipoTablas /\ TipoHistoria
  BY TiposPorPartes DEF Base
<1>1. TipoRed' /\ conectado' \in BOOLEAN /\ enlace' = enlace
  BY <1>0, RecibirTipo DEF RecibeLogout
<1>2. TipoCliente' /\ TipoHistoria'
  BY <1>0, <1>1, NadaTipo DEF RecibeLogout, TipoCliente, TipoHistoria
<1>3. TypeOK'
  BY <1>0, <1>1, <1>2, TiposPorPartesPrima, PartesQuietas DEF RecibeLogout
<1>4. Dialogo'
  <2>1. curso.cmd = "LOGOUT" /\ leidas' = {} /\ sesion # Cerrada
    BY DEF RecibeLogout, Base, Dialogo, Listados, EnPeticion
  <2> QED BY <2>1 DEF RecibeLogout, Dialogo, Nada, EnPeticion
<1>5. Acabado'
  BY <1>1 DEF RecibeLogout, Base, Acabado, servidor, tablas
<1> QED BY <1>3, <1>4, <1>5 DEF Base

LEMMA RecibeCambioBase ==
  ASSUME Base, pcC \in {"recibe", "lista"}, NEW m, RecibeCambio(m)
  PROVE  Base'
<1>0. TipoCliente /\ TipoRed /\ TipoServidor /\ TipoTablas /\ TipoHistoria
  BY TiposPorPartes DEF Base
<1>1. TipoRed' /\ conectado' \in BOOLEAN /\ enlace' = enlace
  BY <1>0, RecibirTipo DEF RecibeCambio
<1>2. curso.cmd \in {"CREATE_RESERVA", "CANCEL_RESERVA", "UPDATE_RESERVA"}
      /\ leidas' = {} /\ sesion' = sesion /\ sesion # Cerrada
  BY DEF RecibeCambio, Base, Dialogo, Listados, EnPeticion
<1>3. sesion \in Nat
  BY <1>0, <1>2 DEF TipoCliente
<1>4. /\ curso' \in Cursos /\ curso'.cmd \in {"", "GET_RESERVA"}
      /\ curso'.cmd = "" => curso'.motivo = ""
      /\ (pcC' = "envia" /\ curso'.cmd = "GET_RESERVA") \/ pcC' = "principal"
  <2>1. Carga("ver") \in Cursos /\ Carga("ver").cmd = "GET_RESERVA"
    BY <1>3, Pedidas
  <2>2. Nada.cmd = "" /\ Nada.motivo = ""
    BY DEF Nada
  <2> QED BY <2>1, <2>2, NadaTipo DEF RecibeCambio
<1>5. TipoCliente'
  BY <1>0, <1>1, <1>2, <1>4 DEF RecibeCambio, TipoCliente, TrasCancelar, Dicho
<1>6. TypeOK'
  BY <1>0, <1>1, <1>5, TiposPorPartesPrima, PartesQuietas DEF RecibeCambio
<1>7. Dialogo'
  BY <1>2, <1>4 DEF Dialogo, EnPeticion
<1>8. Acabado'
  BY <1>1, <1>4 DEF RecibeCambio, Base, Acabado, servidor, tablas
<1> QED BY <1>6, <1>7, <1>8 DEF Base

LEMMA RecibeListaBase ==
  ASSUME Base, pcC \in {"recibe", "lista"}, NEW m, RecibeLista(m)
  PROVE  Base'
<1>0. TipoCliente /\ TipoRed /\ TipoServidor /\ TipoTablas /\ TipoHistoria
  BY TiposPorPartes DEF Base
<1> DEFINE lineas == leidas \cup Datos(m)
<1>1. ASSUME Recibir(m)
      PROVE  /\ m \in Lineas /\ TipoRed' /\ conectado' \in BOOLEAN /\ enlace' = enlace
             /\ lineas \subseteq Lineas
  BY <1>0, <1>1, RecibirTipo DEF TipoCliente, Datos
<1>2. CASE /\ Recibir(m) /\ pcC' = "lista" /\ leidas' = lineas
           /\ UNCHANGED <<sesion, cache, curso, dicho, servidor, tablas, historia>>
  <2>1. TipoCliente'
    BY <1>0, <1>1, <1>2 DEF TipoCliente
  <2>2. TypeOK'
    BY <1>0, <1>1, <1>2, <2>1, TiposPorPartesPrima, PartesQuietas
  <2>3. curso.cmd \in Listados
    BY DEF RecibeLista, Listados
  <2>4. Dialogo'
    <3>1. pcC' = "lista" /\ curso' = curso /\ sesion' = sesion
      BY <1>2
    <3> QED BY <3>1, <1>2, <2>3 DEF Base, Dialogo, EnPeticion, Listados
  <2>5. Acabado'
    BY <1>1, <1>2 DEF Base, Acabado, servidor, tablas
  <2> QED BY <2>2, <2>4, <2>5 DEF Base
<1>3. ASSUME Recibir(m), leidas' = {}, NEW F, Prosigue(curso, F),
             cache' \in SUBSET [reserva : Nat, servicio : Nat],
             sesion = Cerrada => cache' = {},
             dicho' \in {"exito", "error"}, UNCHANGED <<sesion, servidor, tablas, historia>>
      PROVE  Base'
  <2>1. Dialogo' /\ curso' \in Cursos /\ pcC' \in {"bienvenida", "principal", "elige", "envia"}
    BY <1>0, <1>3, ProsigueDialogo DEF Base, EnPeticion
  <2>2. TipoCliente'
    BY <1>0, <1>1, <1>3, <2>1 DEF TipoCliente
  <2>3. TypeOK'
    BY <1>0, <1>1, <1>3, <2>2, TiposPorPartesPrima, PartesQuietas
  <2>4. Acabado'
    BY <1>1, <1>3, <2>1 DEF Base, Acabado, servidor, tablas
  <2> QED BY <2>1, <2>3, <2>4 DEF Base
<1>4. CASE CargaReservas(m, lineas)
  <2>1. CASE Muere
    BY <2>1, MuereBase
  <2>2. CASE /\ Recibir(m) /\ dicho' = "error" /\ leidas' = {} /\ cache' = cache
             /\ Prosigue(curso, {})
             /\ UNCHANGED <<sesion, servidor, tablas, historia>>
    BY <1>0, <1>3, <2>2 DEF TipoCliente, Base, Dialogo
  <2>3. CASE /\ Recibir(m) /\ dicho' = "exito" /\ leidas' = {}
             /\ cache' = cache \cup {[reserva |-> l.id, servicio |-> l.servicio] : l \in lineas}
             /\ Prosigue(curso, cache')
             /\ UNCHANGED <<sesion, servidor, tablas, historia>>
    <3>1. \A l \in lineas : l.id \in Nat /\ l.servicio \in Nat
      BY <1>1, <2>3, CamposLinea
    <3>2. cache' \in SUBSET [reserva : Nat, servicio : Nat]
      BY <1>0, <2>3, <3>1 DEF TipoCliente
    <3>3. sesion # Cerrada
      BY <1>4 DEF RecibeLista, Base, Dialogo, EnPeticion
    <3> QED BY <1>3, <2>3, <3>2, <3>3
  <2> QED BY <1>4, <2>1, <2>2, <2>3 DEF CargaReservas
<1>5. CASE CargaNegocios(m, lineas)
  BY <1>0, <1>3, <1>5 DEF CargaNegocios, TipoCliente, Base, Dialogo
<1> QED BY <1>2, <1>4, <1>5 DEF RecibeLista

LEMMA RecibeBase ==
  ASSUME Base, Recibe
  PROVE  Base'
BY RecibeAccesoBase, RecibeLogoutBase, RecibeCambioBase, RecibeListaBase DEF Recibe

-----------------------------------------------------------------------------
(* What the steps of the server do                                          *)

\* A handler that answers keeps the types, when it keeps those of the tables.
LEMMA AtiendeBase ==
  ASSUME Base, NEW c, Atiende(c), NEW r \in {"exito", "error"},
         NEW lineas \in Seq(Lineas), lineas # <<>>, Contesta(r, lineas),
         TipoTablas', IsFiniteSet(DOMAIN usuario')
  PROVE  Base'
<1>0. TipoCliente /\ TipoRed /\ TipoServidor /\ TipoHistoria
  BY TiposPorPartes DEF Base
<1>1. TipoServidor'
  BY NadaTipo DEF Atiende, Contesta, TipoServidor
<1>2. TipoHistoria'
  BY <1>0 DEF Atiende, SinCambioCliente, Contesta, TipoHistoria
<1>3. UNCHANGED cliente /\ UNCHANGED red /\ conectado' = conectado
  BY DEF Atiende, SinCambioCliente, cliente
<1>4. TypeOK'
  BY <1>0, <1>1, <1>2, <1>3, TiposPorPartesPrima, PartesQuietas
<1>5. Dialogo'
  BY <1>3 DEF Base, Dialogo, EnPeticion, cliente
<1>6. Acabado'
  BY <1>3 DEF Base, Acabado, Atiende, cliente, red
<1> QED BY <1>4, <1>5, <1>6 DEF Base

LEMMA UnaLinea ==
  ASSUME NEW m \in Lineas
  PROVE  <<m>> \in Seq(Lineas) /\ <<m>> # <<>> /\ Len(<<m>>) = 1 /\ <<m>>[1] = m
OBVIOUS

LEMMA RechazaBase ==
  ASSUME Base, NEW c, Rechaza(c)
  PROVE  Base'
<1>1. TipoTablas /\ IsFiniteSet(DOMAIN usuario)
  BY TiposPorPartes DEF Base, Acabado
<1>2. TipoTablas' /\ IsFiniteSet(DOMAIN usuario')
  BY <1>1, PartesQuietas DEF Rechaza, tablas
<1>3. Linea("ERR") \in Lineas
  BY LineasTipo
<1> QED BY <1>2, <1>3, UnaLinea, AtiendeBase DEF Rechaza

\* s has every element of S.
Recorre(s, S) == \A x \in S : \E i \in 1 .. Len(s) : s[i] = x

\* The frames of a list: a first and a last one, and the rows between them.
LEMMA ListaForma ==
  ASSUME NEW S, IsFiniteSet(S), S \subseteq Lineas, NEW s,
         s = <<Linea("LIST_START")>> \o SetToSeq(S) \o <<Linea("LIST_END")>>
  PROVE  /\ s \in Seq(Lineas) /\ Len(s) >= 2
         /\ s[1] = Linea("LIST_START") /\ s[Len(s)] = Linea("LIST_END")
         /\ \A i \in 2 .. Len(s) - 1 : s[i] \in S
         /\ Recorre(s, S)
<1> DEFINE f == SetToSeq(S)
           a == <<Linea("LIST_START")>>
           z == <<Linea("LIST_END")>>
<1>1. a \in Seq(Lineas) /\ z \in Seq(Lineas) /\ Len(a) = 1 /\ Len(z) = 1
      /\ a[1] = Linea("LIST_START") /\ z[1] = Linea("LIST_END")
  BY LineasTipo, UnaLinea
<1>2. /\ f \in Seq(Lineas) /\ Len(f) \in Nat
      /\ \A i \in 1 .. Len(f) : f[i] \in S
      /\ \A x \in S : \E i \in 1 .. Len(f) : f[i] = x
  <2>1. f \in Seq(Lineas)
    BY SetToSeqLista
  <2>2. Len(f) \in Nat
    BY <2>1, LenProperties
  <2>3. \A i \in 1 .. Len(f) : f[i] \in S
    BY SetToSeqLista
  <2>4. \A x \in S : \E i \in 1 .. Len(f) : f[i] = x
    BY SetToSeqLista
  <2> QED BY <2>1, <2>2, <2>3, <2>4
<1> HIDE DEF f, a, z
<1> DEFINE b == a \o f
<1>3. b \in Seq(Lineas) /\ Len(b) = 1 + Len(f)
      /\ \A i \in 1 .. Len(b) : b[i] = IF i <= 1 THEN a[i] ELSE f[i - 1]
  <2>1. /\ b \in Seq(Lineas) /\ Len(b) = Len(a) + Len(f)
        /\ \A i \in 1 .. Len(a) + Len(f) : b[i] = IF i <= Len(a) THEN a[i] ELSE f[i - Len(a)]
    BY <1>1, <1>2, ConcatProperties
  <2> QED BY <1>1, <1>2, <2>1
<1> HIDE DEF b
<1>4. s \in Seq(Lineas) /\ Len(s) = Len(b) + 1
      /\ \A i \in 1 .. Len(s) : s[i] = IF i <= Len(b) THEN b[i] ELSE z[i - Len(b)]
  <2>1. s = b \o z
    BY DEF b, a, f, z
  <2>2. /\ b \o z \in Seq(Lineas) /\ Len(b \o z) = Len(b) + Len(z)
        /\ \A i \in 1 .. Len(b) + Len(z) :
              (b \o z)[i] = IF i <= Len(b) THEN b[i] ELSE z[i - Len(b)]
    BY <1>1, <1>3, ConcatProperties
  <2> QED BY <1>1, <2>1, <2>2
<1>5. \A i \in 2 .. Len(s) - 1 : s[i] = f[i - 1] /\ i - 1 \in 1 .. Len(f)
  BY <1>2, <1>3, <1>4
<1>6. \A x \in S : \E i \in 1 .. Len(s) : s[i] = x
  <2> TAKE x \in S
  <2>1. PICK k \in 1 .. Len(f) : f[k] = x
    BY <1>2
  <2>2. k + 1 \in 2 .. Len(s) - 1 /\ k + 1 \in 1 .. Len(s)
    BY <1>2, <1>3, <1>4
  <2> QED BY <1>5, <2>1, <2>2
<1>7. Len(s) = Len(f) + 2 /\ Len(s) \in Nat /\ Len(b) = Len(s) - 1
  BY <1>2, <1>3, <1>4
<1>8. s[1] = b[1] /\ b[1] = a[1] /\ s[Len(s)] = z[1]
  <2>1. 1 \in 1 .. Len(b) /\ 1 \in 1 .. Len(s) /\ 1 <= Len(b)
    BY <1>2, <1>3, <1>7
  <2>2. Len(s) \in 1 .. Len(s) /\ ~(Len(s) <= Len(b)) /\ Len(s) - Len(b) = 1
    BY <1>2, <1>7
  <2> QED BY <1>3, <1>4, <2>1, <2>2
<1>9. \A i \in 2 .. Len(s) - 1 : s[i] \in S
  BY <1>2, <1>5
<1>10. s \in Seq(Lineas) /\ Len(s) >= 2
  BY <1>2, <1>4, <1>7
<1>11. s[1] = Linea("LIST_START") /\ s[Len(s)] = Linea("LIST_END")
  BY <1>1, <1>8, Zenon
<1>12. Recorre(s, S)
  BY <1>6, Zenon DEF Recorre
<1> QED BY <1>9, <1>10, <1>11, <1>12, Zenon

FilasReserva(u) == {Fila(i, reserva[i].servicio) : i \in {j \in DOMAIN reserva : reserva[j].usuario = u}}

FilasNegocio == {Negocio(v) : v \in Servicios}

LEMMA FilasTipo ==
  ASSUME TipoTablas
  PROVE  /\ FilasNegocio \subseteq Lineas /\ IsFiniteSet(FilasNegocio)
         /\ \A u : FilasReserva(u) \subseteq Lineas /\ IsFiniteSet(FilasReserva(u))
<1>1. FilasNegocio \subseteq Lineas
  <2>1. \A v \in Servicios : Negocio(v) \in Lineas
    BY LineasTipo, Parametros
  <2> QED BY <2>1 DEF FilasNegocio
<1>2. IsFiniteSet(FilasNegocio)
  <2> DEFINE f == [v \in Servicios |-> Negocio(v)]
  <2>1. f \in Surjection(Servicios, FilasNegocio)
    BY DEF Surjection, FilasNegocio
  <2> QED BY <2>1, Parametros, FS_Surjection
<1>3. ASSUME NEW u
      PROVE  FilasReserva(u) \subseteq Lineas /\ IsFiniteSet(FilasReserva(u))
  <2> DEFINE D == {j \in DOMAIN reserva : reserva[j].usuario = u}
             f == [i \in D |-> Fila(i, reserva[i].servicio)]
  <2>1. D \subseteq 1 .. seqReserva /\ seqReserva \in Int
    BY Parametros DEF TipoTablas
  <2>2. IsFiniteSet(D)
    <3>1. IsFiniteSet(1 .. seqReserva)
      BY <2>1, FS_Interval
    <3> QED BY <2>1, <3>1, FS_Subset
  <2>3. f \in Surjection(D, FilasReserva(u))
    BY DEF Surjection, FilasReserva
  <2>4. IsFiniteSet(FilasReserva(u))
    BY <2>2, <2>3, FS_Surjection
  <2>5. \A i \in D : i \in Nat /\ reserva[i].servicio \in Nat
    BY <2>1 DEF TipoTablas
  <2>6. FilasReserva(u) \subseteq Lineas
    <3>1. \A i \in D : Fila(i, reserva[i].servicio) \in Lineas
      BY <2>5, LineasTipo
    <3> QED BY <3>1 DEF FilasReserva
  <2> QED BY <2>4, <2>6
<1> QED BY <1>1, <1>2, <1>3

LEMMA ListadosBase ==
  ASSUME Base, handler_servicios_get_all \/ handler_get_reserva
  PROVE  Base'
<1>1. TipoTablas /\ IsFiniteSet(DOMAIN usuario)
  BY TiposPorPartes DEF Base, Acabado
<1>2. TipoTablas' /\ IsFiniteSet(DOMAIN usuario')
  BY <1>1, PartesQuietas DEF handler_servicios_get_all, handler_get_reserva, Rechaza, tablas
<1>3. ASSUME NEW c, Atiende(c), NEW S, IsFiniteSet(S), S \subseteq Lineas, Lista(SetToSeq(S))
      PROVE  Base'
  <2> DEFINE s == <<Linea("LIST_START")>> \o SetToSeq(S) \o <<Linea("LIST_END")>>
  <2>1. s \in Seq(Lineas) /\ Len(s) >= 2
    BY <1>3, ListaForma
  <2>2. s # <<>>
    BY <2>1
  <2>3. Contesta("exito", s)
    BY <1>3 DEF Lista, Exito
  <2> QED BY <1>2, <1>3, <2>1, <2>2, <2>3, AtiendeBase
<1>4. CASE \E c \in Listados : Rechaza(c)
  <2>1. PICK c \in Listados : Rechaza(c)
    BY <1>4
  <2> QED BY <2>1, RechazaBase
<1>5. ASSUME NEW S \in Leidas(FilasNegocio)
      PROVE  S \subseteq Lineas /\ IsFiniteSet(S)
  BY <1>1, <1>5, FilasTipo, FS_EmptySet DEF Leidas
<1>6. ASSUME NEW u, NEW S \in Leidas(FilasReserva(u))
      PROVE  S \subseteq Lineas /\ IsFiniteSet(S)
  BY <1>1, <1>6, FilasTipo, FS_EmptySet DEF Leidas
<1>7. CASE Atiende("GET_SERVICIOS") /\ \E S \in Leidas(FilasNegocio) : Lista(SetToSeq(S))
  BY <1>3, <1>5, <1>7
<1>8. CASE Atiende("GET_RESERVA") /\ \E S \in Leidas(FilasReserva(recibida.usuario)) : Lista(SetToSeq(S))
  BY <1>3, <1>6, <1>8
<1> QED
  BY <1>4, <1>7, <1>8
  DEF handler_servicios_get_all, handler_get_reserva, FilasNegocio, FilasReserva, Listados

LEMMA AccesosBase ==
  ASSUME Base, handler_auth_login \/ handler_auth_register \/ handler_auth_logout
  PROVE  Base'
<1>1. TipoTablas /\ IsFiniteSet(DOMAIN usuario) /\ TipoServidor
  BY TiposPorPartes DEF Base, Acabado
<1>2. ASSUME UNCHANGED tablas
      PROVE  TipoTablas' /\ IsFiniteSet(DOMAIN usuario')
  BY <1>1, <1>2, PartesQuietas DEF tablas
<1>3. ASSUME NEW c, Atiende(c), NEW m \in Lineas, Exito(<<m>>),
             TipoTablas', IsFiniteSet(DOMAIN usuario')
      PROVE  Base'
  BY <1>3, UnaLinea, AtiendeBase DEF Exito
<1>4. CASE \E c \in {"LOGIN", "REGISTER"} : Rechaza(c)
  BY <1>4, RechazaBase
<1>5. CASE /\ Atiende("LOGIN") /\ recibida.dni \in DOMAIN usuario
           /\ Exito(<<Ok(usuario[recibida.dni])>>)
           /\ UNCHANGED tablas
  <2>1. Ok(usuario[recibida.dni]) \in Lineas
    BY <1>1, <1>5, LineasTipo DEF TipoTablas
  <2> QED BY <1>2, <1>3, <1>5, <2>1
<1>6. CASE handler_auth_register /\ ~Rechaza("REGISTER")
  <2> DEFINE i == Cardinality(DOMAIN usuario)
             D == DOMAIN usuario \cup {recibida.dni}
  <2>1. /\ recibida.dni \in Dnis /\ Atiende("REGISTER")
        /\ usuario' = [d \in D |-> IF d = recibida.dni THEN i ELSE usuario[d]]
        /\ UNCHANGED <<reserva, seqReserva>>
    BY <1>1, <1>6, CamposCurso DEF handler_auth_register, TipoServidor
  <2>2. i \in Nat
    BY <1>1, FS_CardinalityType
  <2>3. TipoTablas'
    BY <1>1, <2>1, <2>2 DEF TipoTablas
  <2>4. IsFiniteSet(DOMAIN usuario')
    BY <1>1, <2>1, FS_AddElement
  <2>5. PICK n \in IdAnotado(i) : Exito(<<Ok(n)>>)
    BY <1>6 DEF handler_auth_register
  <2>6. Ok(n) \in Lineas
    BY <2>2, <2>5, Parametros, LineasTipo DEF IdAnotado
  <2> QED BY <1>3, <2>1, <2>3, <2>4, <2>5, <2>6
<1>7. CASE handler_auth_logout
  BY <1>2, <1>3, <1>7, LineasTipo DEF handler_auth_logout
<1> QED BY <1>4, <1>5, <1>6, <1>7 DEF handler_auth_login

LEMMA CambiosBase ==
  ASSUME Base, handler_create_reserva \/ handler_cancel_reserva \/ handler_update_reserva
  PROVE  Base'
<1>1. TipoTablas /\ IsFiniteSet(DOMAIN usuario) /\ TipoServidor /\ seqReserva \in Nat
  BY TiposPorPartes, Parametros DEF Base, Acabado, TipoTablas
<1>2. recibida \in Cursos /\ recibida.usuario \in Nat /\ recibida.servicio \in Nat
      /\ recibida.reserva \in Nat
  BY <1>1, CamposCurso DEF TipoServidor
<1>3. ASSUME NEW c, Atiende(c), NEW m \in Lineas, Exito(<<m>>), TipoTablas', usuario' = usuario
      PROVE  Base'
  BY <1>1, <1>3, UnaLinea, AtiendeBase DEF Exito
<1>4. CASE \E c \in {"CREATE_RESERVA", "CANCEL_RESERVA", "UPDATE_RESERVA"} : Rechaza(c)
  BY <1>4, RechazaBase
<1>5. CASE handler_create_reserva /\ ~Rechaza("CREATE_RESERVA")
  <2>1. Ok(seqReserva') \in Lineas
    <3>1. seqReserva' = seqReserva + 1
      BY <1>5 DEF handler_create_reserva
    <3>2. seqReserva' \in Nat
      BY <1>1, <3>1
    <3> QED BY <3>2, LineasTipo
  <2>2. TipoTablas'
    <3> DEFINE f == [usuario |-> recibida.usuario, servicio |-> recibida.servicio]
    <3>1. f \in [usuario : Nat, servicio : Nat]
      BY <1>2
    <3>2. /\ seqReserva' = seqReserva + 1 /\ seqReserva < MaxReserva
          /\ reserva' = [i \in DOMAIN reserva \cup {seqReserva'} |->
                           IF i = seqReserva' THEN f ELSE reserva[i]]
          /\ usuario' = usuario
      BY <1>5 DEF handler_create_reserva
    <3>3. seqReserva' \in 0 .. MaxReserva /\ DOMAIN reserva' \subseteq 1 .. seqReserva'
      BY <1>1, <3>2, Parametros DEF TipoTablas
    <3> HIDE DEF f
    <3> QED BY <1>1, <3>1, <3>2, <3>3 DEF TipoTablas
  <2> QED BY <1>3, <1>5, <2>1, <2>2 DEF handler_create_reserva
<1>6. CASE handler_cancel_reserva /\ ~Rechaza("CANCEL_RESERVA")
  <2>1. TipoTablas'
    BY <1>1, <1>6 DEF handler_cancel_reserva, TipoTablas
  <2> QED BY <1>3, <1>6, <2>1, LineasTipo DEF handler_cancel_reserva
<1>7. CASE handler_update_reserva /\ ~Rechaza("UPDATE_RESERVA")
  <2>1. Ok(recibida.reserva) \in Lineas
    BY <1>2, LineasTipo
  <2>2. TipoTablas'
    BY <1>1, <1>2, <1>7 DEF handler_update_reserva, TipoTablas
  <2> QED BY <1>3, <1>7, <2>1, <2>2 DEF handler_update_reserva
<1> QED BY <1>4, <1>5, <1>6, <1>7 DEF handler_create_reserva, handler_cancel_reserva,
     handler_update_reserva

LEMMA BucleBase ==
  ASSUME Base, RecibeComando \/ RecibeParametros \/ Desconecta \/ EnviaLinea
  PROVE  Base'
<1>0. TipoCliente /\ TipoRed /\ TipoServidor /\ TipoTablas /\ TipoHistoria
  BY TiposPorPartes DEF Base
<1>1. /\ UNCHANGED cliente /\ UNCHANGED tablas /\ UNCHANGED historia
      /\ conectado' = conectado /\ enlace' = enlace
  BY DEF RecibeComando, RecibeParametros, Desconecta, EnviaLinea, SinCambioCliente, historia,
         cliente, red
<1>2. TipoRed' /\ TipoServidor'
  <2>1. CASE RecibeComando
    <3>1. Head(aServidor) \in Tramas /\ Tail(aServidor) \in Seq(Tramas)
      BY <1>0, <2>1, HeadTailProperties DEF RecibeComando, TipoRed
    <3>2. Head(aServidor).pet \in Cursos
      BY <3>1 DEF Tramas
    <3>3. Linea("ERR") \in Lineas
      BY LineasTipo
    <3>4. TipoRed'
      BY <1>0, <1>1, <2>1, <3>1 DEF RecibeComando, TipoRed
    <3>5. TipoServidor'
      BY <1>0, <2>1, <3>2, <3>3, UnaLinea DEF RecibeComando, TipoServidor
    <3> QED BY <3>4, <3>5
  <2>2. CASE RecibeParametros
    <3>1. CASE aServidor # <<>> /\ aServidor' = Tail(aServidor)
               /\ recibida' = [Parametro(Head(aServidor)) EXCEPT !.cmd = recibida.cmd]
      <4>1. Head(aServidor) \in Tramas /\ Tail(aServidor) \in Seq(Tramas)
        BY <1>0, <3>1, HeadTailProperties DEF TipoRed
      <4>2. Parametro(Head(aServidor)) \in Cursos
        BY <4>1, NadaTipo DEF Tramas, Parametro
      <4>3. recibida' \in Cursos
        BY <1>0, <3>1, <4>2 DEF Cursos, TipoServidor
      <4> QED BY <1>0, <1>1, <2>2, <3>1, <4>1, <4>3 DEF RecibeParametros, TipoRed, TipoServidor
    <3>2. CASE UNCHANGED <<recibida, aServidor>>
      BY <1>0, <1>1, <2>2, <3>2 DEF RecibeParametros, TipoRed, TipoServidor
    <3> QED BY <2>2, <3>1, <3>2 DEF RecibeParametros
  <2>3. CASE Desconecta
    BY <1>0, <1>1, <2>3 DEF Desconecta, TrasCorte, TipoRed, TipoServidor, red
  <2>4. CASE EnviaLinea
    <3>1. salida # <<>> /\ Head(salida) \in Lineas /\ Tail(salida) \in Seq(Lineas)
      BY <1>0, <2>4, HeadTailProperties DEF EnviaLinea, TipoServidor
    <3>2. aCliente' \in Seq(Lineas)
      BY <1>0, <2>4, <3>1, AppendProperties DEF EnviaLinea, TipoRed
    <3> QED BY <1>0, <1>1, <2>4, <3>1, <3>2 DEF EnviaLinea, TipoRed, TipoServidor
  <2> QED BY <2>1, <2>2, <2>3, <2>4
<1>3. TypeOK'
  BY <1>0, <1>1, <1>2, TiposPorPartesPrima, PartesQuietas
<1>4. Dialogo'
  BY <1>1 DEF Base, Dialogo, EnPeticion, cliente
<1>5. Acabado'
  BY <1>1 DEF Base, Acabado, RecibeComando, RecibeParametros, Desconecta, TrasCorte, EnviaLinea,
     cliente, tablas
<1> QED BY <1>3, <1>4, <1>5 DEF Base

-----------------------------------------------------------------------------
(* Faults                                                                   *)

LEMMA PrefijosTipo ==
  ASSUME NEW S, NEW q \in Seq(S), NEW p \in Prefijos(q)
  PROVE  /\ p \in Seq(S) /\ Len(p) \in 0 .. Len(q)
         /\ \A i \in 1 .. Len(p) : p[i] = q[i]
<1>1. PICK n \in 0 .. Len(q) : p = SubSeq(q, 1, n)
  BY DEF Prefijos
<1>2. \A i \in 1 .. n : q[i] \in S
  BY <1>1, ElementOfSeq, LenProperties
<1>3. /\ p \in Seq(S) /\ Len(p) = IF 1 <= n THEN n - 1 + 1 ELSE 0
      /\ \A i \in 1 .. n - 1 + 1 : p[i] = q[1 + i - 1]
  BY <1>1, <1>2, LenProperties, SubSeqProperties
<1> QED BY <1>1, <1>3, LenProperties

LEMMA FallosBase ==
  ASSUME Base, SeCorta \/ Cae \/ Termina \/ Reinicia
  PROVE  Base'
<1>0. TipoCliente /\ TipoRed /\ TipoServidor /\ TipoTablas /\ TipoHistoria
  BY TiposPorPartes DEF Base
<1>1. \A S : <<>> \in Seq(S)
  OBVIOUS
<1>2. /\ \A p \in Prefijos(aServidor) : p \in Seq(Tramas)
      /\ \A p \in Prefijos(aCliente) : p \in Seq(Lineas)
  BY <1>0, PrefijosTipo DEF TipoRed
<1>3. CASE SeCorta
  <2>1. TipoRed'
    BY <1>0, <1>2, <1>3 DEF SeCorta, TipoRed, cliente
  <2>2. TypeOK'
    BY <1>0, <1>3, <2>1, TiposPorPartesPrima, PartesQuietas DEF SeCorta
  <2>3. Dialogo' /\ Acabado'
    BY <1>3 DEF SeCorta, Base, Dialogo, Acabado, EnPeticion, cliente, servidor, tablas
  <2> QED BY <2>2, <2>3 DEF Base
<1>4. CASE Cae
  <2>1. TipoRed'
    BY <1>0, <1>1, <1>2, <1>4 DEF Cae, TipoRed, cliente
  <2>2. TipoServidor'
    BY <1>0, <1>1, <1>4, NadaTipo DEF Cae, TipoServidor
  <2>3. TypeOK'
    BY <1>0, <1>4, <2>1, <2>2, TiposPorPartesPrima, PartesQuietas DEF Cae
  <2>4. Dialogo' /\ Acabado'
    BY <1>4 DEF Cae, Base, Dialogo, Acabado, EnPeticion, cliente, tablas
  <2> QED BY <2>3, <2>4 DEF Base
<1>5. CASE Termina
  <2>1. TipoRed'
    BY <1>0, <1>1, <1>2, <1>5 DEF Termina, TipoRed
  <2>2. TipoCliente' /\ TipoHistoria'
    BY <1>0, <1>5, NadaTipo DEF Termina, TipoCliente, TipoHistoria
  <2>3. TypeOK'
    BY <1>0, <1>5, <2>1, <2>2, TiposPorPartesPrima, PartesQuietas DEF Termina
  <2>4. Dialogo' /\ Acabado'
    BY <1>5 DEF Termina, Base, Dialogo, Acabado, EnPeticion, Nada, servidor, tablas
  <2> QED BY <2>3, <2>4 DEF Base
<1>6. CASE Reinicia
  <2>1. TipoRed' /\ TipoServidor'
    BY <1>1, <1>6, NadaTipo DEF Reinicia, TipoRed, TipoServidor
  <2>2. TipoCliente' /\ TipoHistoria'
    BY <1>0, <1>6, NadaTipo, Parametros DEF Reinicia, TipoCliente, TipoHistoria
  <2>3. TypeOK'
    BY <1>0, <1>6, <2>1, <2>2, TiposPorPartesPrima, PartesQuietas DEF Reinicia
  <2>4. Dialogo' /\ Acabado'
    BY <1>6 DEF Reinicia, Base, Dialogo, Acabado, EnPeticion, Nada, tablas
  <2> QED BY <2>3, <2>4 DEF Base
<1> QED BY <1>3, <1>4, <1>5, <1>6

LEMMA InitBase == Init => Base
<1> SUFFICES ASSUME Init
             PROVE  Base
  OBVIOUS
<1>1. <<>> \in Seq(Tramas) /\ <<>> \in Seq(Lineas)
  OBVIOUS
<1>2. TipoCliente /\ TipoRed /\ TipoServidor /\ TipoHistoria
  BY <1>1, NadaTipo, Parametros DEF Init, TipoCliente, TipoRed, TipoServidor, TipoHistoria
<1>3. usuario \in [Registrados -> 0 .. Cardinality(Registrados) - 1]
  BY DEF Init, Bijection, Injection, Surjection
<1>4. Cardinality(Registrados) \in Nat
  BY Parametros, FS_CardinalityType
<1>5. TipoTablas
  BY <1>3, <1>4, Parametros DEF Init, TipoTablas
<1>6. Dialogo
  BY DEF Init, Dialogo, EnPeticion, Nada
<1>7. Acabado
  BY <1>3, Parametros DEF Init, Acabado
<1> QED BY <1>2, <1>5, <1>6, <1>7, TiposPorPartes DEF Base

LEMMA BasePaso == Base /\ [Next]_vars => Base'
<1> SUFFICES ASSUME Base, [Next]_vars
             PROVE  Base'
  OBVIOUS
<1>1. CASE OpcionBienvenida \/ OpcionPrincipal \/ OpcionReserva \/ DaFecha \/ DejaLaFecha
  BY <1>1, OpcionesBase
<1>2. CASE PasoCliente
  BY <1>2, EnviosBase, RecibeBase DEF PasoCliente
<1>3. CASE PasoServidor
  BY <1>3, BucleBase, AccesosBase, ListadosBase, CambiosBase DEF PasoServidor
<1>4. CASE SeCorta \/ Cae \/ Termina \/ Reinicia
  BY <1>4, FallosBase
<1>5. CASE UNCHANGED vars
  <2>1. TypeOK'
    BY <1>5, TiposPorPartes, TiposPorPartesPrima, PartesQuietas DEF Base, vars, cliente, red
  <2>2. Dialogo' /\ Acabado'
    BY <1>5 DEF Base, Dialogo, Acabado, EnPeticion, vars, cliente, red, servidor, tablas
  <2> QED BY <2>1, <2>2 DEF Base
<1> QED BY <1>1, <1>2, <1>3, <1>4, <1>5 DEF Next

\* Every variable has its type (TypeOK), in step with the server or not.
THEOREM TiposCorrectos == Spec => []TypeOK
<1>1. Base => TypeOK
  BY DEF Base
<1> QED BY <1>1, InitBase, BasePaso, PTL DEF Spec
=============================================================================
