--------------------------- MODULE PromesaProofs ---------------------------
(***************************************************************************)
(* Theorems about the steps of Protocolo: what a client in step with its   *)
(* server reports, shows and does is what has happened, and the two of     *)
(* them implement Peticiones.                                              *)
(***************************************************************************)
EXTENDS SincroniaProofs

-----------------------------------------------------------------------------
(* What arrives *)

\* The first frame that waits is one of the answer to the request of the client.
LEMMA Primera ==
  ASSUME Base, Sinc, pcC \in {"recibe", "lista"}, aCliente # <<>>, NEW m, m = Siguiente
  PROVE  /\ hecha # "no" /\ curso = pedida
         /\ curso.cmd \notin Listados \/ hecha = "error" => m \in Unicas
         /\ pcC = "lista" => hecha = "exito"
         /\ curso.cmd \in Listados /\ hecha # "error" =>
              /\ hecha = "exito" /\ leidas \subseteq Filas
              /\ pcC = "recibe" => m.tipo = "LIST_START"
              /\ pcC = "lista" => m \in Filas \/ m.tipo = "LIST_END"
<1>0. TipoHistoria /\ aCliente \in Seq(Lineas)
  BY TiposPorPartes DEF Base, TipoRed
<1>1. hecha # "no" /\ Espera /\ curso = pedida
  BY DEF Sinc, Marcha, Respondida, EnPaso, Espera
<1> pcC = "lista" => hecha = "exito"
  BY DEF Sinc, Marcha, EnPaso
<1>2. Empieza(aCliente, Modo, Validas)
  BY <1>1 DEF Sinc, Marcha, Respondida
<1>3. Len(aCliente) \in Nat /\ Len(aCliente) > 0 /\ m = aCliente[1]
  BY <1>0, EmptySeq, HeadTailProperties DEF Siguiente
<1>4. 1 \in 1 .. Len(aCliente)
  BY <1>3
<1>5. CASE curso.cmd \notin Listados \/ hecha = "error"
  <2>1. Modo = "una" /\ Validas = Unicas
    BY <1>1, <1>5, ModoValor
  <2> QED BY <1>1, <1>2, <1>3, <1>4, <1>5, <2>1 DEF Empieza
<1>6. CASE curso.cmd \in Listados /\ hecha # "error"
  <2>1. /\ Modo # "una" /\ (Modo = "abierta" <=> pcC = "lista") /\ Validas = Filas
        /\ Modo \in {"lista", "abierta"}
    BY <1>1, <1>6, ModoValor
  <2>2. hecha = "exito" /\ leidas \subseteq Filas
    BY <1>0, <1>1, <1>6 DEF Sinc, Marcha, Respondida, TipoHistoria
  <2>3. pcC = "recibe" => m.tipo = "LIST_START"
    BY <1>2, <1>3, <1>4, <2>1 DEF Empieza
  <2>4. pcC = "lista" => m \in Filas \/ m.tipo = "LIST_END"
    BY <1>2, <1>3, <1>4, <2>1 DEF Empieza
  <2> QED BY <1>1, <1>6, <2>2, <2>3, <2>4
<1> QED BY <1>5, <1>6

\* The loss of the connection reads as an empty frame.
LEMMA Perdida ==
  ASSUME aCliente = <<>>, NEW m, m = Siguiente
  PROVE  m.tipo = "" /\ ~esOk(m) /\ ~esError(m)
<1>1. m.tipo = ""
  BY LineasTipo DEF Siguiente
<1> QED BY <1>1 DEF esOk, esError

\* The frame that ends a list is the refusal of a server that has read nothing, or the
\* end of the rows of one that has.
LEMMA UltimaDeLista ==
  ASSUME Base, Sinc, pcC \in {"recibe", "lista"}, aCliente # <<>>, NEW m, m = Siguiente,
         curso.cmd \in Listados,
         IF pcC = "lista" THEN m.tipo \in {"LIST_END", ""} ELSE m.tipo # "LIST_START"
  PROVE  \/ hecha = "error" /\ m.tipo = "ERR" /\ pcC = "recibe"
         \/ m.tipo = "LIST_END" /\ pcC = "lista" /\ hecha = "exito" /\ leidas \cup Datos(m) \subseteq Filas
<1>1. CASE hecha = "error"
  <2>1. m \in Unicas /\ pcC = "recibe"
    BY <1>1, Primera
  <2> QED BY <1>1, <2>1 DEF Unicas
<1>2. CASE hecha # "error"
  <2>1. /\ hecha = "exito" /\ leidas \subseteq Filas
        /\ pcC = "recibe" => m.tipo = "LIST_START"
        /\ pcC = "lista" => m \in Filas \/ m.tipo = "LIST_END"
    BY <1>2, Primera
  <2>2. SinMarca(Filas)
    BY FilasSinMarca
  <2>3. m.tipo = "LIST_END" /\ pcC = "lista"
    BY <2>1, <2>2 DEF SinMarca
  <2> QED BY <2>1, <2>3 DEF Datos
<1> QED BY <1>1, <1>2

-----------------------------------------------------------------------------
(* The end of the client, and of its session *)

LEMMA ProsigueVivo ==
  ASSUME NEW p, NEW F, Prosigue(p, F)
  PROVE  pcC' \in Menus
BY MenuAdonde DEF Prosigue, Menus

\* With the connection up no answer ends the client (MuereSoloPorCorte).
LEMMA NoMuere ==
  ASSUME Base, Sinc, Recibe, enlace
  PROVE  pcC' # "muerto" /\ ~Muere
<1>1. pcC \in {"recibe", "lista"} /\ aCliente # <<>>
  BY DEF Recibe
<1>2. PICK m \in {Siguiente} : RecibeAcceso(m) \/ RecibeLogout(m) \/ RecibeCambio(m) \/ RecibeLista(m)
  BY DEF Recibe
<1>3. m = Siguiente
  BY <1>2
<1>4. SUFFICES pcC' # "muerto"
  BY DEF Muere
<1>5. CASE RecibeAcceso(m)
  <2>1. curso.cmd \in {"LOGIN", "REGISTER"} /\ curso.cmd \notin Listados
    BY <1>5 DEF RecibeAcceso, Listados
  <2>2. m \in Unicas /\ curso = pedida
    BY <1>1, <1>3, <2>1, Primera
  <2>3. m.tipo # "OK_TEXTO"
    BY <2>1, <2>2 DEF Unicas
  <2> QED BY <1>5, <2>3 DEF RecibeAcceso
<1>6. CASE RecibeLogout(m) \/ RecibeCambio(m)
  BY <1>6 DEF RecibeLogout, RecibeCambio
<1>7. CASE RecibeLista(m)
  <2> DEFINE cierra == IF pcC = "lista" THEN m.tipo \in {"LIST_END", ""} ELSE m.tipo # "LIST_START"
             lineas == leidas \cup Datos(m)
  <2>1. CASE ~cierra /\ pcC' = "lista"
    BY <2>1
  <2>2. CASE cierra /\ curso.cmd = "GET_RESERVA" /\ CargaReservas(m, lineas)
    <3>1. (pcC = "recibe" /\ esError(m)) \/ lineas \subseteq Filas
      BY <1>1, <1>3, <2>2, UltimaDeLista DEF Listados, esError
    <3>2. Filas = FilasReserva(pedida.usuario)
      <4>1. curso = pedida
        BY <1>1, <1>3, Primera
      <4> QED BY <2>2, <4>1 DEF Filas
    <3>3. (pcC = "recibe" /\ esError(m)) \/ \A l \in lineas : l.tipo = "RESERVA"
      BY <3>1, <3>2 DEF FilasReserva, Fila, Linea
    <3>4. \E F : Prosigue(curso, F)
      BY <2>2, <3>3 DEF CargaReservas
    <3> QED BY <3>4, ProsigueVivo DEF Menus
  <2>3. CASE cierra /\ curso.cmd = "GET_SERVICIOS" /\ CargaNegocios(m, lineas)
    BY <2>3, ProsigueVivo DEF CargaNegocios, Menus
  <2> QED BY <1>7, <2>1, <2>2, <2>3 DEF RecibeLista
<1> QED BY <1>2, <1>5, <1>6, <1>7

\* With the connection up no answer makes std::stoi throw (MuereSoloPorCorte).
THEOREM MuerteSoloPorCorte == Spec => MuereSoloPorCorte
<1>1. IInv /\ [Next]_vars => [Recibe /\ pcC' = "muerto" /\ abandonos = 0 => ~enlace]_vars
  BY NoMuere DEF IInv
<1> QED BY <1>1, IInvSiempre, PTL DEF Spec, MuereSoloPorCorte

\* Only the answer to a LOGOUT, or an end, closes a session.
LEMMA SoloLogoutCierra ==
  ASSUME Base, Next, sesion # Cerrada, sesion' = Cerrada, pcC' \notin {"fin", "muerto"}
  PROVE  pcC \in {"recibe", "lista"} /\ \E m \in {Siguiente} : RecibeLogout(m) /\ CierraSesion(m)
<1>0. TipoCliente /\ TipoRed
  BY TiposPorPartes DEF Base
<1>1. sesion' # sesion
  OBVIOUS
<1>2. ~(OpcionBienvenida \/ OpcionPrincipal \/ OpcionReserva \/ DaFecha \/ DejaLaFecha)
  BY <1>1 DEF OpcionBienvenida, OpcionPrincipal, OpcionReserva, DaFecha, DejaLaFecha, Elige
<1>3. ~(EnviaComando \/ EnviaParametros)
  BY <1>1 DEF EnviaComando, EnviaParametros, NoSale
<1>4. ~(RecibeComando \/ RecibeParametros \/ Desconecta \/ EnviaLinea)
  BY <1>1 DEF RecibeComando, RecibeParametros, Desconecta, EnviaLinea, SinCambioCliente, cliente
<1>5. ~(handler_auth_login \/ handler_auth_register \/ handler_auth_logout)
  BY <1>1 DEF handler_auth_login, handler_auth_register, handler_auth_logout, Rechaza, Atiende,
     SinCambioCliente, cliente
<1>6. ~(handler_servicios_get_all \/ handler_get_reserva)
  BY <1>1 DEF handler_servicios_get_all, handler_get_reserva, Rechaza, Atiende, SinCambioCliente, cliente
<1>7. ~(handler_create_reserva \/ handler_cancel_reserva \/ handler_update_reserva)
  BY <1>1 DEF handler_create_reserva, handler_cancel_reserva, handler_update_reserva, Rechaza,
     Atiende, SinCambioCliente, cliente
<1>8. ~(SeCorta \/ Cae \/ Termina)
  BY <1>1 DEF SeCorta, Cae, Termina, cliente
<1>9. ~Reinicia
  BY DEF Reinicia, Base, Acabado
<1>10. Recibe
  BY <1>2, <1>3, <1>4, <1>5, <1>6, <1>7, <1>8, <1>9 DEF Next, PasoCliente, PasoServidor
<1>11. PICK m \in {Siguiente} : RecibeAcceso(m) \/ RecibeLogout(m) \/ RecibeCambio(m) \/ RecibeLista(m)
  BY <1>10 DEF Recibe
<1>12. ~RecibeAcceso(m)
  BY <1>10 DEF RecibeAcceso, Recibe, Base, Dialogo, EnPeticion
<1>13. ~RecibeCambio(m)
  BY <1>1 DEF RecibeCambio
<1>14. ~RecibeLista(m)
  BY <1>1 DEF RecibeLista, CargaReservas, CargaNegocios, Muere
<1>15. RecibeLogout(m)
  BY <1>11, <1>12, <1>13, <1>14
<1>16. CierraSesion(m)
  BY <1>1, <1>15 DEF RecibeLogout
<1> QED BY <1>10, <1>11, <1>15, <1>16 DEF Recibe

\* A session is closed, while the client runs, only once the server has executed its
\* LOGOUT and the answer has come (SalidaConRespuesta).
THEOREM SalidaRespondida == Spec => SalidaConRespuesta
<1>1. ASSUME IInv, [Next]_vars, sesion # Cerrada, sesion' = Cerrada, pcC' \notin {"fin", "muerto"},
             abandonos = 0
      PROVE  conectado' /\ pedida.cmd = "LOGOUT" /\ hecha = "exito"
  <2>0. TipoHistoria
    BY <1>1, TiposPorPartes DEF IInv, Base
  <2>1. ~UNCHANGED vars
    BY <1>1 DEF vars, cliente
  <2>2. Base /\ Sinc /\ Next
    BY <1>1, <2>1 DEF IInv
  <2>3. PICK m \in {Siguiente} : RecibeLogout(m) /\ CierraSesion(m)
    BY <1>1, <2>2, SoloLogoutCierra
  <2>4. pcC \in {"recibe", "lista"} /\ m = Siguiente
    BY <1>1, <2>2, <2>3, SoloLogoutCierra
  <2>5. esOk(m) /\ Recibir(m) /\ curso.cmd = "LOGOUT" /\ curso.cmd \notin Listados
    BY <2>3 DEF CierraSesion, RecibeLogout, Listados
  <2>6. aCliente # <<>>
    BY <2>4, <2>5, Perdida
  <2>7. m \in Unicas /\ hecha # "no" /\ curso = pedida
    BY <2>2, <2>4, <2>5, <2>6, Primera
  <2>8. hecha # "error"
    BY <2>5, <2>7 DEF Unicas, esOk
  <2>9. conectado'
    BY <2>5, <2>6 DEF Recibir
  <2> QED BY <2>0, <2>5, <2>7, <2>8, <2>9 DEF TipoHistoria
<1>2. IInv /\ [Next]_vars =>
        [sesion # Cerrada /\ sesion' = Cerrada /\ pcC' \notin {"fin", "muerto"} /\ abandonos = 0 =>
           conectado' /\ pedida.cmd = "LOGOUT" /\ hecha = "exito"]_vars
  BY <1>1
<1> QED BY <1>2, IInvSiempre, PTL DEF Spec, SalidaConRespuesta

-----------------------------------------------------------------------------
(* The places shown *)

\* The cache of the services menu, unless it is empty, has one entry for each reservation
\* of the session's user.
LEMMA PlazasContadas ==
  ASSUME Base, Sinc, enlace, curso.cmd = "GET_SERVICIOS", pcC \in {"recibe", "lista"},
         cache # {}, NEW v \in Servicios
  PROVE  contarReservasPorServicio(v) =
           Cardinality({i \in DOMAIN reserva : reserva[i] = [usuario |-> sesion, servicio |-> v]})
<1>0. TipoTablas /\ TipoCliente
  BY TiposPorPartes DEF Base
<1> DEFINE I == {i \in DOMAIN reserva : reserva[i] = [usuario |-> sesion, servicio |-> v]}
           K == {c \in cache : c.servicio = v}
           f == [i \in I |-> [reserva |-> i, servicio |-> v]]
<1>1. cache = {[reserva |-> i, servicio |-> reserva[i].servicio] : i \in Propias}
  BY DEF Sinc, CacheSana, EnPeticion
<1>2. \A i \in DOMAIN reserva :
        reserva[i] = [usuario |-> sesion, servicio |-> v] <=>
          reserva[i].usuario = sesion /\ reserva[i].servicio = v
  BY <1>0 DEF TipoTablas
<1>3. f \in [I -> K]
  <2>1. ASSUME NEW i \in I
        PROVE  [reserva |-> i, servicio |-> v] \in K
    <3>1. i \in Propias /\ reserva[i].servicio = v
      BY <1>2 DEF Propias
    <3>2. [reserva |-> i, servicio |-> v] \in cache
      BY <1>1, <3>1
    <3> QED BY <3>2
  <2> QED BY <2>1
<1>4. \A i, j \in I : f[i] = f[j] => i = j
  <2>1. ASSUME NEW i \in I, NEW j \in I, f[i] = f[j]
        PROVE  i = j
    <3>1. f[i].reserva = i /\ f[j].reserva = j
      OBVIOUS
    <3> QED BY <2>1, <3>1
  <2> QED BY <2>1
<1>5. \A c \in K : \E i \in I : f[i] = c
  <2>1. ASSUME NEW c \in K
        PROVE  \E i \in I : f[i] = c
    <3>1. PICK i \in Propias : c = [reserva |-> i, servicio |-> reserva[i].servicio]
      BY <1>1
    <3>2. reserva[i].servicio = v
      BY <3>1
    <3>3. i \in I
      BY <1>2, <3>2 DEF Propias
    <3>4. f[i] = c
      BY <3>1, <3>2, <3>3
    <3> QED BY <3>3, <3>4
  <2> QED BY <2>1
<1>6. IsFiniteSet(I)
  <2>1. I \subseteq 1 .. seqReserva /\ 1 \in Int /\ seqReserva \in Int
    BY <1>0, Parametros DEF TipoTablas
  <2>2. IsFiniteSet(1 .. seqReserva)
    BY <2>1, FS_Interval
  <2> HIDE DEF I
  <2> QED BY <2>1, <2>2, FS_Subset
<1> HIDE DEF f
<1>7. f \in Bijection(I, K)
  BY <1>3, <1>4, <1>5 DEF Bijection, Injection, Surjection, IsInjective
<1>8. Cardinality(K) = Cardinality(I)
  BY <1>6, <1>7, FS_Bijection DEF ExistsBijection
<1> QED BY <1>8 DEF contarReservasPorServicio

\* The places the services menu shows as taken are none, or all the reservations of the
\* session's user at that moment (PlazasPropias).
THEOREM PlazasDelUsuario == Spec => PlazasPropias
<1>1. ASSUME IInv, MuestraNegocios, cache # {}
      PROVE  \A v \in Servicios : contarReservasPorServicio(v) =
               Cardinality({i \in DOMAIN reserva : reserva[i] = [usuario |-> sesion, servicio |-> v]})
  BY <1>1, PlazasContadas DEF IInv, MuestraNegocios
<1>2. IInv /\ [Next]_vars =>
        [MuestraNegocios /\ cache # {} =>
         \A v \in Servicios : contarReservasPorServicio(v) =
            Cardinality({i \in DOMAIN reserva : reserva[i] = [usuario |-> sesion, servicio |-> v]})]_vars
  BY <1>1
<1> QED BY <1>2, IInvSiempre, PTL DEF Spec, PlazasPropias

-----------------------------------------------------------------------------
(* The two programs implement Peticiones                                    *)

\* Table reserva is a function.
EsTabla == reserva = [i \in DOMAIN reserva |-> reserva[i]]

LEMMA EsTablaInit == Init => EsTabla
<1> SUFFICES ASSUME Init
             PROVE  EsTabla
  OBVIOUS
<1>1. reserva = [i \in {} |-> Nada]
  BY DEF Init
<1>2. DOMAIN reserva = {}
  BY <1>1
<1> QED BY <1>1, <1>2 DEF EsTabla

\* What the steps of the two programs do to table reserva.
LEMMA SinCambio ==
  ASSUME Next, ~handler_create_reserva, ~handler_cancel_reserva, ~handler_update_reserva
  PROVE  reserva' = reserva
<1>1. CASE OpcionBienvenida \/ OpcionPrincipal \/ OpcionReserva \/ DaFecha \/ DejaLaFecha
  BY <1>1 DEF OpcionBienvenida, OpcionPrincipal, OpcionReserva, DaFecha, DejaLaFecha, Elige, tablas
<1>2. CASE EnviaComando \/ EnviaParametros
  BY <1>2 DEF EnviaComando, EnviaParametros, NoSale, tablas
<1>3. CASE Recibe
  BY <1>3 DEF Recibe, RecibeAcceso, RecibeLogout, RecibeCambio, RecibeLista, CargaReservas,
     CargaNegocios, Muere, tablas
<1>4. CASE RecibeComando \/ RecibeParametros \/ Desconecta \/ EnviaLinea
  BY <1>4 DEF RecibeComando, RecibeParametros, Desconecta, EnviaLinea, tablas
<1>5. CASE handler_auth_login \/ handler_auth_register \/ handler_auth_logout
  BY <1>5 DEF handler_auth_login, handler_auth_register, handler_auth_logout, Rechaza, tablas
<1>6. CASE handler_servicios_get_all \/ handler_get_reserva
  BY <1>6 DEF handler_servicios_get_all, handler_get_reserva, Rechaza, tablas
<1>7. CASE SeCorta \/ Cae \/ Termina \/ Reinicia
  BY <1>7 DEF SeCorta, Cae, Termina, Reinicia, tablas
<1> QED BY <1>1, <1>2, <1>3, <1>4, <1>5, <1>6, <1>7 DEF Next, PasoCliente, PasoServidor

LEMMA EsTablaPaso == EsTabla /\ [Next]_vars => EsTabla'
<1> SUFFICES ASSUME EsTabla, [Next]_vars
             PROVE  EsTabla'
  OBVIOUS
<1>1. CASE reserva' = reserva
  BY <1>1 DEF EsTabla
<1>2. CASE handler_create_reserva /\ reserva' # reserva
  <2>1. reserva' = [i \in DOMAIN reserva \cup {seqReserva'} |->
                      IF i = seqReserva'
                        THEN [usuario |-> recibida.usuario, servicio |-> recibida.servicio]
                        ELSE reserva[i]]
    BY <1>2 DEF handler_create_reserva, Rechaza, tablas
  <2> QED BY <2>1 DEF EsTabla
<1>3. CASE handler_cancel_reserva /\ reserva' # reserva
  <2>1. reserva' = [i \in DOMAIN reserva \ {recibida.reserva} |-> reserva[i]]
    BY <1>3 DEF handler_cancel_reserva, Rechaza, tablas
  <2> QED BY <2>1 DEF EsTabla
<1>4. CASE handler_update_reserva /\ reserva' # reserva
  <2>1. reserva' = [reserva EXCEPT ![recibida.reserva].servicio = recibida.servicio]
    BY <1>4 DEF handler_update_reserva, Rechaza, tablas
  <2> QED BY <2>1 DEF EsTabla
<1>5. UNCHANGED vars => reserva' = reserva
  BY DEF vars, tablas
<1> QED BY <1>1, <1>2, <1>3, <1>4, <1>5, SinCambio

\* Outside the wait for an answer Peticiones sees nothing of a step that leaves these alone.
Ajeno == UNCHANGED <<pedida, hecha, dicho, reserva, enlace, abandonos>> /\ Espera' = Espera

LEMMA AjenoTartamudea == Ajeno => UNCHANGED Promesa!estado
BY DEF Ajeno, Espera, Promesa!estado

LEMMA OpcionesPromesa ==
  ASSUME OpcionBienvenida \/ OpcionPrincipal \/ OpcionReserva \/ DaFecha
  PROVE  UNCHANGED Promesa!estado
<1>1. CASE OpcionBienvenida \/ OpcionPrincipal \/ OpcionReserva
  BY <1>1, AjenoTartamudea
     DEF OpcionBienvenida, OpcionPrincipal, OpcionReserva, Elige, Ajeno, Espera, red, tablas, historia
<1>2. CASE DaFecha
  BY <1>2, AjenoTartamudea DEF DaFecha, Ajeno, Espera, red, tablas, historia
<1> QED BY <1>1, <1>2

LEMMA EnviosPromesa ==
  ASSUME EnviaComando \/ EnviaParametros
  PROVE  [Promesa!Next]_(Promesa!estado)
<1>1. CASE NoSale /\ pcC = "envia"
  <2>1. pcC' \in Menus
    BY <1>1, ProsigueVivo DEF NoSale
  <2>2. Promesa!NoSale
    BY <1>1, <2>1 DEF NoSale, Promesa!NoSale, Menus, red, tablas, historia
  <2> QED BY <2>2 DEF Promesa!Next
<1>2. CASE NoSale /\ pcC = "parametros"
  <2>1. pcC' \in Menus
    BY <1>2, ProsigueVivo DEF NoSale
  <2>2. Promesa!Informa
    BY <1>2, <2>1 DEF NoSale, Promesa!Informa, Menus, red, tablas, historia
  <2> QED BY <2>2 DEF Promesa!Next
<1>3. CASE EnviaComando /\ ~NoSale
  <2>1. Promesa!Pide
    BY <1>3 DEF EnviaComando, Sale, Promesa!Pide, tablas
  <2> QED BY <2>1 DEF Promesa!Next
<1>4. CASE EnviaParametros /\ ~NoSale
  BY <1>4, AjenoTartamudea DEF EnviaParametros, Sale, Ajeno, Espera, tablas, historia
<1> QED BY <1>1, <1>2, <1>3, <1>4 DEF EnviaComando, EnviaParametros

\* A client that goes back to a menu reports what happened; what it cannot know of a
\* change it does not call a success.
LEMMA InformaPromesa ==
  ASSUME Espera, pcC' \in Menus, UNCHANGED <<pedida, hecha, reserva, enlace, abandonos>>,
         \/ hecha # "no" /\ dicho' = hecha
         \/ ~enlace /\ (dicho' = "exito" => pedida.cmd \in Promesa!Consultas)
  PROVE  Promesa!Next
<1>1. Promesa!Informa
  BY DEF Promesa!Informa, Espera, Menus
<1> QED BY <1>1 DEF Promesa!Next

LEMMA RecibePromesa ==
  ASSUME Base, Sinc, Recibe
  PROVE  [Promesa!Next]_(Promesa!estado)
<1>0. TipoHistoria
  BY TiposPorPartes DEF Base
<1>1. PICK m \in {Siguiente} : RecibeAcceso(m) \/ RecibeLogout(m) \/ RecibeCambio(m) \/ RecibeLista(m)
  BY DEF Recibe
<1>2. /\ pcC \in {"recibe", "lista"} /\ (aCliente # <<>> \/ ~enlace) /\ m = Siguiente
      /\ Espera /\ curso = pedida
  BY <1>1 DEF Recibe, Espera, Sinc, Marcha, EnPaso
<1>3. CASE Muere
  <2>1. Promesa!Corta
    BY <1>2, <1>3 DEF Muere, Promesa!Corta, tablas
  <2> QED BY <2>1 DEF Promesa!Next
<1>4. ASSUME curso.cmd \notin Listados, aCliente # <<>>
      PROVE  m \in Unicas /\ hecha \in {"exito", "error"}
  BY <1>0, <1>2, <1>4, Primera DEF TipoHistoria
<1>5. aCliente = <<>> => ~enlace /\ m.tipo = "" /\ ~esOk(m) /\ ~esError(m)
  BY <1>2, Perdida
<1>6. CASE RecibeAcceso(m) /\ ~Muere
  <2>1. /\ curso.cmd \in {"LOGIN", "REGISTER"} /\ curso.cmd \notin Listados
        /\ dicho' = (IF m.tipo = "OK" THEN "exito" ELSE "error") /\ Recibir(m)
        /\ pcC' \in Menus /\ UNCHANGED <<tablas, pedida, hecha, abandonos>>
    BY <1>6 DEF RecibeAcceso, Listados, Menus
  <2>2. aCliente # <<>> => dicho' = hecha
    BY <1>2, <1>4, <2>1 DEF Unicas
  <2>3. UNCHANGED <<reserva, enlace>>
    BY <2>1 DEF tablas, Recibir
  <2>4. Promesa!Next
    BY <1>2, <1>4, <1>5, <2>1, <2>2, <2>3, InformaPromesa
  <2> QED BY <2>4
<1>7. CASE RecibeLogout(m)
  <2>1. /\ curso.cmd = "LOGOUT" /\ curso.cmd \notin Listados
        /\ dicho' = (IF esOk(m) THEN "exito" ELSE "error") /\ Recibir(m)
        /\ pcC' \in Menus /\ UNCHANGED <<tablas, pedida, hecha, abandonos>>
    BY <1>7 DEF RecibeLogout, CierraSesion, Listados, Menus
  <2>2. aCliente # <<>> => dicho' = hecha
    BY <1>2, <1>4, <2>1 DEF Unicas, esOk
  <2>3. UNCHANGED <<reserva, enlace>>
    BY <2>1 DEF tablas, Recibir
  <2>4. Promesa!Next
    BY <1>2, <1>4, <1>5, <2>1, <2>2, <2>3, InformaPromesa
  <2> QED BY <2>4
<1>8. CASE RecibeCambio(m)
  <2>1. /\ curso.cmd \in {"CREATE_RESERVA", "CANCEL_RESERVA", "UPDATE_RESERVA"}
        /\ curso.cmd \notin Listados /\ dicho' = Dicho(m) /\ Recibir(m)
        /\ pcC' \in Menus /\ UNCHANGED <<tablas, historia>>
    BY <1>8 DEF RecibeCambio, Listados, Menus
  <2>2. aCliente # <<>> => dicho' = hecha
    BY <1>2, <1>4, <2>1 DEF Unicas, Dicho, esOk, esError
  <2>3. aCliente = <<>> => dicho' = "nada"
    BY <1>5, <2>1 DEF Dicho
  <2>4. UNCHANGED <<reserva, enlace, pedida, hecha, abandonos>>
    BY <2>1 DEF tablas, historia, Recibir
  <2>5. Promesa!Next
    BY <1>2, <1>4, <1>5, <2>1, <2>2, <2>3, <2>4, InformaPromesa
  <2> QED BY <2>5
<1>9. CASE RecibeLista(m) /\ ~Muere
  <2> DEFINE cierra == IF pcC = "lista" THEN m.tipo \in {"LIST_END", ""} ELSE m.tipo # "LIST_START"
             lineas == leidas \cup Datos(m)
  <2>1. curso.cmd \in Listados /\ pedida.cmd \in Promesa!Consultas
    BY <1>2, <1>9 DEF RecibeLista, Listados, Promesa!Consultas
  <2>2. CASE /\ ~cierra /\ Recibir(m) /\ pcC' = "lista"
             /\ UNCHANGED <<dicho, tablas, historia>>
    BY <1>2, <2>2, AjenoTartamudea DEF Ajeno, Espera, Recibir, tablas, historia
  <2>3. ASSUME cierra, Recibir(m), UNCHANGED <<tablas, historia>>,
               NEW F, Prosigue(curso, F),
               dicho' = (IF pcC = "recibe" /\ esError(m) THEN "error" ELSE "exito")
        PROVE  Promesa!Next
    <3>1. aCliente # <<>> => \/ hecha = "error" /\ m.tipo = "ERR" /\ pcC = "recibe"
                             \/ m.tipo = "LIST_END" /\ pcC = "lista" /\ hecha = "exito"
      BY <1>2, <2>1, <2>3, UltimaDeLista
    <3>2. (aCliente # <<>> => hecha # "no" /\ dicho' = hecha)
      BY <2>3, <3>1 DEF esError
    <3>3. pcC' \in Menus
      BY <2>3, ProsigueVivo
    <3>4. UNCHANGED <<reserva, enlace, pedida, hecha, abandonos>>
      BY <2>3 DEF tablas, historia, Recibir
    <3> QED BY <1>2, <1>5, <2>1, <3>2, <3>3, <3>4, InformaPromesa
  <2>4. CASE cierra /\ CargaReservas(m, lineas)
    <3>1. /\ Recibir(m) /\ UNCHANGED <<tablas, historia>>
          /\ dicho' = (IF pcC = "recibe" /\ esError(m) THEN "error" ELSE "exito")
          /\ \E F : Prosigue(curso, F)
      BY <1>9, <2>4 DEF CargaReservas
    <3> QED BY <2>3, <2>4, <3>1
  <2>5. CASE cierra /\ CargaNegocios(m, lineas)
    <3>1. /\ Recibir(m) /\ UNCHANGED <<tablas, historia>>
          /\ dicho' = (IF pcC = "recibe" /\ esError(m) THEN "error" ELSE "exito")
          /\ Prosigue(curso, {})
      BY <2>5 DEF CargaNegocios
    <3> QED BY <2>3, <2>5, <3>1
  <2> QED BY <1>9, <2>2, <2>4, <2>5 DEF RecibeLista
<1> QED BY <1>1, <1>3, <1>6, <1>7, <1>8, <1>9

LEMMA BuclePromesa ==
  ASSUME RecibeComando \/ RecibeParametros \/ Desconecta \/ EnviaLinea
  PROVE  UNCHANGED Promesa!estado
<1>1. UNCHANGED <<cliente, tablas, enlace, hecha, pedida, abandonos>>
  BY DEF RecibeComando, RecibeParametros, Desconecta, EnviaLinea, SinCambioCliente, red
<1> QED BY <1>1, AjenoTartamudea DEF Ajeno, Espera, cliente, tablas

\* A handler executes the pending request, which had not been executed.
LEMMA EjecutaPromesa ==
  ASSUME Base, Sinc, NEW c, Atiende(c),
         \/ hecha' = "error" /\ reserva' = reserva
         \/ hecha' = "exito" /\ Promesa!Efecto(pedida)
  PROVE  Promesa!Next
<1>1. hecha = "no" /\ UNCHANGED <<cliente, red, pedida>>
  BY AlAtender
<1>2. abandonos' = abandonos
  BY DEF Atiende, SinCambioCliente
<1>3. Promesa!Ejecuta
  BY <1>1, <1>2 DEF Promesa!Ejecuta, cliente, red
<1> QED BY <1>3 DEF Promesa!Next

LEMMA RechazaPromesa ==
  ASSUME Base, Sinc, NEW c, Rechaza(c)
  PROVE  Promesa!Next
BY EjecutaPromesa DEF Rechaza, Contesta, tablas

\* What only reads, or changes the users, changes no reservation.
LEMMA ConsultaPromesa ==
  ASSUME Base, Sinc, NEW c \in Promesa!Consultas, Atiende(c), hecha' = "exito", reserva' = reserva
  PROVE  Promesa!Next
<1>1. pedida.cmd = c
  BY AlAtender
<1>2. Promesa!Efecto(pedida)
  BY <1>1 DEF Promesa!Efecto
<1> QED BY <1>2, EjecutaPromesa

LEMMA ConsultasPromesa ==
  ASSUME Base, Sinc,
         \/ handler_auth_login \/ handler_auth_register \/ handler_auth_logout
         \/ handler_servicios_get_all \/ handler_get_reserva
  PROVE  Promesa!Next
<1>1. {"LOGIN", "REGISTER", "LOGOUT", "GET_RESERVA", "GET_SERVICIOS"} = Promesa!Consultas
  BY DEF Promesa!Consultas
<1>2. ASSUME NEW c \in {"LOGIN", "REGISTER", "LOGOUT", "GET_RESERVA", "GET_SERVICIOS"},
             \/ Rechaza(c)
             \/ Atiende(c) /\ hecha' = "exito" /\ reserva' = reserva
      PROVE  Promesa!Next
  BY <1>1, <1>2, RechazaPromesa, ConsultaPromesa
<1>3. CASE handler_auth_login
  BY <1>2, <1>3 DEF handler_auth_login, Exito, Contesta, tablas
<1>4. CASE handler_auth_register
  BY <1>2, <1>4 DEF handler_auth_register, Exito, Contesta
<1>5. CASE handler_auth_logout
  BY <1>2, <1>5 DEF handler_auth_logout, Exito, Contesta, tablas
<1>6. CASE handler_servicios_get_all
  BY <1>2, <1>6 DEF handler_servicios_get_all, Lista, Exito, Contesta, tablas
<1>7. CASE handler_get_reserva
  BY <1>2, <1>7 DEF handler_get_reserva, Lista, Exito, Contesta, tablas
<1> QED BY <1>3, <1>4, <1>5, <1>6, <1>7

\* Parameters that the cut has taken are all absent.
LEMMA OrdenVacia ==
  ASSUME NEW p
  PROVE  Orden(p).usuario = 0 /\ Orden(p).servicio = 0 /\ Orden(p).reserva = 0
BY DEF Orden, Nada

LEMMA CambiosPromesa ==
  ASSUME Base, Sinc, EsTabla,
         handler_create_reserva \/ handler_cancel_reserva \/ handler_update_reserva
  PROVE  Promesa!Next
<1>0. TipoTablas
  BY TiposPorPartes DEF Base
<1>1. 0 \notin DOMAIN reserva
  BY <1>0, Parametros DEF TipoTablas
<1>2. CASE handler_create_reserva /\ ~Rechaza("CREATE_RESERVA")
  <2>1. /\ Atiende("CREATE_RESERVA") /\ recibida.usuario > 0
        /\ ~ya_reservado(recibida.usuario, recibida.servicio)
        /\ seqReserva' = seqReserva + 1
        /\ reserva' = [i \in DOMAIN reserva \cup {seqReserva'} |->
                         IF i = seqReserva'
                           THEN [usuario |-> recibida.usuario, servicio |-> recibida.servicio]
                           ELSE reserva[i]]
        /\ hecha' = "exito"
    BY <1>2 DEF handler_create_reserva, Exito, Contesta
  <2>2. recibida = pedida /\ pedida.cmd = "CREATE_RESERVA"
    BY <2>1, AlAtender, OrdenVacia
  <2>3. seqReserva' \notin DOMAIN reserva
    BY <1>0, <2>1, Parametros DEF TipoTablas
  <2>4. /\ DOMAIN reserva' = DOMAIN reserva \cup {seqReserva'}
        /\ seqReserva' \in DOMAIN reserva' \ DOMAIN reserva
        /\ reserva'[seqReserva'] = [usuario |-> pedida.usuario, servicio |-> pedida.servicio]
    BY <2>1, <2>2, <2>3
  <2>5. Restrict(reserva', DOMAIN reserva' \ {seqReserva'}) = reserva
    <3>1. DOMAIN reserva' \ {seqReserva'} = DOMAIN reserva
      BY <2>3, <2>4
    <3>2. \A i \in DOMAIN reserva : reserva'[i] = reserva[i]
      BY <2>1, <2>3
    <3>3. [i \in DOMAIN reserva |-> reserva'[i]] = [i \in DOMAIN reserva |-> reserva[i]]
      BY <3>2
    <3>4. Restrict(reserva', DOMAIN reserva) = [i \in DOMAIN reserva |-> reserva'[i]]
      BY DEF Restrict
    <3> QED BY <3>1, <3>3, <3>4 DEF EsTabla
  <2>6. \A i \in DOMAIN reserva : reserva[i] # [usuario |-> pedida.usuario, servicio |-> pedida.servicio]
    BY <2>1, <2>2 DEF ya_reservado
  <2>7. Promesa!Efecto(pedida)
    BY <2>2, <2>4, <2>5, <2>6 DEF Promesa!Efecto, Promesa!Restrict, Restrict
  <2> QED BY <2>1, <2>7, EjecutaPromesa
<1>3. CASE handler_cancel_reserva /\ ~Rechaza("CANCEL_RESERVA")
  <2>1. /\ Atiende("CANCEL_RESERVA") /\ es_propia(recibida.reserva, recibida.usuario)
        /\ reserva' = [i \in DOMAIN reserva \ {recibida.reserva} |-> reserva[i]]
        /\ hecha' = "exito"
    BY <1>3 DEF handler_cancel_reserva, Exito, Contesta
  <2>2. recibida = pedida /\ pedida.cmd = "CANCEL_RESERVA"
    BY <1>1, <2>1, AlAtender, OrdenVacia DEF es_propia
  <2>3. Promesa!Efecto(pedida)
    BY <2>1, <2>2 DEF Promesa!Efecto, Promesa!Restrict, Restrict, es_propia
  <2> QED BY <2>1, <2>3, EjecutaPromesa
<1>4. CASE handler_update_reserva /\ ~Rechaza("UPDATE_RESERVA")
  <2>1. /\ Atiende("UPDATE_RESERVA") /\ es_propia(recibida.reserva, recibida.usuario)
        /\ reserva' = [reserva EXCEPT ![recibida.reserva].servicio = recibida.servicio]
        /\ hecha' = "exito"
    BY <1>4 DEF handler_update_reserva, Exito, Contesta
  <2>2. recibida = pedida /\ pedida.cmd = "UPDATE_RESERVA"
    BY <1>1, <2>1, AlAtender, OrdenVacia DEF es_propia
  <2>3. Promesa!Efecto(pedida)
    BY <2>1, <2>2 DEF Promesa!Efecto, es_propia
  <2> QED BY <2>1, <2>3, EjecutaPromesa
<1> QED BY <1>2, <1>3, <1>4, RechazaPromesa

LEMMA FallosPromesa ==
  ASSUME SeCorta \/ Cae \/ Termina
  PROVE  Promesa!Next
<1>1. /\ ~enlace' /\ enlace' = FALSE /\ (pcC' = pcC \/ pcC' = "fin")
      /\ UNCHANGED <<dicho, tablas, pedida, hecha, abandonos>>
  BY DEF SeCorta, Cae, Termina, cliente, historia
<1>2. Promesa!Corta
  BY <1>1 DEF Promesa!Corta, tablas
<1> QED BY <1>2 DEF Promesa!Next

LEMMA ReiniciaPromesa ==
  ASSUME Base, Reinicia
  PROVE  Promesa!Next
<1>1. Promesa!Reinicia
  BY DEF Reinicia, Promesa!Reinicia, Base, Acabado, tablas
<1> QED BY <1>1 DEF Promesa!Next

LEMMA PromesaPaso ==
  ASSUME IInv, EsTabla, [Next]_vars
  PROVE  [Promesa!Next]_(Promesa!estado)
<1>0. Base
  BY DEF IInv
<1>1. CASE UNCHANGED vars
  BY <1>1, AjenoTartamudea DEF Ajeno, Espera, vars, cliente, red, tablas, historia
<1>2. CASE Reinicia
  BY <1>0, <1>2, ReiniciaPromesa
<1>3. CASE abandonos # 0 /\ ~Reinicia
  <2>1. abandonos' # 0
    BY <1>0, <1>3, AbandonosPaso
  <2>2. Promesa!SinPromesa
    BY <1>3, <2>1 DEF Promesa!SinPromesa
  <2> QED BY <2>2 DEF Promesa!Next
<1>4. CASE abandonos = 0 /\ DejaLaFecha
  <2>1. Promesa!Abandona
    BY <1>4 DEF DejaLaFecha, Promesa!Abandona, tablas
  <2> QED BY <2>1 DEF Promesa!Next
<1>5. CASE abandonos = 0 /\ Next /\ ~Reinicia /\ ~DejaLaFecha
  <2>0. Sinc
    BY <1>5 DEF IInv
  <2>1. CASE OpcionBienvenida \/ OpcionPrincipal \/ OpcionReserva \/ DaFecha
    BY <2>1, OpcionesPromesa
  <2>2. CASE EnviaComando \/ EnviaParametros
    BY <2>2, EnviosPromesa
  <2>3. CASE Recibe
    BY <1>0, <2>0, <2>3, RecibePromesa
  <2>4. CASE RecibeComando \/ RecibeParametros \/ Desconecta \/ EnviaLinea
    BY <2>4, BuclePromesa
  <2>5. CASE \/ handler_auth_login \/ handler_auth_register \/ handler_auth_logout
             \/ handler_servicios_get_all \/ handler_get_reserva
    BY <1>0, <2>0, <2>5, ConsultasPromesa
  <2>6. CASE handler_create_reserva \/ handler_cancel_reserva \/ handler_update_reserva
    BY <1>0, <2>0, <2>6, CambiosPromesa
  <2>7. CASE SeCorta \/ Cae \/ Termina
    BY <2>7, FallosPromesa
  <2> QED BY <1>5, <2>1, <2>2, <2>3, <2>4, <2>5, <2>6, <2>7 DEF Next, PasoCliente, PasoServidor
<1> QED BY <1>1, <1>2, <1>3, <1>4, <1>5

LEMMA PromesaInit == Init => Promesa!Init
<1> SUFFICES ASSUME Init
             PROVE  Promesa!Init
  OBVIOUS
<1>1. reserva = [i \in {} |-> i]
  BY DEF Init
<1> QED BY <1>1 DEF Init, Promesa!Init

\* A client and its server implement Peticiones (PromesaCumplida): a request is executed
\* at most once, and what the client reports of it happened.
THEOREM CumpleLaPromesa == Spec => PromesaCumplida
<1>1. Init => IInv /\ EsTabla /\ Promesa!Init
  BY InitIInv, EsTablaInit, PromesaInit
<1>2. IInv /\ EsTabla /\ [Next]_vars => IInv' /\ EsTabla'
  BY IInvPaso, EsTablaPaso
<1>3. IInv /\ EsTabla /\ [Next]_vars => [Promesa!Next]_(Promesa!estado)
  BY PromesaPaso
<1> QED BY <1>1, <1>2, <1>3, PTL DEF Spec, PromesaCumplida, Promesa!Spec
=============================================================================
