-------------------------- MODULE SincroniaProofs --------------------------
(***************************************************************************)
(* Theorems about Protocolo: while no command has been left half sent the  *)
(* client and its server are in step, the answer that arrives is that of   *)
(* the request the client waits for, and what it keeps is true.            *)
(***************************************************************************)
EXTENDS ProtocoloProofs

-----------------------------------------------------------------------------
(* In step: what holds while no command has been left half sent            *)

Menus == {"bienvenida", "principal", "elige", "envia"}

Espera == pcC \in {"fecha", "parametros", "recibe", "lista"}

Orden(p) == [Nada EXCEPT !.cmd = p.cmd]

\* A client that waits waits for its latest request, as the user who is logged in; one
\* that does not has read everything, and its server is idle.
EnPaso ==
  /\ Espera => conectado /\ curso = pedida
  /\ pcC = "lista" => hecha = "exito"
  /\ EnPeticion /\ curso.cmd \notin {"LOGIN", "REGISTER", "GET_SERVICIOS"} => curso.usuario = sesion
  /\ pcC \in Menus /\ conectado => /\ aServidor = <<>> /\ aCliente = <<>>
                                     /\ pcS \in {"comando", "caido"}
  /\ pcC \in {"fin", "muerto"} => ~conectado

\* Where the latest request is between the wire and the handlers.
Atendida ==
  \/ aServidor = <<>> /\ pcS \in {"comando", "caido"}
  \/ /\ hecha = "no" /\ pcS = "comando"
     /\ aServidor = <<Comando(pedida)>> \/ aServidor = <<Comando(pedida), Valores(pedida)>>
  \/ /\ hecha = "no" /\ pcS = "parametros" /\ recibida = Orden(pedida)
     /\ aServidor = <<>> \/ aServidor = <<Valores(pedida)>>
  \/ /\ hecha = "no" /\ pcS = "atiende" /\ aServidor = <<>>
     /\ recibida = pedida \/ (~enlace /\ recibida = Orden(pedida))
  \/ hecha # "no" /\ pcS = "contesta" /\ aServidor = <<>>

\* With the connection up the two programs are at matching points.
Enlazados ==
  /\ pcC \in {"fecha", "parametros"} =>
       \/ hecha = "no" /\ pcS = "comando" /\ aServidor = <<Comando(pedida)>>
       \/ hecha = "no" /\ pcS = "parametros" /\ aServidor = <<>>
  /\ pcC = "recibe" =>
       \/ pcS = "comando" /\ aServidor = <<Comando(pedida), Valores(pedida)>>
       \/ pcS = "parametros" /\ aServidor = <<Valores(pedida)>>
       \/ pcS \in {"atiende", "contesta"}
       \/ pcS = "comando" /\ aServidor = <<>> /\ hecha # "no"

-----------------------------------------------------------------------------
(* Answers: one line, or a list                                             *)

Unicas ==
  {m \in Lineas :
     IF hecha = "error" THEN m.tipo = "ERR"
     ELSE /\ pedida.cmd = "LOGIN" =>
               m.tipo = "OK" /\ pedida.dni \in DOMAIN usuario /\ m.id = usuario[pedida.dni]
          /\ pedida.cmd \in {"LOGOUT", "CANCEL_RESERVA"} => m.tipo = "OK_TEXTO"
          /\ pedida.cmd \in {"REGISTER", "CREATE_RESERVA", "UPDATE_RESERVA"} => m.tipo = "OK"}

Filas == IF pedida.cmd = "GET_SERVICIOS" THEN FilasNegocio ELSE FilasReserva(pedida.usuario)

\* A list that is refused is answered by one line, as any other request.
Modo == IF pedida.cmd \notin Listados \/ hecha = "error" THEN "una"
        ELSE IF pcC = "lista" THEN "abierta" ELSE "lista"

\* s is the beginning of an answer with lines of R; in mode "abierta" its
\* first frame has been read.
Empieza(s, modo, R) ==
  IF modo = "una" THEN Len(s) <= 1 /\ \A i \in 1 .. Len(s) : s[i] \in R
  ELSE \A i \in 1 .. Len(s) :
         IF i = 1 /\ modo = "lista" THEN s[i].tipo = "LIST_START"
         ELSE s[i] \in R \/ (s[i].tipo = "LIST_END" /\ i = Len(s))

Acaba(s, modo) == s # <<>> /\ (modo # "una" => s[Len(s)].tipo = "LIST_END")

Validas == IF Modo = "una" THEN Unicas ELSE Filas

\* With the lines already read, s brings every row of R, or there is none in either.
Completa(s, leidos, R) ==
  \/ \A f \in R \ leidos : \E i \in 1 .. Len(s) : s[i] = f
  \/ leidos = {} /\ \A i \in 1 .. Len(s) : s[i] \notin R

\* What the client has not read yet is the rest of the answer to its request.
Respondida ==
  /\ hecha = "no" => aCliente = <<>>
  /\ Espera /\ pedida.cmd \in Listados => leidas \subseteq Filas
  /\ Espera /\ hecha # "no" =>
       /\ Empieza(aCliente, Modo, Validas)
       /\ Acaba(aCliente, Modo) => pcS # "contesta"
       /\ enlace => /\ Empieza(aCliente \o salida, Modo, Validas)
                    /\ Acaba(aCliente \o salida, Modo)
                    /\ Modo # "una" => Completa(aCliente \o salida, leidas, Filas)

-----------------------------------------------------------------------------
(* The cache and the session                                                *)

Vigente == \A c \in cache : /\ c.reserva \in DOMAIN reserva
                            /\ reserva[c.reserva] = [usuario |-> sesion, servicio |-> c.servicio]

Propias == {i \in DOMAIN reserva : reserva[i].usuario = sesion}

CacheSana ==
  /\ conectado /\ ~(pcC = "envia" /\ curso.cmd = "GET_RESERVA")
       /\ ~(Espera /\ hecha = "exito" /\ curso.cmd \in {"CANCEL_RESERVA", "UPDATE_RESERVA"})
     => Vigente
  /\ Espera /\ curso.cmd = "GET_RESERVA" => cache = {}
  /\ enlace /\ EnPeticion /\ curso.cmd = "GET_SERVICIOS" =>
       cache = {} \/ cache = {[reserva |-> i, servicio |-> reserva[i].servicio] : i \in Propias}

DelTitular == sesion # Cerrada => titular \in DOMAIN usuario /\ sesion = usuario[titular]

Marcha == EnPaso /\ Atendida /\ (enlace => Enlazados) /\ Respondida

Sinc == Marcha /\ CacheSana /\ DelTitular

IInv == Base /\ (abandonos = 0 => Sinc)

-----------------------------------------------------------------------------
(* Beginnings of answers                                                    *)

SinMarca(R) == \A f \in R : f.tipo \notin {"", "LIST_START", "LIST_END"}

\* A prefix of an answer is the beginning of one, and it is whole when it has the end.
LEMMA EmpiezaPrefijo ==
  ASSUME NEW s \in Seq(Lineas), NEW p \in Seq(Lineas), NEW R, NEW modo \in {"una", "lista", "abierta"},
         Len(p) <= Len(s), \A i \in 1 .. Len(p) : p[i] = s[i],
         modo # "una" => SinMarca(R), Empieza(s, modo, R)
  PROVE  /\ Empieza(p, modo, R)
         /\ Acaba(p, modo) => Len(p) = Len(s)
<1>1. Len(p) \in Nat /\ Len(s) \in Nat /\ (p # <<>> => Len(p) > 0)
  BY EmptySeq
<1>2. CASE modo = "una"
  BY <1>1, <1>2 DEF Empieza, Acaba
<1>3. CASE modo # "una"
  <2>1. Empieza(p, modo, R)
    <3>1. ASSUME NEW i \in 1 .. Len(p)
          PROVE  IF i = 1 /\ modo = "lista" THEN p[i].tipo = "LIST_START"
                 ELSE p[i] \in R \/ (p[i].tipo = "LIST_END" /\ i = Len(p))
      <4>1. i \in 1 .. Len(s) /\ p[i] = s[i]
        BY <1>1
      <4> QED BY <1>1, <1>3, <4>1 DEF Empieza
    <3> QED BY <1>3, <3>1 DEF Empieza
  <2>2. ASSUME Acaba(p, modo)
        PROVE  Len(p) = Len(s)
    <3>1. Len(p) \in 1 .. Len(p) /\ Len(p) \in 1 .. Len(s)
      BY <1>1, <2>2 DEF Acaba
    <3>2. s[Len(p)].tipo = "LIST_END"
      BY <1>3, <2>2, <3>1 DEF Acaba
    <3> QED BY <1>3, <3>1, <3>2 DEF Empieza, SinMarca
  <2> QED BY <2>1, <2>2
<1> QED BY <1>2, <1>3

\* What remains of a list when its first frame is taken.
LEMMA EmpiezaResto ==
  ASSUME NEW s \in Seq(Lineas), NEW t \in Seq(Lineas), NEW R, NEW modo \in {"lista", "abierta"},
         Len(t) = Len(s) - 1, \A i \in 1 .. Len(t) : t[i] = s[i + 1],
         Empieza(s, modo, R)
  PROVE  Empieza(t, "abierta", R)
<1>1. Len(t) \in Nat /\ Len(s) \in Nat
  OBVIOUS
<1>2. ASSUME NEW i \in 1 .. Len(t)
      PROVE  t[i] \in R \/ (t[i].tipo = "LIST_END" /\ i = Len(t))
  <2>1. i + 1 \in 1 .. Len(s) /\ i + 1 # 1 /\ t[i] = s[i + 1]
    BY <1>1
  <2>2. s[i + 1] \in R \/ (s[i + 1].tipo = "LIST_END" /\ i + 1 = Len(s))
    BY <2>1 DEF Empieza
  <2> QED BY <1>1, <2>1, <2>2
<1> QED BY <1>2 DEF Empieza

LEMMA FilasSinMarca ==
  ASSUME Base
  PROVE  SinMarca(Filas) /\ Filas \subseteq Lineas
<1>1. TipoTablas
  BY TiposPorPartes DEF Base
<1>2. Filas \subseteq Lineas
  BY <1>1, FilasTipo DEF Filas
<1>3. \A f \in FilasNegocio : f.tipo = "NEGOCIO"
  <2>1. \A v \in Servicios : Negocio(v).tipo = "NEGOCIO"
    BY LineasTipo, Parametros
  <2> QED BY <2>1 DEF FilasNegocio
<1>4. \A u : \A f \in FilasReserva(u) : f.tipo = "RESERVA"
  BY DEF FilasReserva, Fila, Linea
<1> QED BY <1>2, <1>3, <1>4 DEF SinMarca, Filas

LEMMA ModoValor ==
  /\ Modo \in {"una", "lista", "abierta"}
  /\ pedida.cmd \in Listados /\ hecha # "error" <=> Modo # "una"
  /\ Modo # "una" => (Modo = "abierta" <=> pcC = "lista") /\ Validas = Filas
  /\ Modo = "una" => Validas = Unicas
BY DEF Modo, Validas

\* A client of a request that is not of a list, or was refused, gets the whole answer in
\* one frame; the frames of a list come in order, and its end is the last.
LEMMA Lectura ==
  ASSUME Base, Marcha, pcC \in {"recibe", "lista"}, NEW m, Recibir(m), aCliente # <<>>
  PROVE  /\ hecha # "no" /\ aServidor = <<>> /\ m = aCliente[1] /\ curso = pedida
         /\ Modo = "una" => m \in Unicas /\ aCliente' = <<>> /\ pcS \in {"comando", "caido"}
         /\ Modo = "lista" => m.tipo = "LIST_START"
         /\ Modo = "abierta" =>
              \/ m \in Filas
              \/ m.tipo = "LIST_END" /\ aCliente' = <<>> /\ pcS \in {"comando", "caido"}
<1>0. TipoCliente /\ TipoRed /\ TipoServidor
  BY TiposPorPartes DEF Base
<1>1. /\ m = aCliente[1] /\ aCliente' \in Seq(Lineas)
      /\ Len(aCliente') = Len(aCliente) - 1 /\ Len(aCliente) \in Nat /\ Len(aCliente) > 0
  <2>1. TipoRed' /\ m = aCliente[1] /\ Len(aCliente') = Len(aCliente) - 1
    BY <1>0, RecibirTipo
  <2>2. aCliente \in Seq(Lineas) /\ aCliente' \in Seq(Lineas)
    BY <1>0, <2>1 DEF TipoRed
  <2>3. Len(aCliente) \in Nat /\ Len(aCliente) > 0
    BY <2>2, EmptySeq
  <2> QED BY <2>1, <2>2, <2>3
<1>2. hecha # "no" /\ Espera /\ curso = pedida
  BY DEF Marcha, Respondida, EnPaso, Espera
<1>3. aServidor = <<>> /\ (pcS # "contesta" => pcS \in {"comando", "caido"})
  BY <1>2 DEF Marcha, Atendida
<1>4. Empieza(aCliente, Modo, Validas) /\ (Acaba(aCliente, Modo) => pcS # "contesta")
  BY <1>2 DEF Marcha, Respondida
<1>5. Len(aCliente) = 1 => aCliente' = <<>>
  BY <1>1, EmptySeq
<1>6. CASE Modo = "una"
  <2>1. Len(aCliente) = 1 /\ aCliente[1] \in Unicas
    BY <1>1, <1>4, <1>6, ModoValor DEF Empieza
  <2>2. Acaba(aCliente, Modo)
    BY <1>6 DEF Acaba
  <2> QED BY <1>1, <1>2, <1>3, <1>4, <1>5, <1>6, <2>1, <2>2
<1>7. CASE Modo = "lista"
  BY <1>1, <1>2, <1>3, <1>4, <1>7 DEF Empieza
<1>8. CASE Modo = "abierta"
  <2>1. m \in Filas \/ (m.tipo = "LIST_END" /\ Len(aCliente) = 1)
    BY <1>1, <1>4, <1>8, ModoValor DEF Empieza
  <2>2. ASSUME m.tipo = "LIST_END", Len(aCliente) = 1
        PROVE  Acaba(aCliente, Modo)
    BY <1>1, <2>2 DEF Acaba
  <2> QED BY <1>1, <1>2, <1>3, <1>4, <1>5, <1>8, <2>1, <2>2
<1> QED BY <1>6, <1>7, <1>8, ModoValor

\* A client that has read its answer and goes back to a menu is in step again.
LEMMA FinDeLectura ==
  ASSUME Base, Marcha, pcC \in {"recibe", "lista"}, NEW m, Recibir(m), pcC' \in Menus,
         pcC' = "envia" => curso'.cmd = "GET_SERVICIOS" \/ curso'.usuario = sesion',
         aCliente # <<>> => aCliente' = <<>> /\ pcS \in {"comando", "caido"},
         UNCHANGED <<pcS, recibida, salida, hecha, pedida>>
  PROVE  Marcha'
<1>0. TipoCliente /\ TipoRed
  BY TiposPorPartes DEF Base
<1>1. UNCHANGED <<aServidor, enlace>> /\ conectado' = (aCliente # <<>>)
      /\ (aCliente = <<>> => aCliente' = <<>>)
  BY <1>0, RecibirTipo
<1>2. aCliente' = <<>> /\ (aCliente # <<>> => hecha # "no" /\ aServidor = <<>>)
  BY <1>1, Lectura
<1>3. EnPaso'
  BY <1>1, <1>2 DEF EnPaso, Espera, EnPeticion, Menus
<1>4. Atendida'
  BY <1>1 DEF Marcha, Atendida
<1>5. enlace' => Enlazados'
  BY DEF Enlazados, Menus
<1>6. Respondida'
  BY <1>2 DEF Respondida, Espera, Menus
<1> QED BY <1>3, <1>4, <1>5, <1>6 DEF Marcha

-----------------------------------------------------------------------------
(* The client keeps in step                                                 *)

LEMMA EligeSinc ==
  ASSUME Base, Sinc, pcC \in {"bienvenida", "principal", "elige"}, NEW p, Elige(p),
         p.cmd # "GET_SERVICIOS", p.cmd \in {"LOGIN", "REGISTER"} \/ p.usuario = sesion
  PROVE  Sinc'
<1>1. /\ UNCHANGED <<red, servidor, tablas, historia>>
      /\ UNCHANGED <<conectado, sesion, cache, leidas, dicho>>
      /\ pcC' = "envia" /\ curso' = p
  BY DEF Elige
<1>2. EnPaso'
  BY <1>1 DEF Sinc, Marcha, EnPaso, Espera, EnPeticion, Menus, red, servidor, historia
<1>3. Atendida'
  BY <1>1 DEF Sinc, Marcha, Atendida, red, servidor, historia
<1>4. (enlace' => Enlazados') /\ Respondida'
  BY <1>1 DEF Sinc, Marcha, Enlazados, Respondida, Espera, red, historia
<1>5. CacheSana'
  BY <1>1 DEF Sinc, CacheSana, Vigente, Espera, tablas
<1>6. DelTitular'
  BY <1>1 DEF Sinc, DelTitular, tablas, historia
<1> QED BY <1>2, <1>3, <1>4, <1>5, <1>6 DEF Sinc, Marcha

LEMMA OpcionesSinc ==
  ASSUME Base, Sinc, OpcionBienvenida \/ OpcionPrincipal \/ OpcionReserva \/ DaFecha
  PROVE  Sinc'
<1>0. TipoCliente
  BY TiposPorPartes DEF Base
<1>1. CASE OpcionBienvenida
  <2>1. PICK c \in {"LOGIN", "REGISTER"}, d \in Dnis : pcC = "bienvenida" /\ Elige(Acceso(c, d))
    BY <1>1 DEF OpcionBienvenida
  <2>2. Acceso(c, d).cmd = c
    BY Pedidas
  <2> QED BY <2>1, <2>2, EligeSinc
<1>2. ASSUME pcC \in {"principal", "elige"}
      PROVE  sesion \in Nat
  BY <1>0, <1>2 DEF Base, Dialogo, TipoCliente
<1>3. CASE OpcionPrincipal
  <2>1. pcC = "principal" /\ sesion \in Nat
    BY <1>2, <1>3 DEF OpcionPrincipal
  <2>2. CASE \E m \in {"ver", "negocios", "cancelar", "modificar"} : Elige(Carga(m))
    BY <2>1, <2>2, EligeSinc, Pedidas
  <2>3. CASE \E v \in Servicios : Elige(Alta(v))
    <3>1. PICK v \in Servicios : Elige(Alta(v))
      BY <2>3
    <3>2. Alta(v).cmd = "CREATE_RESERVA" /\ Alta(v).usuario = sesion
      BY <2>1, Parametros, Pedidas
    <3> QED BY <3>1, <3>2, <2>1, EligeSinc
  <2>4. CASE Elige(DeUsuario("LOGOUT"))
    BY <2>1, <2>4, EligeSinc, Pedidas
  <2> QED BY <1>3, <2>2, <2>3, <2>4 DEF OpcionPrincipal
<1>4. CASE OpcionReserva
  <2>1. pcC = "elige" /\ sesion \in Nat
    BY <1>2, <1>4 DEF OpcionReserva
  <2>2. \A c \in cache : c.reserva \in Nat
    BY <1>0 DEF TipoCliente
  <2>3. CASE \E c \in cache : Elige(Baja(c.reserva))
    <3>1. PICK c \in cache : Elige(Baja(c.reserva))
      BY <2>3
    <3>2. 0 \in Nat
      OBVIOUS
    <3>3. Baja(c.reserva).cmd = "CANCEL_RESERVA" /\ Baja(c.reserva).usuario = sesion
      BY <2>1, <2>2, <3>2, Pedidas
    <3> QED BY <3>1, <3>3, <2>1, EligeSinc
  <2>4. CASE \E c \in cache : \E v \in Servicios : Elige(Cambio(c.reserva, v))
    <3>1. PICK c \in cache, v \in Servicios : Elige(Cambio(c.reserva, v))
      BY <2>4
    <3>2. v \in Nat
      BY Parametros
    <3>3. Cambio(c.reserva, v).cmd = "UPDATE_RESERVA" /\ Cambio(c.reserva, v).usuario = sesion
      BY <2>1, <2>2, <3>2, Pedidas
    <3> QED BY <3>1, <3>3, <2>1, EligeSinc
  <2>5. CASE /\ pcC' = "principal" /\ curso' = Nada
             /\ UNCHANGED <<conectado, sesion, cache, leidas, dicho, red, servidor, tablas, historia>>
    <3>1. EnPaso'
      BY <2>1, <2>5 DEF Sinc, Marcha, EnPaso, Espera, EnPeticion, Menus, red, servidor, historia
    <3>2. Atendida'
      BY <2>5 DEF Sinc, Marcha, Atendida, red, servidor, historia
    <3>3. (enlace' => Enlazados') /\ Respondida'
      BY <2>5 DEF Sinc, Marcha, Enlazados, Respondida, Espera, red, historia
    <3>4. CacheSana'
      BY <2>1, <2>5 DEF Sinc, CacheSana, Vigente, Espera, EnPeticion, tablas
    <3>5. DelTitular'
      BY <2>5 DEF Sinc, DelTitular, tablas, historia
    <3> QED BY <3>1, <3>2, <3>3, <3>4, <3>5 DEF Sinc, Marcha
  <2> QED BY <1>4, <2>3, <2>4, <2>5 DEF OpcionReserva
<1>5. CASE DaFecha
  <2>1. /\ pcC = "fecha" /\ pcC' = "parametros"
        /\ UNCHANGED <<conectado, sesion, cache, curso, leidas, red, servidor, tablas, historia>>
    BY <1>5 DEF DaFecha
  <2>2. EnPaso'
    BY <2>1 DEF Sinc, Marcha, EnPaso, Espera, EnPeticion, Menus, red, servidor, historia
  <2>3. Atendida' /\ (enlace' => Enlazados')
    BY <2>1 DEF Sinc, Marcha, Atendida, Enlazados, red, servidor, historia
  <2>4. Respondida'
    <3>1. Modo' = Modo /\ Validas' = Validas /\ Filas' = Filas /\ Espera
      BY <2>1 DEF Modo, Validas, Filas, FilasReserva, FilasNegocio, Unicas, Espera, tablas, historia
    <3> QED BY <2>1, <3>1 DEF Sinc, Marcha, Respondida, red, servidor, historia
  <2>5. CacheSana'
    BY <2>1 DEF Sinc, CacheSana, Vigente, Propias, Espera, EnPeticion, tablas, red, historia
  <2>6. DelTitular'
    BY <2>1 DEF Sinc, DelTitular, tablas, historia
  <2> QED BY <2>2, <2>3, <2>4, <2>5, <2>6 DEF Sinc, Marcha
<1> QED BY <1>1, <1>3, <1>4, <1>5

LEMMA AppendIgual ==
  ASSUME NEW S, NEW u \in Seq(S), NEW b \in S, NEW d \in Seq(S),
         Len(d) = Len(u) + 1, \A i \in 1 .. Len(u) : d[i] = u[i], d[Len(u) + 1] = b
  PROVE  Append(u, b) = d
OBVIOUS

LEMMA AppendUna ==
  ASSUME NEW a, NEW b
  PROVE  Append(<<a>>, b) = <<a, b>>
<1>1. /\ <<a>> \in Seq({a, b}) /\ b \in {a, b} /\ <<a, b>> \in Seq({a, b})
      /\ Len(<<a, b>>) = Len(<<a>>) + 1
      /\ \A i \in 1 .. Len(<<a>>) : <<a, b>>[i] = <<a>>[i]
      /\ <<a, b>>[Len(<<a>>) + 1] = b
  OBVIOUS
<1> QED BY <1>1, AppendIgual, Zenon

LEMMA NoSaleSinc ==
  ASSUME Base, Sinc, pcC \in {"envia", "parametros"}, NoSale
  PROVE  Sinc'
<1>0. TipoCliente
  BY TiposPorPartes DEF Base
<1>1. /\ ~enlace /\ ~conectado' /\ UNCHANGED <<sesion, leidas, red, servidor, tablas, historia>>
      /\ pcC' \in Menus /\ (pcC' = "envia" => curso' = VerNegocios)
  BY <1>0, ProsigueAdonde, MenuAdonde DEF NoSale, TipoCliente, Menus
<1>2. EnPaso'
  BY <1>1, Pedidas DEF EnPaso, Espera, EnPeticion, Menus
<1>3. Atendida'
  BY <1>1 DEF Sinc, Marcha, Atendida, red, servidor, historia
<1>4. (enlace' => Enlazados') /\ Respondida'
  BY <1>1 DEF Sinc, Marcha, Enlazados, Respondida, Espera, Menus, red, historia
<1>5. CacheSana'
  BY <1>1 DEF CacheSana, Espera, Menus, red
<1>6. DelTitular'
  BY <1>1 DEF Sinc, DelTitular, tablas, historia
<1> QED BY <1>2, <1>3, <1>4, <1>5, <1>6 DEF Sinc, Marcha

LEMMA EnviaComandoSinc ==
  ASSUME Base, Sinc, EnviaComando, ~NoSale
  PROVE  Sinc'
<1>0. TipoCliente /\ TipoRed
  BY TiposPorPartes DEF Base
<1>1. /\ pcC = "envia" /\ cache' = EnCache /\ Sale(Comando(curso))
      /\ pcC' = (IF curso.cmd = "UPDATE_RESERVA" THEN "fecha" ELSE "parametros")
      /\ pedida' = curso /\ hecha' = "no"
      /\ UNCHANGED <<sesion, curso, leidas, servidor, tablas, titular, abandonos>>
  BY DEF EnviaComando
<1>2. /\ conectado /\ UNCHANGED <<conectado, aCliente, enlace>>
      /\ aServidor' = IF enlace THEN Append(aServidor, Comando(curso)) ELSE aServidor
  BY <1>1 DEF Sale
<1>3. aServidor = <<>> /\ aCliente = <<>> /\ pcS \in {"comando", "caido"} /\ (enlace => pcS = "comando")
  BY <1>1, <1>2 DEF Sinc, Marcha, EnPaso, Menus, Base, Acabado
<1>4. aServidor' = IF enlace THEN <<Comando(pedida')>> ELSE <<>>
  BY <1>1, <1>2, <1>3
<1>5. EnPaso'
  BY <1>1, <1>2 DEF Sinc, Marcha, EnPaso, Espera, EnPeticion, Menus
<1>6. Atendida'
  BY <1>1, <1>2, <1>3, <1>4 DEF Atendida, servidor
<1>7. enlace' => Enlazados'
  BY <1>1, <1>2, <1>3, <1>4 DEF Enlazados, servidor
<1>8. Respondida'
  <2>1. leidas' = {}
    BY <1>1 DEF Base, Dialogo
  <2> QED BY <1>1, <1>2, <1>3, <2>1 DEF Respondida
<1>9. CacheSana'
  <2>1. Vigente'
    <3>1. CASE curso.cmd = "GET_RESERVA"
      BY <1>1, <3>1 DEF EnCache, Vigente
    <3>2. CASE curso.cmd # "GET_RESERVA"
      <4>1. Vigente /\ cache' = cache
        BY <1>1, <1>2, <3>2 DEF Sinc, CacheSana, EnCache, Espera
      <4> QED BY <1>1, <4>1 DEF Vigente, tablas
    <3> QED BY <3>1, <3>2
  <2> QED BY <1>1, <1>2, <2>1 DEF Sinc, CacheSana, EnCache, Propias, EnPeticion, tablas
<1>10. DelTitular'
  BY <1>1 DEF Sinc, DelTitular, tablas
<1> QED BY <1>5, <1>6, <1>7, <1>8, <1>9, <1>10 DEF Sinc, Marcha

LEMMA EnviaParametrosSinc ==
  ASSUME Base, Sinc, EnviaParametros, ~NoSale
  PROVE  Sinc'
<1>0. TipoCliente /\ TipoRed
  BY TiposPorPartes DEF Base
<1>1. /\ pcC = "parametros" /\ cache' = cache /\ Sale(Valores(curso)) /\ pcC' = "recibe"
      /\ UNCHANGED <<sesion, curso, leidas, servidor, tablas, historia>>
  BY DEF EnviaParametros
<1>2. /\ conectado /\ UNCHANGED <<conectado, aCliente, enlace>>
      /\ aServidor' = IF enlace THEN Append(aServidor, Valores(curso)) ELSE aServidor
  BY <1>1 DEF Sale
<1>3. curso = pedida
  BY <1>1 DEF Sinc, Marcha, EnPaso, Espera
<1>4. EnPaso'
  BY <1>1, <1>2 DEF Sinc, Marcha, EnPaso, Espera, EnPeticion, Menus, servidor, historia
<1>5. Atendida' /\ (enlace' => Enlazados')
  <2>1. ~enlace => Atendida' /\ ~enlace'
    BY <1>1, <1>2 DEF Sinc, Marcha, Atendida, servidor, historia
  <2>2. enlace => Atendida' /\ Enlazados'
    <3>1. ASSUME enlace, pcS = "comando" PROVE Atendida' /\ Enlazados'
      <4>1. aServidor = <<Comando(pedida)>> /\ hecha = "no"
        BY <1>1, <3>1 DEF Sinc, Marcha, Enlazados
      <4>2. aServidor' = <<Comando(pedida), Valores(pedida)>>
        BY <1>2, <1>3, <3>1, <4>1, AppendUna
      <4> QED BY <1>1, <3>1, <4>1, <4>2 DEF Atendida, Enlazados, servidor, historia
    <3>2. ASSUME enlace, pcS # "comando" PROVE Atendida' /\ Enlazados'
      <4>1. aServidor = <<>> /\ hecha = "no" /\ pcS = "parametros"
        BY <1>1, <3>2 DEF Sinc, Marcha, Enlazados
      <4>2. aServidor' = <<Valores(pedida)>> /\ recibida = Orden(pedida)
        BY <1>2, <1>3, <3>2, <4>1 DEF Sinc, Marcha, Atendida
      <4>3. Orden(pedida)' = Orden(pedida)
        BY <1>1 DEF Orden, historia
      <4> QED BY <1>1, <3>2, <4>1, <4>2, <4>3 DEF Atendida, Enlazados, servidor, historia
    <3> QED BY <3>1, <3>2
  <2> QED BY <2>1, <2>2
<1>6. Respondida'
  <2>1. Modo' = Modo /\ Validas' = Validas /\ Filas' = Filas /\ Espera
    BY <1>1 DEF Modo, Validas, Filas, FilasReserva, FilasNegocio, Unicas, Espera, tablas, historia
  <2> QED BY <1>1, <1>2, <2>1 DEF Sinc, Marcha, Respondida, servidor, historia
<1>7. CacheSana'
  BY <1>1, <1>2 DEF Sinc, CacheSana, Vigente, Propias, Espera, EnPeticion, tablas, historia
<1>8. DelTitular'
  BY <1>1 DEF Sinc, DelTitular, tablas, historia
<1> QED BY <1>4, <1>5, <1>6, <1>7, <1>8 DEF Sinc, Marcha


-----------------------------------------------------------------------------
(* The client receives in step                                              *)

LEMMA MuereSinc ==
  ASSUME Sinc, Muere
  PROVE  Sinc'
<1>1. /\ pcC' = "muerto" /\ ~conectado' /\ ~enlace' /\ sesion' = Cerrada /\ aCliente' = <<>>
      /\ UNCHANGED <<aServidor, pcS, recibida, pedida, hecha>>
  BY DEF Muere, servidor
<1>2. EnPaso'
  BY <1>1 DEF EnPaso, Espera, EnPeticion, Menus
<1>3. Atendida'
  BY <1>1 DEF Sinc, Marcha, Atendida
<1>4. (enlace' => Enlazados') /\ Respondida'
  BY <1>1 DEF Respondida, Espera
<1>5. CacheSana' /\ DelTitular'
  BY <1>1 DEF CacheSana, DelTitular, Espera
<1> QED BY <1>2, <1>3, <1>4, <1>5 DEF Sinc, Marcha

\* The answer to a request that is not of a list is read whole, or the loss is noticed.
LEMMA UnaRespuesta ==
  ASSUME Base, Marcha, pcC \in {"recibe", "lista"}, NEW m, Recibir(m), curso.cmd \notin Listados
  PROVE  /\ aCliente # <<>> => m \in Unicas /\ aCliente' = <<>> /\ pcS \in {"comando", "caido"}
         /\ aCliente = <<>> => m.tipo = "" /\ ~conectado'
         /\ conectado /\ curso = pedida /\ UNCHANGED <<aServidor, enlace>>
<1>0. TipoCliente /\ TipoRed
  BY TiposPorPartes DEF Base
<1>1. conectado /\ curso = pedida
  BY DEF Marcha, EnPaso, Espera
<1>2. Modo = "una"
  BY <1>1 DEF Modo
<1> QED BY <1>0, <1>1, <1>2, Lectura, RecibirTipo

LEMMA RecibeAccesoSinc ==
  ASSUME Base, Sinc, pcC \in {"recibe", "lista"}, NEW m, RecibeAcceso(m)
  PROVE  Sinc'
<1>1. curso.cmd \in {"LOGIN", "REGISTER"} /\ curso.cmd \notin Listados
  BY DEF RecibeAcceso, Listados
<1>2. CASE Muere
  BY <1>2, MuereSinc
<1>3. CASE ~Muere
  <2>1. /\ Recibir(m) /\ curso' = Nada /\ UNCHANGED <<cache, leidas, servidor, tablas, pedida, hecha>>
        /\ \/ /\ m.tipo = "OK" /\ curso.cmd = "LOGIN"
              /\ pcC' = "principal" /\ sesion' = m.id /\ titular' = curso.dni
           \/ pcC' = "bienvenida" /\ UNCHANGED <<sesion, titular>>
    BY <1>3 DEF RecibeAcceso
  <2>2. /\ aCliente # <<>> => m \in Unicas /\ aCliente' = <<>> /\ pcS \in {"comando", "caido"}
        /\ aCliente = <<>> => m.tipo = "" /\ ~conectado'
        /\ conectado /\ curso = pedida /\ UNCHANGED <<aServidor, enlace>>
    BY <1>1, <2>1, UnaRespuesta DEF Sinc
  <2>3. Marcha'
    BY <2>1, <2>2, FinDeLectura DEF Sinc, Menus, servidor
  <2>4. cache' = {}
    BY <1>1, <2>1 DEF Base, Dialogo, EnPeticion
  <2>5. CacheSana'
    BY <2>1, <2>4 DEF CacheSana, Vigente, Espera, EnPeticion
  <2>6. DelTitular'
    <3>1. CASE m.tipo = "OK" /\ curso.cmd = "LOGIN" /\ sesion' = m.id /\ titular' = curso.dni
      <4>1. m \in Unicas /\ pedida = curso
        BY <2>2, <3>1
      <4>2. pedida.dni \in DOMAIN usuario /\ m.id = usuario[pedida.dni]
        BY <3>1, <4>1 DEF Unicas
      <4> QED BY <2>1, <3>1, <4>1, <4>2 DEF DelTitular, tablas
    <3>2. CASE UNCHANGED <<sesion, titular>>
      BY <2>1, <3>2 DEF Sinc, DelTitular, tablas
    <3> QED BY <2>1, <3>1, <3>2
  <2> QED BY <2>3, <2>5, <2>6 DEF Sinc
<1> QED BY <1>2, <1>3

LEMMA RecibeLogoutSinc ==
  ASSUME Base, Sinc, pcC \in {"recibe", "lista"}, NEW m, RecibeLogout(m)
  PROVE  Sinc'
<1>1. curso.cmd = "LOGOUT" /\ curso.cmd \notin Listados
  BY DEF RecibeLogout, Listados
<1>2. /\ Recibir(m) /\ curso' = Nada /\ UNCHANGED <<leidas, servidor, tablas, pedida, hecha>>
      /\ \/ pcC' = "bienvenida" /\ sesion' = Cerrada /\ cache' = {} /\ titular' = SinDni
         \/ pcC' = "principal" /\ UNCHANGED <<sesion, cache, titular>>
  BY DEF RecibeLogout
<1>3. /\ aCliente # <<>> => m \in Unicas /\ aCliente' = <<>> /\ pcS \in {"comando", "caido"}
      /\ conectado /\ curso = pedida /\ UNCHANGED <<aServidor, enlace>>
  BY <1>1, <1>2, UnaRespuesta DEF Sinc
<1>4. Marcha'
  BY <1>2, <1>3, FinDeLectura DEF Sinc, Menus, servidor
<1>5. Vigente /\ Vigente'
  <2>1. Vigente
    BY <1>1, <1>3 DEF Sinc, CacheSana
  <2> QED BY <1>2, <2>1 DEF Vigente, tablas
<1>6. CacheSana'
  BY <1>2, <1>5 DEF CacheSana, Espera, EnPeticion
<1>7. DelTitular'
  BY <1>2 DEF Sinc, DelTitular, tablas
<1> QED BY <1>4, <1>6, <1>7 DEF Sinc

LEMMA RecibeCambioSinc ==
  ASSUME Base, Sinc, pcC \in {"recibe", "lista"}, NEW m, RecibeCambio(m)
  PROVE  Sinc'
<1>0. TipoCliente
  BY TiposPorPartes DEF Base
<1>1. /\ curso.cmd \in {"CREATE_RESERVA", "CANCEL_RESERVA", "UPDATE_RESERVA"}
      /\ curso.cmd \notin Listados
  BY DEF RecibeCambio, Listados
<1>2. /\ Recibir(m) /\ UNCHANGED <<sesion, leidas, servidor, tablas, historia>>
      /\ \/ curso.cmd = "CANCEL_RESERVA" /\ pcC' = "principal" /\ curso' = Nada /\ cache' = TrasCancelar(m)
         \/ /\ curso.cmd # "CANCEL_RESERVA" /\ cache' = cache
            /\ \/ esOk(m) /\ pcC' = "envia" /\ curso' = Carga("ver")
               \/ ~esOk(m) /\ pcC' = "principal" /\ curso' = Nada
  BY DEF RecibeCambio
<1>3. /\ aCliente # <<>> => m \in Unicas /\ aCliente' = <<>> /\ pcS \in {"comando", "caido"}
      /\ aCliente = <<>> => m.tipo = "" /\ ~conectado'
      /\ conectado /\ curso = pedida /\ UNCHANGED <<aServidor, enlace>>
  BY <1>1, <1>2, UnaRespuesta DEF Sinc
<1>4. Carga("ver").cmd = "GET_RESERVA" /\ Carga("ver").usuario = sesion
  <2>1. sesion \in Nat
    BY <1>0, <1>1 DEF Base, Dialogo, EnPeticion, TipoCliente
  <2> QED BY <2>1, Pedidas
<1>5. Nada.cmd = ""
  BY DEF Nada
<1>6. Marcha'
  <2>1. pcC' \in Menus /\ (pcC' = "envia" => curso'.usuario = sesion')
    BY <1>2, <1>4 DEF Menus
  <2> QED BY <1>2, <1>3, <2>1, FinDeLectura DEF Sinc, servidor, historia
<1>7. ASSUME conectado', ~(pcC' = "envia" /\ curso'.cmd = "GET_RESERVA")
      PROVE  Vigente'
  <2>1. m \in Unicas
    BY <1>3, <1>7
  <2>2. CASE curso.cmd = "CANCEL_RESERVA" /\ esOk(m)
    BY <1>2, <2>2 DEF TrasCancelar, Vigente
  <2>3. CASE ~(curso.cmd = "CANCEL_RESERVA" /\ esOk(m))
    <3>1. cache' = cache /\ ~esOk(m)
      BY <1>2, <1>4, <1>7, <2>3 DEF TrasCancelar
    <3>2. hecha = "error"
      BY <1>1, <1>3, <2>1, <3>1 DEF Unicas, esOk
    <3>3. Vigente
      BY <1>1, <1>3, <3>2 DEF Sinc, CacheSana
    <3> QED BY <1>2, <3>1, <3>3 DEF Vigente, tablas
  <2> QED BY <2>2, <2>3
<1>8. CacheSana'
  BY <1>2, <1>4, <1>5, <1>7 DEF CacheSana, Espera, EnPeticion
<1>9. DelTitular'
  BY <1>2 DEF Sinc, DelTitular, tablas, historia
<1> QED BY <1>6, <1>8, <1>9 DEF Sinc

LEMMA RestoConcatena ==
  ASSUME NEW S, NEW a \in Seq(S), a # <<>>, NEW t \in Seq(S), NEW s \in Seq(S),
         Len(t) = Len(a) - 1, \A i \in 1 .. Len(t) : t[i] = a[i + 1]
  PROVE  /\ a \o s \in Seq(S) /\ t \o s \in Seq(S)
         /\ Len(t \o s) = Len(a \o s) - 1
         /\ \A i \in 1 .. Len(t \o s) : (t \o s)[i] = (a \o s)[i + 1]
         /\ (a \o s)[1] = a[1] /\ Len(a \o s) \in Nat \ {0}
<1>1. Len(a) \in Nat /\ Len(s) \in Nat /\ Len(t) \in Nat /\ Len(a) > 0
  BY EmptySeq
<1>2. /\ a \o s \in Seq(S) /\ Len(a \o s) = Len(a) + Len(s)
      /\ \A i \in 1 .. Len(a) + Len(s) : (a \o s)[i] = IF i <= Len(a) THEN a[i] ELSE s[i - Len(a)]
  BY ConcatProperties
<1>3. /\ t \o s \in Seq(S) /\ Len(t \o s) = Len(t) + Len(s)
      /\ \A i \in 1 .. Len(t) + Len(s) : (t \o s)[i] = IF i <= Len(t) THEN t[i] ELSE s[i - Len(t)]
  BY ConcatProperties
<1>4. ASSUME NEW i \in 1 .. Len(t \o s)
      PROVE  (t \o s)[i] = (a \o s)[i + 1]
  <2>1. i \in 1 .. Len(t) + Len(s) /\ i + 1 \in 1 .. Len(a) + Len(s)
    BY <1>1, <1>3
  <2>2. i <= Len(t) <=> i + 1 <= Len(a)
    BY <1>1, <2>1
  <2>3. i <= Len(t) => t[i] = a[i + 1]
    BY <1>1, <2>1
  <2>4. i - Len(t) = i + 1 - Len(a)
    BY <1>1, <2>1
  <2> QED BY <1>2, <1>3, <2>1, <2>2, <2>3, <2>4
<1>5. (a \o s)[1] = a[1] /\ Len(a \o s) \in Nat \ {0}
  BY <1>1, <1>2
<1>6. Len(t \o s) = Len(a \o s) - 1
  BY <1>1, <1>2, <1>3
<1> QED BY <1>2, <1>3, <1>4, <1>5, <1>6, Zenon

\* A line of a list is read, and it is not the last.
LEMMA ListaSigue ==
  ASSUME Base, Sinc, pcC \in {"recibe", "lista"}, NEW m, Recibir(m), aCliente # <<>>,
         curso.cmd \in Listados, pcC' = "lista", leidas' = leidas \cup Datos(m),
         m.tipo # "LIST_END", pcC = "recibe" => m.tipo = "LIST_START",
         UNCHANGED <<sesion, cache, curso, dicho, servidor, tablas, historia>>
  PROVE  Sinc'
<1>0. TipoCliente /\ TipoRed /\ TipoServidor
  BY TiposPorPartes DEF Base
<1>1. /\ hecha # "no" /\ aServidor = <<>> /\ curso = pedida /\ Espera
      /\ conectado /\ pedida.cmd \in Listados
  BY Lectura DEF Sinc, Marcha, EnPaso, Respondida, Espera
<1>2. hecha = "exito"
  <2>1. TipoHistoria
    BY TiposPorPartes DEF Base
  <2>2. pcC = "lista" => hecha = "exito"
    BY DEF Sinc, Marcha, EnPaso
  <2>3. Modo = "una" => m \in Unicas
    BY Lectura DEF Sinc
  <2>4. hecha # "error"
    <3>1. hecha = "error" => m \in Unicas
      BY <2>3, ModoValor
    <3> QED BY <2>2, <3>1 DEF Unicas
  <2> QED BY <1>1, <2>1, <2>4 DEF TipoHistoria
<1>3. /\ aCliente \in Seq(Lineas) /\ aCliente' \in Seq(Lineas) /\ salida \in Seq(Lineas)
      /\ m = aCliente[1] /\ Len(aCliente') = Len(aCliente) - 1
      /\ \A i \in 1 .. Len(aCliente') : aCliente'[i] = aCliente[i + 1]
      /\ conectado' /\ UNCHANGED <<aServidor, enlace>>
  BY <1>0, RecibirTipo DEF TipoRed, TipoServidor
<1>4. SinMarca(Filas)
  BY FilasSinMarca
<1>5. /\ Modo \in {"lista", "abierta"} /\ (Modo = "abierta" <=> pcC = "lista") /\ Validas = Filas
      /\ Modo = "lista" => m.tipo = "LIST_START"
      /\ Modo = "abierta" => m \in Filas
  <2>1. /\ Modo = "lista" => m.tipo = "LIST_START"
        /\ Modo = "abierta" => m \in Filas
    BY Lectura DEF Sinc
  <2> QED BY <1>1, <1>2, <2>1, ModoValor
<1>6. Filas' = Filas /\ Validas' = Filas /\ Modo' = "abierta" /\ UNCHANGED <<pcS, salida, hecha, pedida>>
  BY <1>1, <1>2 DEF Filas, Validas, FilasReserva, FilasNegocio, Modo, tablas, historia, servidor
<1>7. EnPaso'
  BY <1>1, <1>2, <1>3, <1>6 DEF Sinc, Marcha, EnPaso, Espera, EnPeticion, Menus
<1>8. Atendida' /\ Enlazados'
  BY <1>1, <1>3, <1>6 DEF Sinc, Marcha, Atendida, Enlazados
<1>9. Respondida'
  <2>1. leidas' \subseteq Filas
    <3>1. leidas \subseteq Filas
      BY <1>1 DEF Sinc, Marcha, Respondida
    <3>2. Datos(m) \subseteq Filas
      BY <1>5 DEF Datos
    <3> QED BY <3>1, <3>2
  <2>2. /\ Empieza(aCliente, Modo, Filas) /\ (Acaba(aCliente, Modo) => pcS # "contesta")
        /\ enlace => /\ Empieza(aCliente \o salida, Modo, Filas)
                     /\ Acaba(aCliente \o salida, Modo)
                     /\ Completa(aCliente \o salida, leidas, Filas)
    BY <1>1, <1>5 DEF Sinc, Marcha, Respondida
  <2>3. Empieza(aCliente', "abierta", Filas)
    BY <1>3, <1>5, <2>2, EmpiezaResto
  <2>4. Acaba(aCliente', "abierta") => pcS # "contesta"
    <3>1. SUFFICES ASSUME Acaba(aCliente', "abierta")
                   PROVE  Acaba(aCliente, Modo)
      BY <2>2
    <3>2. Len(aCliente') \in Nat /\ Len(aCliente') > 0 /\ aCliente'[Len(aCliente')].tipo = "LIST_END"
      BY <1>3, <3>1, EmptySeq DEF Acaba
    <3>3. Len(aCliente') \in 1 .. Len(aCliente') /\ Len(aCliente') + 1 = Len(aCliente)
      BY <1>3, <3>2
    <3>4. aCliente[Len(aCliente)].tipo = "LIST_END"
      BY <1>3, <3>2, <3>3
    <3> QED BY <3>4 DEF Acaba
  <2>5. ASSUME enlace
        PROVE  /\ Empieza(aCliente' \o salida, "abierta", Filas)
               /\ Acaba(aCliente' \o salida, "abierta")
               /\ Completa(aCliente' \o salida, leidas', Filas)
    <3> DEFINE u == aCliente \o salida
               t == aCliente' \o salida
    <3>1. /\ u \in Seq(Lineas) /\ t \in Seq(Lineas) /\ Len(t) = Len(u) - 1
          /\ \A i \in 1 .. Len(t) : t[i] = u[i + 1]
          /\ u[1] = m /\ Len(u) \in Nat \ {0}
      <4>1. /\ aCliente \o salida \in Seq(Lineas) /\ aCliente' \o salida \in Seq(Lineas)
            /\ Len(aCliente' \o salida) = Len(aCliente \o salida) - 1
            /\ \A i \in 1 .. Len(aCliente' \o salida) :
                  (aCliente' \o salida)[i] = (aCliente \o salida)[i + 1]
            /\ (aCliente \o salida)[1] = aCliente[1] /\ Len(aCliente \o salida) \in Nat \ {0}
        BY <1>3, RestoConcatena, Zenon
      <4> QED BY <1>3, <4>1
    <3>2. /\ Empieza(u, Modo, Filas) /\ Acaba(u, Modo)
          /\ Completa(u, leidas, Filas)
      BY <2>2, <2>5
    <3> HIDE DEF u, t
    <3>3. Empieza(t, "abierta", Filas)
      BY <1>5, <3>1, <3>2, EmpiezaResto
    <3>4. u[Len(u)].tipo = "LIST_END"
      BY <1>5, <3>2 DEF Acaba
    <3>5. Len(u) # 1
      BY <3>1, <3>4
    <3>6. Len(t) \in 1 .. Len(t) /\ Len(t) + 1 = Len(u) /\ Len(t) > 0
      BY <3>1, <3>5
    <3>7. t[Len(t)].tipo = "LIST_END" /\ t # <<>>
      BY <3>1, <3>4, <3>6, EmptySeq
    <3>8. Acaba(t, "abierta")
      BY <3>7 DEF Acaba
    <3>9. ASSUME \A f \in Filas \ leidas : \E i \in 1 .. Len(u) : u[i] = f,
                 NEW f \in Filas \ leidas'
          PROVE  \E i \in 1 .. Len(t) : t[i] = f
      <4>1. f \in Filas \ leidas
        BY <3>9
      <4>2. PICK i \in 1 .. Len(u) : u[i] = f
        BY <3>9, <4>1
      <4>3. i # 1
        <5>1. SUFFICES ASSUME i = 1
                       PROVE  FALSE
          OBVIOUS
        <5>2. f = m
          BY <3>1, <4>2, <5>1
        <5>3. f.tipo \notin {"LIST_START", "LIST_END"}
          BY <1>4, <4>1 DEF SinMarca
        <5>4. f \in Datos(m)
          BY <5>2, <5>3 DEF Datos
        <5> QED BY <3>9, <5>4
      <4>4. i - 1 \in 1 .. Len(t) /\ i - 1 + 1 = i
        BY <3>1, <4>3
      <4>5. t[i - 1] = f
        BY <3>1, <4>2, <4>4
      <4> QED BY <4>4, <4>5
    <3>10. ASSUME leidas = {}, \A i \in 1 .. Len(u) : u[i] \notin Filas
           PROVE  leidas' = {} /\ \A i \in 1 .. Len(t) : t[i] \notin Filas
      <4>1. m \notin Filas
        <5>1. 1 \in 1 .. Len(u)
          BY <3>1
        <5> QED BY <3>1, <3>10, <5>1
      <4>2. m.tipo = "LIST_START"
        BY <1>5, <4>1
      <4>3. leidas' = {}
        BY <3>10, <4>2 DEF Datos
      <4>4. \A i \in 1 .. Len(t) : i + 1 \in 1 .. Len(u)
        BY <3>6
      <4> QED BY <3>1, <3>10, <4>3, <4>4
    <3>11. Completa(t, leidas', Filas)
      BY <3>2, <3>9, <3>10 DEF Completa
    <3> QED BY <3>3, <3>8, <3>11 DEF t
  <2> QED BY <1>1, <1>3, <1>5, <1>6, <2>1, <2>3, <2>4, <2>5 DEF Respondida, Espera
<1>10. CacheSana'
  BY <1>1, <1>3 DEF Sinc, CacheSana, Vigente, Espera, EnPeticion, Propias, tablas, historia
<1>11. DelTitular'
  BY DEF Sinc, DelTitular, tablas, historia
<1> QED BY <1>7, <1>8, <1>9, <1>10, <1>11 DEF Sinc, Marcha

LEMMA UltimaLinea ==
  ASSUME NEW S, NEW a \in Seq(S), NEW t, Len(t) = Len(a) - 1, t = <<>>
  PROVE  Len(a) = 1
<1>1. Len(t) = 0 /\ Len(a) \in Nat
  OBVIOUS
<1> QED BY <1>1

LEMMA UnicoIndice ==
  ASSUME NEW n, n = 1, NEW i \in 1 .. n
  PROVE  i = 1
OBVIOUS

\* The last line of a list, a lone refusal or the loss ends the reading.
LEMMA ListaAcaba ==
  ASSUME Base, Sinc, pcC \in {"recibe", "lista"}, NEW m, Recibir(m), curso.cmd \in Listados,
         IF pcC = "lista" THEN m.tipo \in {"LIST_END", ""} ELSE m.tipo # "LIST_START"
  PROVE  /\ conectado /\ curso = pedida /\ UNCHANGED <<aServidor, enlace>>
         /\ aCliente = <<>> => ~conectado' /\ ~enlace /\ m.tipo = ""
         /\ aCliente # <<>> =>
              /\ aCliente' = <<>> /\ pcS \in {"comando", "caido"}
              /\ \/ m.tipo = "ERR" /\ pcC = "recibe"
                 \/ /\ m.tipo = "LIST_END" /\ pcC = "lista" /\ leidas \subseteq Filas
                    /\ enlace => leidas \in {{}, Filas}
<1>0. TipoCliente /\ TipoRed /\ TipoServidor
  BY TiposPorPartes DEF Base
<1>1. conectado /\ curso = pedida /\ Espera /\ pedida.cmd \in Listados
  BY DEF Sinc, Marcha, EnPaso, Espera
<1>2. /\ UNCHANGED <<aServidor, enlace>>
      /\ aCliente = <<>> => ~conectado' /\ ~enlace /\ m.tipo = ""
  BY <1>0, RecibirTipo
<1>3. aCliente # <<>> => hecha # "no" /\ m = aCliente[1]
  BY Lectura DEF Sinc
<1>4. ASSUME aCliente # <<>>, Modo = "una"
      PROVE  m.tipo = "ERR" /\ pcC = "recibe" /\ aCliente' = <<>> /\ pcS \in {"comando", "caido"}
  <2>1. m \in Unicas /\ aCliente' = <<>> /\ pcS \in {"comando", "caido"}
    BY <1>4, Lectura DEF Sinc
  <2>2. hecha = "error"
    BY <1>1, <1>4, ModoValor
  <2>3. pcC # "lista"
    BY <2>2 DEF Sinc, Marcha, EnPaso
  <2> QED BY <2>1, <2>2, <2>3 DEF Unicas
<1>5. ASSUME aCliente # <<>>, Modo # "una"
      PROVE  /\ m.tipo = "LIST_END" /\ pcC = "lista" /\ aCliente' = <<>>
             /\ pcS \in {"comando", "caido"} /\ leidas \subseteq Filas
             /\ enlace => leidas \in {{}, Filas}
  <2>1. SinMarca(Filas)
    BY FilasSinMarca
  <2>2. /\ Modo = "lista" => m.tipo = "LIST_START"
        /\ Modo = "abierta" =>
             m \in Filas \/ (m.tipo = "LIST_END" /\ aCliente' = <<>> /\ pcS \in {"comando", "caido"})
    BY <1>5, Lectura DEF Sinc
  <2>3. Modo = "abierta" /\ pcC = "lista" /\ m.tipo \in {"LIST_END", ""}
    BY <1>5, <2>2, ModoValor
  <2>4. m.tipo = "LIST_END" /\ aCliente' = <<>> /\ pcS \in {"comando", "caido"}
    BY <2>1, <2>2, <2>3 DEF SinMarca
  <2>5. leidas \subseteq Filas
    BY <1>1 DEF Sinc, Marcha, Respondida
  <2>6. ASSUME enlace
        PROVE  leidas \in {{}, Filas}
    <3>1. Completa(aCliente \o salida, leidas, Filas)
      BY <1>1, <1>3, <1>5, <2>6 DEF Sinc, Marcha, Respondida
    <3>2. salida = <<>>
      BY <1>0, <2>4 DEF TipoServidor
    <3>3. aCliente \in Seq(Lineas)
      BY <1>0 DEF TipoRed
    <3>4. aCliente \o salida = aCliente
      BY <3>2, <3>3, ConcatEmptySeq
    <3>5. Len(aCliente) = 1
      <4>1. Len(aCliente') = Len(aCliente) - 1
        BY <1>0, <1>5, RecibirTipo
      <4> QED BY <2>4, <3>3, <4>1, UltimaLinea, Zenon
    <3>6. ASSUME NEW f \in Filas \ leidas, NEW i \in 1 .. Len(aCliente), aCliente[i] = f
          PROVE  FALSE
      <4>1. i = 1
        BY <3>5, UnicoIndice, Zenon
      <4>2. f = m
        BY <1>3, <1>5, <3>6, <4>1, Zenon
      <4> QED BY <2>1, <2>4, <4>2 DEF SinMarca
    <3>7. leidas = {} \/ Filas \subseteq leidas
      BY <3>1, <3>4, <3>6 DEF Completa
    <3> QED BY <2>5, <3>7
  <2> QED BY <2>3, <2>4, <2>5, <2>6
<1> QED BY <1>1, <1>2, <1>4, <1>5

\* Reading ends in a menu, or in the second request of showing the services.
LEMMA CierraMarcha ==
  ASSUME Base, Sinc, pcC \in {"recibe", "lista"}, NEW m, Recibir(m), curso.cmd \in Listados,
         IF pcC = "lista" THEN m.tipo \in {"LIST_END", ""} ELSE m.tipo # "LIST_START",
         NEW F, Prosigue(curso, F), UNCHANGED <<sesion, servidor, tablas, historia>>
  PROVE  /\ Marcha' /\ DelTitular' /\ pcC' \in Menus
         /\ EnPeticion' => pcC' = "envia" /\ curso'.cmd = "GET_SERVICIOS" /\ curso.motivo = "negocios"
<1>1. /\ aCliente # <<>> => aCliente' = <<>> /\ pcS \in {"comando", "caido"}
  BY ListaAcaba
<1>2. /\ pcC' \in Menus
      /\ EnPeticion' => pcC' = "envia" /\ curso'.cmd = "GET_SERVICIOS" /\ curso.motivo = "negocios"
  <2>1. curso \in Cursos
    BY TiposPorPartes DEF Base, TipoCliente
  <2> QED BY <2>1, ProsigueAdonde, MenuAdonde, Pedidas DEF Menus, EnPeticion
<1>3. Marcha'
  BY <1>1, <1>2, FinDeLectura DEF Sinc, EnPeticion, Menus, servidor, historia
<1>4. DelTitular'
  BY DEF Sinc, DelTitular, tablas, historia
<1> QED BY <1>2, <1>3, <1>4

\* The rows of a reservation list are the reservations of who asked for it.
LEMMA FilasPropias ==
  ASSUME Base, NEW u \in Nat
  PROVE  /\ \A l \in FilasReserva(u) : /\ l.id \in DOMAIN reserva
                                       /\ reserva[l.id] = [usuario |-> u, servicio |-> l.servicio]
         /\ {[reserva |-> l.id, servicio |-> l.servicio] : l \in FilasReserva(u)} =
              {[reserva |-> i, servicio |-> reserva[i].servicio] :
                  i \in {j \in DOMAIN reserva : reserva[j].usuario = u}}
<1>0. TipoTablas
  BY TiposPorPartes DEF Base
<1> DEFINE J == {j \in DOMAIN reserva : reserva[j].usuario = u}
<1>1. \A i \in J : /\ i \in Nat /\ reserva[i].servicio \in Nat
                   /\ reserva[i] = [usuario |-> u, servicio |-> reserva[i].servicio]
  BY <1>0 DEF TipoTablas
<1>2. \A i \in J : /\ Fila(i, reserva[i].servicio).id = i
                   /\ Fila(i, reserva[i].servicio).servicio = reserva[i].servicio
  BY DEF Fila, Linea
<1>3. FilasReserva(u) = {Fila(i, reserva[i].servicio) : i \in J}
  BY DEF FilasReserva
<1>4. \A l \in FilasReserva(u) : \E i \in J : l = Fila(i, reserva[i].servicio)
  BY <1>3
<1>5. \A l \in FilasReserva(u) : /\ l.id \in J /\ l.servicio = reserva[l.id].servicio
                                 /\ reserva[l.id] = [usuario |-> u, servicio |-> l.servicio]
  BY <1>1, <1>2, <1>4
<1>6. \A i \in J : \E l \in FilasReserva(u) : l.id = i /\ l.servicio = reserva[i].servicio
  BY <1>2, <1>3
<1>7. {[reserva |-> l.id, servicio |-> l.servicio] : l \in FilasReserva(u)} =
        {[reserva |-> i, servicio |-> reserva[i].servicio] : i \in J}
  <2> DEFINE X == {[reserva |-> l.id, servicio |-> l.servicio] : l \in FilasReserva(u)}
             Y == {[reserva |-> i, servicio |-> reserva[i].servicio] : i \in J}
  <2>1. ASSUME NEW x \in X
        PROVE  x \in Y
    <3>1. PICK l \in FilasReserva(u) : x = [reserva |-> l.id, servicio |-> l.servicio]
      OBVIOUS
    <3>2. l.id \in J /\ l.servicio = reserva[l.id].servicio
      BY <1>5
    <3> QED BY <3>1, <3>2
  <2>2. ASSUME NEW y \in Y
        PROVE  y \in X
    <3>1. PICK i \in J : y = [reserva |-> i, servicio |-> reserva[i].servicio]
      OBVIOUS
    <3>2. PICK l \in FilasReserva(u) : l.id = i /\ l.servicio = reserva[i].servicio
      BY <1>6
    <3> QED BY <3>1, <3>2
  <2> HIDE DEF X, Y
  <2>3. X = Y
    BY <2>1, <2>2
  <2> QED BY <2>3 DEF X, Y
<1> QED BY <1>5, <1>7

LEMMA CargaReservasSinc ==
  ASSUME Base, Sinc, pcC \in {"recibe", "lista"}, NEW m, curso.cmd = "GET_RESERVA",
         IF pcC = "lista" THEN m.tipo \in {"LIST_END", ""} ELSE m.tipo # "LIST_START",
         CargaReservas(m, leidas \cup Datos(m))
  PROVE  Sinc'
<1> curso.cmd \in Listados
  BY DEF Listados
<1>0. TipoCliente
  BY TiposPorPartes DEF Base
<1>1. CASE Muere
  BY <1>1, MuereSinc
<1>2. CASE ~Muere
  <2> DEFINE lineas == leidas \cup Datos(m)
  <2>1. /\ Recibir(m) /\ UNCHANGED <<sesion, servidor, tablas, historia>>
        /\ \E F : Prosigue(curso, F)
        /\ IF pcC = "recibe" /\ esError(m) THEN cache' = cache
           ELSE cache' = cache \cup {[reserva |-> l.id, servicio |-> l.servicio] : l \in lineas}
    BY <1>2 DEF CargaReservas
  <2>2. /\ conectado /\ curso = pedida /\ UNCHANGED <<aServidor, enlace>>
        /\ aCliente = <<>> => ~conectado' /\ ~enlace /\ m.tipo = ""
        /\ aCliente # <<>> =>
             \/ m.tipo = "ERR" /\ pcC = "recibe"
             \/ /\ m.tipo = "LIST_END" /\ pcC = "lista" /\ leidas \subseteq Filas
                /\ enlace => leidas \in {{}, Filas}
    BY <2>1, ListaAcaba
  <2>3. /\ Marcha' /\ DelTitular' /\ pcC' \in Menus
        /\ EnPeticion' => pcC' = "envia" /\ curso'.cmd = "GET_SERVICIOS"
    BY <2>1, CierraMarcha
  <2>4. CASE aCliente = <<>>
    BY <2>2, <2>3, <2>4 DEF Sinc, CacheSana, Espera, Menus
  <2>5. CASE aCliente # <<>> /\ m.tipo = "ERR"
    <3>1. cache = {} /\ cache' = {}
      <4>1. cache = {}
        BY DEF Sinc, CacheSana, Espera
      <4>2. esError(m) /\ pcC = "recibe"
        BY <2>2, <2>5 DEF esError
      <4> QED BY <2>1, <4>1, <4>2
    <3>2. CacheSana'
      BY <2>3, <3>1 DEF CacheSana, Vigente, Espera, Menus
    <3> QED BY <2>3, <3>2 DEF Sinc
  <2>6. CASE aCliente # <<>> /\ m.tipo # "ERR"
    <3>1. lineas = leidas /\ pcC = "lista" /\ leidas \subseteq Filas
      BY <2>2, <2>6 DEF Datos
    <3>2. cache = {} /\ pedida.usuario = sesion /\ Filas = FilasReserva(sesion) /\ sesion \in Nat
      <4>1. cache = {}
        BY DEF Sinc, CacheSana, Espera
      <4>2. curso.usuario = sesion
        BY DEF Sinc, Marcha, EnPaso, EnPeticion
      <4>3. sesion \in Nat
        BY <1>0 DEF Base, Dialogo, EnPeticion, TipoCliente
      <4> QED BY <2>2, <4>1, <4>2, <4>3 DEF Filas
    <3>3. cache' = {[reserva |-> l.id, servicio |-> l.servicio] : l \in leidas}
      BY <2>1, <3>1, <3>2
    <3>4. Vigente'
      <4>1. \A l \in leidas : /\ l.id \in DOMAIN reserva
                              /\ reserva[l.id] = [usuario |-> sesion, servicio |-> l.servicio]
        BY <3>1, <3>2, FilasPropias
      <4>2. ASSUME NEW c \in cache'
            PROVE  /\ c.reserva \in DOMAIN reserva
                   /\ reserva[c.reserva] = [usuario |-> sesion, servicio |-> c.servicio]
        <5>1. PICK l \in leidas : c = [reserva |-> l.id, servicio |-> l.servicio]
          BY <3>3
        <5>2. c.reserva = l.id /\ c.servicio = l.servicio
          BY <5>1
        <5> QED BY <4>1, <5>2
      <4> QED BY <2>1, <4>2 DEF Vigente, tablas
    <3>5. enlace => \/ cache' = {}
                    \/ cache' = {[reserva |-> i, servicio |-> reserva[i].servicio] : i \in Propias}
      <4>1. enlace => leidas = {} \/ leidas = FilasReserva(sesion)
        BY <2>2, <2>6, <3>2
      <4>2. leidas = {} => cache' = {}
        BY <3>3
      <4>3. leidas = FilasReserva(sesion) =>
              cache' = {[reserva |-> i, servicio |-> reserva[i].servicio] : i \in Propias}
        BY <3>2, <3>3, FilasPropias DEF Propias
      <4> QED BY <4>1, <4>2, <4>3
    <3>6. CacheSana'
      BY <2>1, <2>2, <2>3, <3>4, <3>5 DEF CacheSana, Espera, Menus, Propias, tablas
    <3> QED BY <2>3, <3>6 DEF Sinc
  <2> QED BY <2>4, <2>5, <2>6
<1> QED BY <1>1, <1>2

LEMMA CargaNegociosSinc ==
  ASSUME Base, Sinc, pcC \in {"recibe", "lista"}, NEW m, curso.cmd = "GET_SERVICIOS",
         IF pcC = "lista" THEN m.tipo \in {"LIST_END", ""} ELSE m.tipo # "LIST_START",
         CargaNegocios(m, leidas \cup Datos(m))
  PROVE  Sinc'
<1> curso.cmd \in Listados
  BY DEF Listados
<1>1. /\ Recibir(m) /\ UNCHANGED <<sesion, servidor, tablas, historia>>
      /\ cache' = cache /\ Prosigue(curso, {})
  BY DEF CargaNegocios
<1>2. conectado
  BY <1>1, ListaAcaba
<1>3. /\ Marcha' /\ DelTitular' /\ pcC' \in Menus
      /\ EnPeticion' => curso.motivo = "negocios"
  BY <1>1, CierraMarcha
<1>4. ~EnPeticion'
  BY <1>3 DEF Base, Dialogo
<1>5. Vigente'
  <2>1. Vigente
    BY <1>2 DEF Sinc, CacheSana
  <2> QED BY <1>1, <2>1 DEF Vigente, tablas
<1>6. CacheSana'
  BY <1>3, <1>4, <1>5 DEF CacheSana, Espera, EnPeticion, Menus
<1> QED BY <1>3, <1>6 DEF Sinc

LEMMA RecibeListaSinc ==
  ASSUME Base, Sinc, pcC \in {"recibe", "lista"}, aCliente # <<>> \/ ~enlace,
         NEW m, m = Siguiente, RecibeLista(m)
  PROVE  Sinc'
<1> DEFINE cierra == IF pcC = "lista" THEN m.tipo \in {"LIST_END", ""} ELSE m.tipo # "LIST_START"
           lineas == leidas \cup Datos(m)
<1>1. curso.cmd \in {"GET_RESERVA", "GET_SERVICIOS"} /\ curso.cmd \in Listados
  BY DEF RecibeLista, Listados
<1>2. CASE /\ ~cierra /\ Recibir(m)
           /\ pcC' = "lista" /\ leidas' = lineas
           /\ UNCHANGED <<sesion, cache, curso, dicho, servidor, tablas, historia>>
  <2>1. aCliente # <<>>
    <3>1. aCliente = <<>> => m.tipo = ""
      BY LineasTipo DEF Siguiente
    <3> QED BY <1>2, <3>1
  <2> QED BY <1>1, <1>2, <2>1, ListaSigue
<1>3. CASE cierra /\ curso.cmd = "GET_RESERVA" /\ CargaReservas(m, lineas)
  BY <1>3, CargaReservasSinc
<1>4. CASE cierra /\ curso.cmd = "GET_SERVICIOS" /\ CargaNegocios(m, lineas)
  BY <1>4, CargaNegociosSinc
<1> QED BY <1>2, <1>3, <1>4 DEF RecibeLista

LEMMA RecibeSinc ==
  ASSUME Base, Sinc, Recibe
  PROVE  Sinc'
<1>1. PICK m \in {Siguiente} : RecibeAcceso(m) \/ RecibeLogout(m) \/ RecibeCambio(m) \/ RecibeLista(m)
  BY DEF Recibe
<1>2. pcC \in {"recibe", "lista"} /\ (aCliente # <<>> \/ ~enlace) /\ m = Siguiente
  BY DEF Recibe
<1> QED BY <1>1, <1>2, RecibeAccesoSinc, RecibeLogoutSinc, RecibeCambioSinc, RecibeListaSinc

-----------------------------------------------------------------------------
(* The server keeps in step                                                 *)

\* What the cache and the session are compared with does not change.
LEMMA CacheQuieta ==
  ASSUME Sinc, UNCHANGED <<cliente, enlace, usuario, reserva, titular, hecha>>
  PROVE  CacheSana' /\ DelTitular'
<1>1. Vigente' = Vigente /\ Propias' = Propias /\ Espera' = Espera /\ EnPeticion' = EnPeticion
  BY DEF Vigente, Propias, Espera, EnPeticion, cliente
<1>2. CacheSana'
  BY <1>1 DEF Sinc, CacheSana, cliente
<1>3. DelTitular'
  BY DEF Sinc, DelTitular, cliente
<1> QED BY <1>2, <1>3

\* Nor does what the answer under way is compared with.
LEMMA RespuestaQuieta ==
  ASSUME UNCHANGED <<cliente, usuario, reserva, pedida, hecha>>
  PROVE  Modo' = Modo /\ Validas' = Validas /\ Filas' = Filas /\ Espera' = Espera
BY DEF Modo, Validas, Filas, FilasReserva, FilasNegocio, Unicas, Espera, cliente

LEMMA DosTramas ==
  ASSUME NEW a, NEW b
  PROVE  /\ Head(<<a>>) = a /\ Tail(<<a>>) = <<>> /\ <<a>> # <<>>
         /\ Head(<<a, b>>) = a /\ Tail(<<a, b>>) = <<b>> /\ <<a, b>> # <<>>
OBVIOUS

LEMMA RecibeComandoSinc ==
  ASSUME Base, Sinc, RecibeComando
  PROVE  Sinc'
<1>0. TipoHistoria
  BY TiposPorPartes DEF Base
<1> DEFINE C == Comando(pedida)
           V == Valores(pedida)
<1>1. /\ pcS = "comando" /\ aServidor # <<>> /\ aServidor' = Tail(aServidor)
      /\ UNCHANGED <<cliente, aCliente, enlace, tablas, hecha, titular, pedida>>
  BY DEF RecibeComando, SinCambioCliente
<1>2. hecha = "no" /\ (aServidor = <<C>> \/ aServidor = <<C, V>>)
  BY <1>1 DEF Sinc, Marcha, Atendida
<1>3. /\ Head(aServidor) = C
      /\ aServidor = <<C>> => aServidor' = <<>>
      /\ aServidor = <<C, V>> => aServidor' = <<V>>
  <2> HIDE DEF C, V
  <2>1. aServidor = <<C>> => Head(aServidor) = C /\ Tail(aServidor) = <<>>
    BY DosTramas
  <2>2. aServidor = <<C, V>> => Head(aServidor) = C /\ Tail(aServidor) = <<V>>
    BY DosTramas
  <2> QED BY <1>1, <1>2, <2>1, <2>2
<1>4. C.clase = "comando" /\ C.pet = Orden(pedida)
  BY <1>0, TramasTipo DEF TipoHistoria, Orden
<1>5. pcS' = "parametros" /\ recibida' = Orden(pedida) /\ salida' = salida
  BY <1>3, <1>4 DEF RecibeComando
<1>6. Orden(pedida)' = Orden(pedida) /\ V' = V
  BY <1>1 DEF Orden, Valores
<1>7. EnPaso'
  BY <1>1 DEF Sinc, Marcha, EnPaso, Espera, EnPeticion, Menus, cliente
<1>8. Atendida'
  BY <1>1, <1>2, <1>3, <1>5, <1>6 DEF Atendida
<1>9. enlace' => Enlazados'
  <2>1. <<C>> # <<C, V>>
    OBVIOUS
  <2>2. SUFFICES ASSUME enlace
                 PROVE  Enlazados'
    BY <1>1
  <2>3. pcC \in {"fecha", "parametros"} => aServidor' = <<>>
    BY <1>1, <1>3, <2>2 DEF Sinc, Marcha, Enlazados
  <2>4. pcC = "recibe" => aServidor' = <<V>>
    BY <1>1, <1>2, <1>3, <2>2 DEF Sinc, Marcha, Enlazados
  <2> QED BY <1>1, <1>2, <1>5, <1>6, <2>3, <2>4 DEF Enlazados, cliente
<1>10. Respondida'
  BY <1>1, <1>2, RespuestaQuieta DEF Sinc, Marcha, Respondida, cliente, tablas
<1>11. CacheSana' /\ DelTitular'
  BY <1>1, CacheQuieta DEF tablas
<1> QED BY <1>7, <1>8, <1>9, <1>10, <1>11 DEF Sinc, Marcha

LEMMA RecibeParametrosSinc ==
  ASSUME Base, Sinc, RecibeParametros
  PROVE  Sinc'
<1>0. TipoHistoria
  BY TiposPorPartes DEF Base
<1> DEFINE V == Valores(pedida)
<1>1. /\ pcS = "parametros" /\ pcS' = "atiende"
      /\ UNCHANGED <<cliente, aCliente, enlace, salida, tablas, hecha, titular, pedida>>
  BY DEF RecibeParametros, SinCambioCliente
<1>2. /\ hecha = "no" /\ recibida = Orden(pedida)
      /\ aServidor = <<>> \/ aServidor = <<V>>
  BY <1>1 DEF Sinc, Marcha, Atendida
<1>3. V.clase = "parametros" /\ V.pet = pedida /\ pedida \in Cursos
  BY <1>0, TramasTipo DEF TipoHistoria
<1>4. Orden(pedida).cmd = pedida.cmd
  BY DEF Orden, Nada
<1>5. [pedida EXCEPT !.cmd = pedida.cmd] = pedida
  BY <1>3 DEF Cursos
<1>6. \/ aServidor = <<V>> /\ recibida' = pedida /\ aServidor' = <<>>
      \/ aServidor = <<>> /\ ~enlace /\ recibida' = Orden(pedida) /\ aServidor' = <<>>
  <2>1. CASE aServidor # <<>>
    <3>1. aServidor = <<V>>
      BY <1>2, <2>1
    <3> HIDE DEF V
    <3>2. Head(aServidor) = V /\ Tail(aServidor) = <<>>
      BY <3>1, DosTramas
    <3>3. Parametro(Head(aServidor)) = pedida
      BY <1>3, <3>2 DEF Parametro
    <3>4. /\ recibida' = [Parametro(Head(aServidor)) EXCEPT !.cmd = recibida.cmd]
          /\ aServidor' = Tail(aServidor)
      BY <2>1 DEF RecibeParametros
    <3>5. recibida' = [pedida EXCEPT !.cmd = recibida.cmd]
      BY <3>3, <3>4
    <3> QED BY <1>2, <1>4, <1>5, <3>1, <3>2, <3>4, <3>5
  <2>2. CASE aServidor = <<>>
    BY <1>2, <2>2 DEF RecibeParametros
  <2> QED BY <2>1, <2>2
<1>7. EnPaso'
  BY <1>1 DEF Sinc, Marcha, EnPaso, Espera, EnPeticion, Menus, cliente
<1>8. Orden(pedida)' = Orden(pedida)
  BY <1>1 DEF Orden
<1>9. Atendida'
  BY <1>1, <1>2, <1>6, <1>8 DEF Atendida
<1>10. enlace' => Enlazados'
  <2>1. <<V>> # <<>>
    OBVIOUS
  <2>2. SUFFICES ASSUME enlace
                 PROVE  Enlazados'
    BY <1>1
  <2>3. pcC \notin {"fecha", "parametros"}
    BY <1>1, <1>6, <2>1, <2>2 DEF Sinc, Marcha, Enlazados
  <2> QED BY <1>1, <2>3 DEF Enlazados, cliente
<1>11. Respondida'
  BY <1>1, <1>2, RespuestaQuieta DEF Sinc, Marcha, Respondida, cliente, tablas
<1>12. CacheSana' /\ DelTitular'
  BY <1>1, CacheQuieta DEF tablas
<1> QED BY <1>7, <1>9, <1>10, <1>11, <1>12 DEF Sinc, Marcha

LEMMA DesconectaSinc ==
  ASSUME Base, Sinc, Desconecta
  PROVE  Sinc'
<1>1. /\ aServidor = <<>> /\ ~enlace /\ pcS = "comando" /\ pcS' = "caido"
      /\ UNCHANGED <<cliente, red, recibida, salida, tablas, hecha, titular, pedida>>
  BY DEF Desconecta, TrasCorte, SinCambioCliente
<1>2. EnPaso'
  BY <1>1 DEF Sinc, Marcha, EnPaso, Espera, EnPeticion, Menus, cliente, red
<1>3. Atendida' /\ ~enlace'
  BY <1>1 DEF Atendida, red
<1>4. Respondida'
  BY <1>1, RespuestaQuieta DEF Sinc, Marcha, Respondida, cliente, tablas, red
<1>5. CacheSana' /\ DelTitular'
  BY <1>1, CacheQuieta DEF tablas, red
<1> QED BY <1>2, <1>3, <1>4, <1>5 DEF Sinc, Marcha

\* Handing a frame over from the answer to the connection loses none.
LEMMA PasaUna ==
  ASSUME NEW S, NEW a \in Seq(S), NEW s \in Seq(S), s # <<>>
  PROVE  /\ Append(a, Head(s)) \in Seq(S) /\ Tail(s) \in Seq(S)
         /\ Append(a, Head(s)) \o Tail(s) = a \o s
         /\ a \o s \in Seq(S) /\ Len(Append(a, Head(s))) <= Len(a \o s)
         /\ \A i \in 1 .. Len(Append(a, Head(s))) : Append(a, Head(s))[i] = (a \o s)[i]
         /\ Len(Append(a, Head(s))) = Len(a \o s) => Tail(s) = <<>>
<1> DEFINE h == Head(s)
           t == Tail(s)
           p == Append(a, h)
<1>1. /\ Len(a) \in Nat /\ Len(s) \in Nat /\ Len(s) > 0
      /\ h \in S /\ h = s[1] /\ t \in Seq(S) /\ Len(t) = Len(s) - 1
      /\ \A i \in 1 .. Len(t) : t[i] = s[i + 1]
  BY EmptySeq, HeadTailProperties
<1>2. /\ p \in Seq(S) /\ Len(p) = Len(a) + 1
      /\ \A i \in 1 .. Len(a) : p[i] = a[i]
      /\ p[Len(a) + 1] = h
  BY <1>1, AppendProperties
<1>3. /\ a \o s \in Seq(S) /\ Len(a \o s) = Len(a) + Len(s)
      /\ \A i \in 1 .. Len(a) + Len(s) : (a \o s)[i] = IF i <= Len(a) THEN a[i] ELSE s[i - Len(a)]
  BY ConcatProperties
<1> HIDE DEF p, h, t
<1>4. /\ p \o t \in Seq(S) /\ Len(p \o t) = Len(p) + Len(t)
      /\ \A i \in 1 .. Len(p) + Len(t) : (p \o t)[i] = IF i <= Len(p) THEN p[i] ELSE t[i - Len(p)]
  BY <1>1, <1>2, ConcatProperties
<1>5. \A i \in 1 .. Len(p) : p[i] = (a \o s)[i]
  <2>1. ASSUME NEW i \in 1 .. Len(p)
        PROVE  p[i] = (a \o s)[i]
    <3>1. CASE i = Len(a) + 1
      <4>1. i \in 1 .. Len(a) + Len(s) /\ ~(i <= Len(a)) /\ i - Len(a) = 1
        BY <1>1, <3>1
      <4> QED BY <1>1, <1>2, <1>3, <3>1, <4>1
    <3>2. CASE i # Len(a) + 1
      <4>1. i \in 1 .. Len(a) + Len(s) /\ i \in 1 .. Len(a) /\ i <= Len(a)
        BY <1>1, <1>2, <3>2
      <4> QED BY <1>2, <1>3, <4>1
    <3> QED BY <3>1, <3>2
  <2> QED BY <2>1
<1>6. p \o t = a \o s
  <2>1. ASSUME NEW i \in 1 .. Len(p \o t)
        PROVE  (p \o t)[i] = (a \o s)[i]
    <3>0. i \in 1 .. Len(p) + Len(t) /\ i \in 1 .. Len(a) + Len(s)
      BY <1>1, <1>2, <1>4
    <3>1. CASE i <= Len(p)
      <4>1. i \in 1 .. Len(p)
        BY <3>0, <3>1, <1>1, <1>2
      <4> QED BY <1>4, <1>5, <3>0, <3>1, <4>1
    <3>2. CASE ~(i <= Len(p))
      <4>1. ~(i <= Len(a)) /\ i - Len(p) \in 1 .. Len(t) /\ i - Len(p) + 1 = i - Len(a)
        BY <3>0, <3>2, <1>1, <1>2
      <4>2. (p \o t)[i] = t[i - Len(p)] /\ (a \o s)[i] = s[i - Len(a)]
        BY <1>3, <1>4, <3>0, <3>2, <4>1
      <4>3. t[i - Len(p)] = s[i - Len(p) + 1]
        BY <1>1, <4>1
      <4> QED BY <4>1, <4>2, <4>3
    <3> QED BY <3>1, <3>2
  <2>2. Len(p \o t) = Len(a \o s)
    BY <1>1, <1>2, <1>3, <1>4
  <2> QED BY <1>3, <1>4, <2>1, <2>2, SeqEqual
<1>7. Len(p) <= Len(a \o s)
  BY <1>1, <1>2, <1>3
<1>8. Len(p) = Len(a \o s) => t = <<>>
  <2>1. Len(p) = Len(a \o s) => Len(t) = 0
    BY <1>1, <1>2, <1>3
  <2> QED BY <1>1, <2>1, EmptySeq
<1> QED BY <1>1, <1>2, <1>3, <1>5, <1>6, <1>7, <1>8 DEF p, h, t

LEMMA EnviaLineaSinc ==
  ASSUME Base, Sinc, EnviaLinea
  PROVE  Sinc'
<1>0. TipoRed /\ TipoServidor
  BY TiposPorPartes DEF Base
<1>1. /\ pcS = "contesta" /\ pcS' = (IF salida' = <<>> THEN "comando" ELSE "contesta")
      /\ salida' = Tail(salida)
      /\ aCliente' = (IF enlace THEN Append(aCliente, Head(salida)) ELSE aCliente)
      /\ UNCHANGED <<cliente, aServidor, enlace, recibida, tablas, hecha, titular, pedida>>
  BY DEF EnviaLinea, SinCambioCliente
<1>2. hecha # "no" /\ aServidor = <<>>
  BY <1>1 DEF Sinc, Marcha, Atendida
<1>3. EnPaso'
  BY <1>1 DEF Sinc, Marcha, EnPaso, Espera, EnPeticion, Menus, cliente
<1>4. Atendida'
  BY <1>1, <1>2 DEF Atendida
<1>5. enlace' => Enlazados'
  BY <1>1, <1>2 DEF Sinc, Marcha, Enlazados, cliente
<1>6. Respondida'
  <2>1. Modo' = Modo /\ Validas' = Validas /\ Filas' = Filas /\ Espera' = Espera
    BY <1>1, RespuestaQuieta DEF tablas
  <2>2. ASSUME Espera, pedida.cmd \in Listados
        PROVE  leidas \subseteq Filas
    BY <2>2 DEF Sinc, Marcha, Respondida
  <2>3. ASSUME Espera
        PROVE  Empieza(aCliente', Modo, Validas) /\ (Acaba(aCliente', Modo) => pcS' # "contesta")
    <3>1. CASE ~enlace
      BY <1>1, <1>2, <2>3, <3>1 DEF Sinc, Marcha, Respondida
    <3>2. CASE enlace
      <4> DEFINE u == aCliente \o salida
      <4>1. /\ aCliente \in Seq(Lineas) /\ salida \in Seq(Lineas) /\ salida # <<>>
            /\ aCliente' = Append(aCliente, Head(salida))
        BY <1>0, <1>1, <3>2 DEF TipoRed, TipoServidor
      <4>2. /\ aCliente' \in Seq(Lineas) /\ u \in Seq(Lineas) /\ Len(aCliente') <= Len(u)
            /\ \A i \in 1 .. Len(aCliente') : aCliente'[i] = u[i]
            /\ Len(aCliente') = Len(u) => salida' = <<>>
        BY <1>1, <4>1, PasaUna
      <4>3. Empieza(u, Modo, Validas)
        BY <1>2, <2>3, <3>2 DEF Sinc, Marcha, Respondida
      <4> HIDE DEF u
      <4>4. Modo \in {"una", "lista", "abierta"} /\ (Modo # "una" => SinMarca(Validas))
        BY ModoValor, FilasSinMarca
      <4>5. /\ Empieza(aCliente', Modo, Validas)
            /\ Acaba(aCliente', Modo) => Len(aCliente') = Len(u)
        BY <4>2, <4>3, <4>4, EmpiezaPrefijo
      <4> QED BY <1>1, <4>2, <4>5
    <3> QED BY <3>1, <3>2
  <2>4. ASSUME enlace
        PROVE  aCliente' \o salida' = aCliente \o salida
    <3>1. /\ aCliente \in Seq(Lineas) /\ salida \in Seq(Lineas) /\ salida # <<>>
          /\ aCliente' = Append(aCliente, Head(salida))
      BY <1>0, <1>1, <2>4 DEF TipoRed, TipoServidor
    <3> QED BY <1>1, <3>1, PasaUna
  <2>5. ASSUME Espera, enlace
        PROVE  /\ Empieza(aCliente \o salida, Modo, Validas) /\ Acaba(aCliente \o salida, Modo)
               /\ Modo # "una" => Completa(aCliente \o salida, leidas, Filas)
    BY <1>2, <2>5 DEF Sinc, Marcha, Respondida
  <2>6. leidas' = leidas
    BY <1>1 DEF cliente
  <2> QED BY <1>1, <1>2, <2>1, <2>2, <2>3, <2>4, <2>5, <2>6 DEF Respondida
<1>7. CacheSana' /\ DelTitular'
  BY <1>1, CacheQuieta DEF tablas
<1> QED BY <1>3, <1>4, <1>5, <1>6, <1>7 DEF Sinc, Marcha

-----------------------------------------------------------------------------
(* The handlers keep in step                                                *)

\* When a handler runs, its client is waiting for it, or has lost the connection.
LEMMA AlAtender ==
  ASSUME Base, Sinc, NEW c, Atiende(c)
  PROVE  /\ hecha = "no" /\ aServidor = <<>> /\ aCliente = <<>> /\ pedida.cmd = c
         /\ recibida = pedida \/ (~enlace /\ recibida = Orden(pedida))
         /\ conectado => Espera /\ pcC # "lista" /\ curso = pedida
         /\ pcC # "lista" /\ (Espera => conectado /\ curso = pedida)
         /\ enlace => pcC = "recibe" /\ conectado
         /\ pcS' = "contesta" /\ recibida' = Nada
         /\ UNCHANGED <<cliente, red, titular, pedida>>
<1>0. TipoCliente /\ TipoRed
  BY TiposPorPartes DEF Base
<1>1. /\ pcS = "atiende" /\ recibida.cmd = c /\ pcS' = "contesta" /\ recibida' = Nada
      /\ UNCHANGED <<cliente, red, titular, pedida>>
  BY DEF Atiende, SinCambioCliente
<1>2. /\ hecha = "no" /\ aServidor = <<>>
      /\ recibida = pedida \/ (~enlace /\ recibida = Orden(pedida))
  BY <1>1 DEF Sinc, Marcha, Atendida
<1>3. Orden(pedida).cmd = pedida.cmd
  BY DEF Orden, Nada
<1>4. aCliente = <<>>
  BY <1>2 DEF Sinc, Marcha, Respondida
<1>5. pcC # "lista" /\ (Espera => conectado /\ curso = pedida)
  BY <1>2 DEF Sinc, Marcha, EnPaso
<1>6. conectado => Espera
  BY <1>0, <1>1 DEF Sinc, Marcha, EnPaso, Espera, Menus, TipoCliente
<1>7. enlace => pcC = "recibe" /\ conectado
  BY <1>0, <1>1, <1>5, <1>6 DEF Sinc, Marcha, Enlazados, Espera, TipoRed
<1> QED BY <1>1, <1>2, <1>3, <1>4, <1>5, <1>6, <1>7

LEMMA NadaEmpieza ==
  ASSUME NEW modo, NEW R
  PROVE  Empieza(<<>>, modo, R) /\ ~Acaba(<<>>, modo)
BY DEF Empieza, Acaba

\* The whole answer to the request the client waits for puts them in step.
LEMMA AtiendeMarcha ==
  ASSUME Base, Base', Sinc, NEW c, Atiende(c), hecha' \in {"exito", "error"},
         enlace => /\ Empieza(salida', Modo', Validas') /\ Acaba(salida', Modo')
                   /\ Modo' # "una" => Completa(salida', {}, Filas')
  PROVE  Marcha'
<1>0. TipoServidor'
  BY TiposPorPartesPrima DEF Base
<1>1. /\ hecha = "no" /\ aServidor = <<>> /\ aCliente = <<>> /\ pedida.cmd = c
      /\ conectado => Espera /\ pcC # "lista" /\ curso = pedida
      /\ pcC # "lista" /\ (Espera => conectado /\ curso = pedida)
      /\ enlace => pcC = "recibe" /\ conectado
      /\ pcS' = "contesta" /\ recibida' = Nada
      /\ UNCHANGED <<cliente, red, titular, pedida>>
  BY AlAtender
<1>2. Espera' = Espera /\ EnPeticion' = EnPeticion
  BY <1>1 DEF Espera, EnPeticion, cliente
<1>3. EnPaso'
  BY <1>1, <1>2 DEF Sinc, Marcha, EnPaso, Espera, Menus, cliente, red
<1>4. Atendida'
  BY <1>1 DEF Atendida, red
<1>5. enlace' => Enlazados'
  BY <1>1 DEF Enlazados, red, cliente
<1>6. Respondida'
  <2>1. leidas = {}
    BY <1>1 DEF Base, Dialogo
  <2>2. leidas' = {} /\ aCliente' = <<>> /\ pedida' = pedida /\ enlace' = enlace
    BY <1>1, <2>1 DEF cliente, red
  <2>3. salida' \in Seq(Lineas)
    BY <1>0 DEF TipoServidor
  <2>4. aCliente' \o salida' = salida'
    BY <2>2, <2>3, ConcatEmptySeq
  <2>5. Empieza(aCliente', Modo', Validas') /\ ~Acaba(aCliente', Modo')
    BY <2>2, NadaEmpieza
  <2> QED BY <1>1, <2>2, <2>4, <2>5 DEF Respondida
<1> QED BY <1>3, <1>4, <1>5, <1>6 DEF Marcha

\* An answer of one line.
LEMMA UnaMarcha ==
  ASSUME Base, Base', Sinc, NEW c, Atiende(c),
         NEW r \in {"exito", "error"}, c \notin Listados \/ r = "error", NEW m, Contesta(r, <<m>>),
         enlace => m \in Unicas'
  PROVE  Marcha'
<1>1. pedida.cmd = c /\ pedida' = pedida
  BY AlAtender
<1>2. salida' = <<m>> /\ hecha' = r
  BY DEF Contesta
<1>3. Modo' = "una" /\ Validas' = Unicas'
  BY <1>1, <1>2 DEF Modo, Validas
<1>4. Len(<<m>>) = 1 /\ <<m>>[1] = m /\ <<m>> # <<>>
  OBVIOUS
<1>5. enlace => Empieza(salida', Modo', Validas') /\ Acaba(salida', Modo')
  <2>1. SUFFICES ASSUME enlace
                 PROVE  Empieza(salida', "una", Unicas') /\ Acaba(salida', "una")
    BY <1>3
  <2>2. Len(salida') = 1 /\ salida'[1] = m /\ salida' # <<>>
    BY <1>2, <1>4
  <2> QED BY <2>1, <2>2 DEF Empieza, Acaba
<1> QED BY <1>2, <1>3, <1>5, AtiendeMarcha

\* A handler that leaves the reservations and the session's user as they are.
LEMMA AtiendeCache ==
  ASSUME Base, Sinc, NEW c, Atiende(c), UNCHANGED reserva
  PROVE  CacheSana'
<1>1. hecha = "no" /\ UNCHANGED <<cliente, enlace>>
  BY AlAtender DEF red
<1>2. Vigente' = Vigente /\ Propias' = Propias /\ Espera' = Espera /\ EnPeticion' = EnPeticion
  BY <1>1 DEF Vigente, Propias, Espera, EnPeticion, cliente
<1> QED BY <1>1, <1>2 DEF Sinc, CacheSana, cliente

LEMMA RechazaSinc ==
  ASSUME Base, Base', Sinc, NEW c, Rechaza(c)
  PROVE  Sinc'
<1>1. Atiende(c) /\ Contesta("error", <<Linea("ERR")>>) /\ UNCHANGED tablas
  BY DEF Rechaza
<1>2. Linea("ERR") \in Unicas'
  <2>1. hecha' = "error"
    BY <1>1 DEF Contesta
  <2>2. Linea("ERR") \in Lineas /\ Linea("ERR").tipo = "ERR"
    BY LineasTipo
  <2> QED BY <2>1, <2>2 DEF Unicas
<1>3. Marcha'
  BY <1>1, <1>2, UnaMarcha
<1>4. CacheSana'
  BY <1>1, AtiendeCache DEF tablas
<1>5. DelTitular'
  <2>1. UNCHANGED <<sesion, titular, usuario>>
    BY <1>1, AlAtender DEF cliente, tablas
  <2> QED BY <2>1 DEF Sinc, DelTitular
<1> QED BY <1>3, <1>4, <1>5 DEF Sinc

LEMMA AccesosSinc ==
  ASSUME Base, Base', Sinc, handler_auth_login \/ handler_auth_register \/ handler_auth_logout
  PROVE  Sinc'
<1>0. TipoTablas /\ TipoHistoria
  BY TiposPorPartes DEF Base
<1> {"LOGIN", "REGISTER", "LOGOUT"} \cap Listados = {}
  BY DEF Listados
<1>1. CASE handler_auth_login
  <2>1. CASE Rechaza("LOGIN")
    BY <2>1, RechazaSinc
  <2>2. CASE /\ Atiende("LOGIN") /\ recibida.dni \in DOMAIN usuario
             /\ Exito(<<Ok(usuario[recibida.dni])>>)
             /\ UNCHANGED tablas
    <3>1. /\ pedida.cmd = "LOGIN" /\ (enlace => recibida = pedida)
          /\ UNCHANGED <<cliente, titular, pedida>>
      BY <2>2, AlAtender
    <3> DEFINE m == Ok(usuario[recibida.dni])
    <3>2. m \in Lineas /\ m.tipo = "OK" /\ m.id = usuario[recibida.dni]
      BY <1>0, <2>2, LineasTipo DEF TipoTablas
    <3>3. Contesta("exito", <<m>>) /\ hecha' = "exito"
      BY <2>2 DEF Exito, Contesta
    <3> HIDE DEF m
    <3>4. enlace => m \in Unicas'
      BY <2>2, <3>1, <3>2, <3>3 DEF Unicas, tablas
    <3>5. Marcha'
      BY <2>2, <3>3, <3>4, UnaMarcha
    <3>6. CacheSana'
      BY <2>2, AtiendeCache DEF tablas
    <3>7. DelTitular'
      BY <2>2, <3>1 DEF Sinc, DelTitular, tablas, cliente
    <3> QED BY <3>5, <3>6, <3>7 DEF Sinc
  <2> QED BY <1>1, <2>1, <2>2 DEF handler_auth_login
<1>2. CASE handler_auth_register
  <2>1. CASE Rechaza("REGISTER")
    BY <2>1, RechazaSinc
  <2>2. CASE ~Rechaza("REGISTER")
    <3> DEFINE k == Cardinality(DOMAIN usuario)
    <3>1. /\ Atiende("REGISTER") /\ recibida.dni \notin DOMAIN usuario
          /\ usuario' = [d \in DOMAIN usuario \cup {recibida.dni} |->
                           IF d = recibida.dni THEN k ELSE usuario[d]]
          /\ \E n \in IdAnotado(k) : Exito(<<Ok(n)>>)
          /\ UNCHANGED <<reserva, seqReserva>>
      BY <1>2, <2>2 DEF handler_auth_register
    <3>2. k \in Nat
      BY FS_CardinalityType DEF Base, Acabado
    <3>3. PICK n \in IdAnotado(k) : Exito(<<Ok(n)>>)
      BY <3>1
    <3>4. n \in Nat
      BY <3>2, Parametros DEF IdAnotado
    <3> HIDE DEF k
    <3>5. /\ pedida.cmd = "REGISTER" /\ UNCHANGED <<cliente, titular, pedida>>
      BY <3>1, AlAtender
    <3>6. Contesta("exito", <<Ok(n)>>) /\ hecha' = "exito"
      BY <3>3 DEF Exito, Contesta
    <3>7. Ok(n) \in Unicas'
      BY <3>4, <3>5, <3>6, LineasTipo DEF Unicas
    <3>8. Marcha'
      BY <3>1, <3>6, <3>7, UnaMarcha
    <3>9. CacheSana'
      BY <3>1, AtiendeCache
    <3>10. DelTitular'
      <4>1. \A d \in DOMAIN usuario : d \in DOMAIN usuario' /\ usuario'[d] = usuario[d]
        BY <3>1
      <4> QED BY <3>5, <4>1 DEF Sinc, DelTitular, cliente
    <3> QED BY <3>8, <3>9, <3>10 DEF Sinc
  <2> QED BY <2>1, <2>2
<1>3. CASE handler_auth_logout
  <2>1. /\ Atiende("LOGOUT") /\ Contesta("exito", <<Linea("OK_TEXTO")>>) /\ hecha' = "exito"
        /\ UNCHANGED tablas
    BY <1>3 DEF handler_auth_logout, Exito, Contesta
  <2>2. pedida.cmd = "LOGOUT" /\ UNCHANGED <<cliente, titular, pedida>>
    BY <2>1, AlAtender
  <2>3. Linea("OK_TEXTO") \in Lineas /\ Linea("OK_TEXTO").tipo = "OK_TEXTO"
    BY LineasTipo
  <2>4. Linea("OK_TEXTO") \in Unicas'
    BY <2>1, <2>2, <2>3 DEF Unicas
  <2>5. Marcha'
    BY <2>1, <2>4, UnaMarcha
  <2>6. CacheSana'
    BY <2>1, AtiendeCache DEF tablas
  <2>7. DelTitular'
    BY <2>1, <2>2 DEF Sinc, DelTitular, tablas, cliente
  <2> QED BY <2>5, <2>6, <2>7 DEF Sinc
<1> QED BY <1>1, <1>2, <1>3

\* A list answers with every row, between its two marks.
LEMMA ListaEmpieza ==
  ASSUME NEW R, IsFiniteSet(R), R \subseteq Lineas, NEW s,
         s = <<Linea("LIST_START")>> \o SetToSeq(R) \o <<Linea("LIST_END")>>
  PROVE  Empieza(s, "lista", R) /\ Acaba(s, "lista") /\ Recorre(s, R)
<1>1. /\ s \in Seq(Lineas) /\ Len(s) >= 2
      /\ s[1] = Linea("LIST_START") /\ s[Len(s)] = Linea("LIST_END")
      /\ \A i \in 2 .. Len(s) - 1 : s[i] \in R
      /\ Recorre(s, R)
  <2>1. s \in Seq(Lineas) /\ Len(s) >= 2
    BY ListaForma
  <2>2. s[1] = Linea("LIST_START") /\ s[Len(s)] = Linea("LIST_END")
    BY ListaForma
  <2>3. \A i \in 2 .. Len(s) - 1 : s[i] \in R
    BY ListaForma
  <2>4. Recorre(s, R)
    BY ListaForma
  <2> QED BY <2>1, <2>2, <2>3, <2>4
<1>2. Linea("LIST_START").tipo = "LIST_START" /\ Linea("LIST_END").tipo = "LIST_END"
  BY LineasTipo
<1>3. ASSUME NEW i \in 1 .. Len(s), i # 1
      PROVE  s[i] \in R \/ (s[i].tipo = "LIST_END" /\ i = Len(s))
  <2>1. i \in 2 .. Len(s) - 1 \/ i = Len(s)
    BY <1>1, <1>3
  <2> QED BY <1>1, <1>2, <2>1
<1>4. s[1].tipo = "LIST_START" /\ s[Len(s)].tipo = "LIST_END" /\ s # <<>>
  BY <1>1, <1>2
<1> QED BY <1>1, <1>3, <1>4 DEF Empieza, Acaba

LEMMA ListaSinc ==
  ASSUME Base, Base', Sinc, NEW c \in Listados, Atiende(c), UNCHANGED tablas,
         NEW T, IsFiniteSet(T), T \subseteq Lineas, enlace => T = Filas,
         NEW R \in Leidas(T), Lista(SetToSeq(R))
  PROVE  Sinc'
<1>0. IsFiniteSet(R) /\ R \subseteq Lineas /\ (R = {} \/ R = T)
  BY FS_EmptySet DEF Leidas
<1>1. salida' = <<Linea("LIST_START")>> \o SetToSeq(R) \o <<Linea("LIST_END")>> /\ hecha' = "exito"
  BY DEF Lista, Exito, Contesta
<1>2. Empieza(salida', "lista", R) /\ Acaba(salida', "lista") /\ Recorre(salida', R)
  BY <1>0, <1>1, ListaEmpieza
<1>3. pedida.cmd = c /\ UNCHANGED <<cliente, titular, pedida>> /\ (enlace => pcC = "recibe")
  BY AlAtender
<1>4. ASSUME enlace
      PROVE  Modo' = "lista" /\ Validas' = T /\ Filas' = T /\ SinMarca(T)
  <2>1. Modo' = "lista" /\ Validas' = T /\ Filas' = T
    BY <1>1, <1>3, <1>4 DEF Modo, Validas, Filas, FilasNegocio, FilasReserva, tablas, cliente
  <2> QED BY <1>4, <2>1, FilasSinMarca
<1>5. ASSUME enlace
      PROVE  Empieza(salida', "lista", T) /\ Completa(salida', {}, T)
  <2>1. CASE R = T
    BY <1>2, <2>1 DEF Recorre, Completa
  <2>2. CASE R = {}
    <3>1. \A i \in 1 .. Len(salida') : salida'[i].tipo \in {"LIST_START", "LIST_END"}
      BY <1>2, <2>2 DEF Empieza
    <3>2. \A i \in 1 .. Len(salida') : salida'[i] \notin T
      BY <1>4, <1>5, <3>1 DEF SinMarca
    <3> QED BY <1>2, <2>2, <3>2 DEF Empieza, Completa
  <2> QED BY <1>0, <2>1, <2>2
<1>6. Marcha'
  BY <1>1, <1>2, <1>4, <1>5, AtiendeMarcha
<1>7. CacheSana'
  BY AtiendeCache DEF tablas
<1>8. DelTitular'
  BY <1>3 DEF Sinc, DelTitular, tablas, cliente
<1> QED BY <1>6, <1>7, <1>8 DEF Sinc

LEMMA ListadosSinc ==
  ASSUME Base, Base', Sinc, handler_servicios_get_all \/ handler_get_reserva
  PROVE  Sinc'
<1>0. TipoTablas /\ {"GET_SERVICIOS", "GET_RESERVA"} \subseteq Listados
  BY TiposPorPartes DEF Base, Listados
<1>1. CASE Rechaza("GET_SERVICIOS") \/ Rechaza("GET_RESERVA")
  BY <1>1, RechazaSinc
<1>2. CASE /\ Atiende("GET_SERVICIOS") /\ UNCHANGED tablas
           /\ \E R \in Leidas(FilasNegocio) : Lista(SetToSeq(R))
  <2>1. Filas = FilasNegocio
    <3>1. pedida.cmd = "GET_SERVICIOS"
      BY <1>2, AlAtender
    <3> QED BY <3>1 DEF Filas
  <2>2. IsFiniteSet(FilasNegocio) /\ FilasNegocio \subseteq Lineas
    BY <1>0, FilasTipo
  <2> QED BY <1>0, <1>2, <2>1, <2>2, ListaSinc
<1>3. CASE /\ Atiende("GET_RESERVA") /\ UNCHANGED tablas
           /\ \E R \in Leidas(FilasReserva(recibida.usuario)) : Lista(SetToSeq(R))
  <2>1. enlace => Filas = FilasReserva(recibida.usuario)
    <3>1. pedida.cmd = "GET_RESERVA" /\ (enlace => recibida = pedida)
      BY <1>3, AlAtender
    <3> QED BY <3>1 DEF Filas
  <2>2. IsFiniteSet(FilasReserva(recibida.usuario)) /\ FilasReserva(recibida.usuario) \subseteq Lineas
    BY <1>0, FilasTipo
  <2> QED BY <1>0, <1>3, <2>1, <2>2, ListaSinc
<1> QED
  BY <1>1, <1>2, <1>3
  DEF handler_servicios_get_all, handler_get_reserva, FilasNegocio, FilasReserva

\* A change that succeeds: what the client shows is still true, or it is waiting for the answer.
LEMMA CambioCache ==
  ASSUME Base, Sinc, NEW c, Atiende(c), c \notin Listados, hecha' = "exito",
         \/ c \in {"CANCEL_RESERVA", "UPDATE_RESERVA"}
         \/ \A i \in DOMAIN reserva : i \in DOMAIN reserva' /\ reserva'[i] = reserva[i]
  PROVE  CacheSana'
<1>1. /\ hecha = "no" /\ pedida.cmd = c /\ UNCHANGED <<cliente, red, pedida>>
      /\ conectado => Espera /\ curso = pedida
      /\ enlace => conectado
  BY AlAtender
<1>2. Espera' = Espera /\ EnPeticion' = EnPeticion
  BY <1>1 DEF Espera, EnPeticion, cliente
<1>3. ~(enlace /\ curso.cmd = "GET_SERVICIOS")
  BY <1>1 DEF Listados
<1>4. CASE c \in {"CANCEL_RESERVA", "UPDATE_RESERVA"}
  BY <1>1, <1>2, <1>3, <1>4 DEF Sinc, CacheSana, cliente, red
<1>5. CASE \A i \in DOMAIN reserva : i \in DOMAIN reserva' /\ reserva'[i] = reserva[i]
  <2>1. Vigente => Vigente'
    BY <1>1, <1>5 DEF Vigente, cliente
  <2> QED BY <1>1, <1>2, <1>3, <2>1 DEF Sinc, CacheSana, cliente, red
<1> QED BY <1>4, <1>5

LEMMA CambiosSinc ==
  ASSUME Base, Base', Sinc, handler_create_reserva \/ handler_cancel_reserva \/ handler_update_reserva
  PROVE  Sinc'
<1>0. TipoTablas /\ TipoServidor
  BY TiposPorPartes DEF Base
<1> {"CREATE_RESERVA", "CANCEL_RESERVA", "UPDATE_RESERVA"} \cap Listados = {}
  BY DEF Listados
<1>1. ASSUME NEW c \in {"CREATE_RESERVA", "CANCEL_RESERVA", "UPDATE_RESERVA"}, Atiende(c),
             NEW m \in Lineas, Exito(<<m>>), UNCHANGED usuario,
             m.tipo = (IF c = "CANCEL_RESERVA" THEN "OK_TEXTO" ELSE "OK"),
             \/ c \in {"CANCEL_RESERVA", "UPDATE_RESERVA"}
             \/ \A i \in DOMAIN reserva : i \in DOMAIN reserva' /\ reserva'[i] = reserva[i]
      PROVE  Sinc'
  <2>1. Contesta("exito", <<m>>) /\ hecha' = "exito" /\ c \notin Listados
    BY <1>1 DEF Exito, Contesta
  <2>2. pedida.cmd = c /\ UNCHANGED <<cliente, titular, pedida>>
    BY <1>1, AlAtender
  <2>3. m \in Unicas'
    BY <1>1, <2>1, <2>2 DEF Unicas
  <2>4. Marcha'
    BY <1>1, <2>1, <2>3, UnaMarcha
  <2>5. CacheSana'
    BY <1>1, <2>1, CambioCache
  <2>6. DelTitular'
    BY <1>1, <2>2 DEF Sinc, DelTitular, cliente
  <2> QED BY <2>4, <2>5, <2>6 DEF Sinc
<1>2. CASE handler_create_reserva
  <2>1. CASE Rechaza("CREATE_RESERVA")
    BY <2>1, RechazaSinc
  <2>2. CASE ~Rechaza("CREATE_RESERVA")
    <3>1. /\ Atiende("CREATE_RESERVA") /\ seqReserva' = seqReserva + 1
          /\ reserva' = [i \in DOMAIN reserva \cup {seqReserva'} |->
                           IF i = seqReserva'
                             THEN [usuario |-> recibida.usuario, servicio |-> recibida.servicio]
                             ELSE reserva[i]]
          /\ Exito(<<Ok(seqReserva')>>) /\ UNCHANGED usuario
      BY <1>2, <2>2 DEF handler_create_reserva
    <3>2. seqReserva' \in Nat /\ seqReserva' \notin DOMAIN reserva
      BY <1>0, <3>1, Parametros DEF TipoTablas
    <3>3. Ok(seqReserva') \in Lineas /\ Ok(seqReserva').tipo = "OK"
      BY <3>2, LineasTipo
    <3>4. \A i \in DOMAIN reserva : i \in DOMAIN reserva' /\ reserva'[i] = reserva[i]
      BY <3>1, <3>2
    <3> QED BY <1>1, <3>1, <3>3, <3>4
  <2> QED BY <2>1, <2>2
<1>3. CASE handler_cancel_reserva
  <2>1. CASE Rechaza("CANCEL_RESERVA")
    BY <2>1, RechazaSinc
  <2>2. CASE ~Rechaza("CANCEL_RESERVA")
    <3>1. Atiende("CANCEL_RESERVA") /\ Exito(<<Linea("OK_TEXTO")>>) /\ UNCHANGED usuario
      BY <1>3, <2>2 DEF handler_cancel_reserva
    <3>2. Linea("OK_TEXTO") \in Lineas /\ Linea("OK_TEXTO").tipo = "OK_TEXTO"
      BY LineasTipo
    <3> QED BY <1>1, <3>1, <3>2
  <2> QED BY <2>1, <2>2
<1>4. CASE handler_update_reserva
  <2>1. CASE Rechaza("UPDATE_RESERVA")
    BY <2>1, RechazaSinc
  <2>2. CASE ~Rechaza("UPDATE_RESERVA")
    <3>1. Atiende("UPDATE_RESERVA") /\ Exito(<<Ok(recibida.reserva)>>) /\ UNCHANGED usuario
      BY <1>4, <2>2 DEF handler_update_reserva
    <3>2. Ok(recibida.reserva) \in Lineas /\ Ok(recibida.reserva).tipo = "OK"
      BY <1>0, CamposCurso, LineasTipo DEF TipoServidor
    <3> QED BY <1>1, <3>1, <3>2
  <2> QED BY <2>1, <2>2
<1> QED BY <1>2, <1>3, <1>4

-----------------------------------------------------------------------------
(* Faults and endings keep in step                                          *)

LEMMA PrefijosCortos ==
  ASSUME NEW a, NEW b, NEW p
  PROVE  /\ p \in Prefijos(<<>>) => p = <<>>
         /\ p \in Prefijos(<<a>>) => p \in {<<>>, <<a>>}
         /\ p \in Prefijos(<<a, b>>) => p \in {<<>>, <<a>>, <<a, b>>}
<1> DEFINE S == {a, b}
<1>1. /\ <<>> \in Seq(S) /\ Len(<<>>) = 0
      /\ <<a>> \in Seq(S) /\ Len(<<a>>) = 1 /\ <<a>>[1] = a
      /\ <<a, b>> \in Seq(S) /\ Len(<<a, b>>) = 2 /\ <<a, b>>[1] = a /\ <<a, b>>[2] = b
  OBVIOUS
<1> HIDE DEF S
<1>2. ASSUME NEW q \in Seq(S), p \in Prefijos(q)
      PROVE  p \in Seq(S) /\ Len(p) \in 0 .. Len(q) /\ \A i \in 1 .. Len(p) : p[i] = q[i]
  BY <1>2, PrefijosTipo
<1>3. ASSUME NEW q \in Seq(S), NEW r \in Seq(S), p \in Seq(S), Len(p) = Len(r),
             \A i \in 1 .. Len(p) : p[i] = q[i], \A i \in 1 .. Len(r) : r[i] = q[i]
      PROVE  p = r
  BY <1>3, SeqEqual
<1>4. p \in Prefijos(<<>>) => p = <<>>
  <2>1. SUFFICES ASSUME p \in Prefijos(<<>>)
                 PROVE  p = <<>>
    OBVIOUS
  <2>2. p \in Seq(S) /\ Len(p) \in 0 .. Len(<<>>)
    BY <1>1, <1>2, <2>1, Zenon
  <2>3. Len(p) = 0
    BY <1>1, <2>2
  <2> QED BY <2>2, <2>3, EmptySeq
<1>5. p \in Prefijos(<<a>>) => p \in {<<>>, <<a>>}
  <2>1. SUFFICES ASSUME p \in Prefijos(<<a>>)
                 PROVE  p \in {<<>>, <<a>>}
    OBVIOUS
  <2>2. p \in Seq(S) /\ Len(p) \in 0 .. 1 /\ \A i \in 1 .. Len(p) : p[i] = <<a>>[i]
    BY <1>1, <1>2, <2>1
  <2>3. CASE Len(p) = 0
    BY <2>2, <2>3, EmptySeq
  <2>4. CASE Len(p) = 1
    BY <1>1, <1>3, <2>2, <2>4
  <2> QED BY <2>2, <2>3, <2>4
<1>6. p \in Prefijos(<<a, b>>) => p \in {<<>>, <<a>>, <<a, b>>}
  <2>1. SUFFICES ASSUME p \in Prefijos(<<a, b>>)
                 PROVE  p \in {<<>>, <<a>>, <<a, b>>}
    OBVIOUS
  <2>2. p \in Seq(S) /\ Len(p) \in 0 .. 2 /\ \A i \in 1 .. Len(p) : p[i] = <<a, b>>[i]
    BY <1>1, <1>2, <2>1
  <2>3. CASE Len(p) = 0
    BY <2>2, <2>3, EmptySeq
  <2>4. CASE Len(p) = 1
    <3>1. \A i \in 1 .. 1 : <<a>>[i] = <<a, b>>[i]
      BY <1>1
    <3> QED BY <1>1, <1>3, <2>2, <2>4, <3>1
  <2>5. CASE Len(p) = 2
    BY <1>1, <1>3, <2>2, <2>5
  <2> QED BY <2>2, <2>3, <2>4, <2>5
<1> QED BY <1>4, <1>5, <1>6

\* A cut loses the end of what was on the way to the server.
LEMMA AtendidaPrefijo ==
  ASSUME Atendida, aServidor' \in Prefijos(aServidor), ~enlace',
         UNCHANGED <<pcS, recibida, pedida, hecha>>
  PROVE  Atendida'
<1> DEFINE C == Comando(pedida)
           V == Valores(pedida)
<1>0. C' = C /\ V' = V /\ Orden(pedida)' = Orden(pedida)
  BY DEF Comando, Valores, Orden
<1>1. /\ aServidor = <<>> => aServidor' = <<>>
      /\ aServidor = <<C>> => aServidor' \in {<<>>, <<C>>}
      /\ aServidor = <<V>> => aServidor' \in {<<>>, <<V>>}
      /\ aServidor = <<C, V>> => aServidor' \in {<<>>, <<C>>, <<C, V>>}
  <2> HIDE DEF C, V
  <2> QED BY PrefijosCortos
<1>2. CASE aServidor = <<>> /\ pcS \in {"comando", "caido"}
  BY <1>1, <1>2 DEF Atendida
<1>3. CASE /\ hecha = "no" /\ pcS = "comando"
           /\ aServidor = <<C>> \/ aServidor = <<C, V>>
  <2>1. aServidor' \in {<<>>, <<C>>, <<C, V>>}
    BY <1>1, <1>3
  <2> QED BY <1>0, <1>3, <2>1 DEF Atendida
<1>4. CASE /\ hecha = "no" /\ pcS = "parametros" /\ recibida = Orden(pedida)
           /\ aServidor = <<>> \/ aServidor = <<V>>
  <2>1. aServidor' \in {<<>>, <<V>>}
    BY <1>1, <1>4
  <2> QED BY <1>0, <1>4, <2>1 DEF Atendida
<1>5. CASE /\ hecha = "no" /\ pcS = "atiende" /\ aServidor = <<>>
           /\ recibida = pedida \/ (~enlace /\ recibida = Orden(pedida))
  BY <1>0, <1>1, <1>5 DEF Atendida
<1>6. CASE hecha # "no" /\ pcS = "contesta" /\ aServidor = <<>>
  BY <1>1, <1>6 DEF Atendida
<1> QED BY <1>2, <1>3, <1>4, <1>5, <1>6 DEF Atendida

\* What is left of an answer after a cut is not taken for a whole one.
LEMMA RespondidaPrefijo ==
  ASSUME Base, Marcha, aCliente' \in Prefijos(aCliente), ~enlace',
         UNCHANGED <<cliente, tablas, pedida, hecha>>, pcS' = pcS \/ pcS' # "contesta"
  PROVE  Respondida'
<1>0. aCliente \in Seq(Lineas)
  BY TiposPorPartes DEF Base, TipoRed
<1>1. /\ aCliente' \in Seq(Lineas) /\ Len(aCliente') <= Len(aCliente)
      /\ \A i \in 1 .. Len(aCliente') : aCliente'[i] = aCliente[i]
  BY <1>0, PrefijosTipo
<1>2. Modo' = Modo /\ Validas' = Validas /\ Filas' = Filas /\ Espera' = Espera
  BY RespuestaQuieta DEF tablas
<1>3. hecha = "no" => aCliente' = <<>>
  BY PrefijosCortos DEF Marcha, Respondida
<1>4. ASSUME Espera, hecha # "no"
      PROVE  Empieza(aCliente', Modo, Validas) /\ (Acaba(aCliente', Modo) => pcS' # "contesta")
  <2>1. Empieza(aCliente, Modo, Validas) /\ (Acaba(aCliente, Modo) => pcS # "contesta")
    BY <1>4 DEF Marcha, Respondida
  <2>2. Modo \in {"una", "lista", "abierta"} /\ (Modo # "una" => SinMarca(Validas))
    BY ModoValor, FilasSinMarca
  <2>3. /\ Empieza(aCliente', Modo, Validas)
        /\ Acaba(aCliente', Modo) => Len(aCliente') = Len(aCliente)
    BY <1>0, <1>1, <2>1, <2>2, EmpiezaPrefijo
  <2>4. Len(aCliente') = Len(aCliente) => aCliente' = aCliente
    BY <1>0, <1>1, SeqEqual
  <2> QED BY <2>1, <2>3, <2>4
<1>5. /\ Espera /\ pedida.cmd \in Listados => leidas \subseteq Filas
      /\ leidas' = leidas
  BY DEF Marcha, Respondida, cliente
<1> QED BY <1>2, <1>3, <1>4, <1>5 DEF Respondida

LEMMA FallosSinc ==
  ASSUME Base, Sinc, SeCorta \/ Cae \/ Termina
  PROVE  Sinc'
<1>1. CASE SeCorta
  <2>1. /\ ~enlace' /\ aServidor' \in Prefijos(aServidor) /\ aCliente' \in Prefijos(aCliente)
        /\ UNCHANGED <<cliente, servidor, tablas, historia>>
    BY <1>1 DEF SeCorta
  <2>2. (aServidor = <<>> => aServidor' = <<>>) /\ (aCliente = <<>> => aCliente' = <<>>)
    BY <2>1, PrefijosCortos
  <2>3. EnPaso'
    BY <2>1, <2>2 DEF Sinc, Marcha, EnPaso, Espera, EnPeticion, Menus, cliente, servidor, historia
  <2>4. Atendida'
    BY <2>1, AtendidaPrefijo DEF Sinc, Marcha, servidor, historia
  <2>5. Respondida'
    BY <2>1, RespondidaPrefijo DEF Sinc, servidor, historia
  <2>6. CacheSana'
    BY <2>1 DEF Sinc, CacheSana, Vigente, Espera, cliente, tablas, historia
  <2>7. DelTitular'
    BY <2>1 DEF Sinc, DelTitular, cliente, tablas, historia
  <2> QED BY <2>1, <2>3, <2>4, <2>5, <2>6, <2>7 DEF Sinc, Marcha
<1>2. CASE Cae
  <2>1. /\ ~enlace' /\ aServidor' = <<>> /\ aCliente' \in Prefijos(aCliente) /\ pcS' = "caido"
        /\ UNCHANGED <<cliente, tablas, historia>>
    BY <1>2 DEF Cae
  <2>2. aCliente = <<>> => aCliente' = <<>>
    BY <2>1, PrefijosCortos
  <2>3. EnPaso'
    BY <2>1, <2>2 DEF Sinc, Marcha, EnPaso, Espera, EnPeticion, Menus, cliente, historia
  <2>4. Atendida'
    BY <2>1 DEF Atendida
  <2>5. Respondida'
    BY <2>1, RespondidaPrefijo DEF Sinc, historia
  <2>6. CacheSana'
    BY <2>1 DEF Sinc, CacheSana, Vigente, Espera, cliente, tablas, historia
  <2>7. DelTitular'
    BY <2>1 DEF Sinc, DelTitular, cliente, tablas, historia
  <2> QED BY <2>1, <2>3, <2>4, <2>5, <2>6, <2>7 DEF Sinc, Marcha
<1>3. CASE Termina
  <2>1. /\ pcC' = "fin" /\ ~conectado' /\ sesion' = Cerrada /\ ~enlace' /\ aCliente' = <<>>
        /\ aServidor' \in Prefijos(aServidor) /\ UNCHANGED <<servidor, pedida, hecha>>
    BY <1>3 DEF Termina
  <2>2. EnPaso'
    BY <2>1 DEF EnPaso, Espera, EnPeticion, Menus
  <2>3. Atendida'
    BY <2>1, AtendidaPrefijo DEF Sinc, Marcha, servidor
  <2>4. Respondida'
    BY <2>1 DEF Respondida, Espera
  <2>5. CacheSana' /\ DelTitular'
    BY <2>1 DEF CacheSana, DelTitular, Espera
  <2> QED BY <2>1, <2>2, <2>3, <2>4, <2>5 DEF Sinc, Marcha
<1> QED BY <1>1, <1>2, <1>3

\* Two programs that have just been started are in step.
LEMMA ArranqueSinc ==
  ASSUME pcC = "bienvenida", sesion = Cerrada, cache = {}, curso = Nada,
         aServidor = <<>>, aCliente = <<>>, pcS = "comando"
  PROVE  Sinc
<1>1. EnPaso /\ Atendida
  BY DEF EnPaso, Espera, EnPeticion, Menus, Atendida
<1>2. Enlazados /\ Respondida
  BY DEF Enlazados, Respondida, Espera
<1>3. CacheSana /\ DelTitular
  BY DEF CacheSana, Vigente, DelTitular, Espera, EnPeticion
<1> QED BY <1>1, <1>2, <1>3 DEF Sinc, Marcha

LEMMA ReiniciaSinc ==
  ASSUME Reinicia
  PROVE  Sinc'
<1>0. /\ pcC' = "bienvenida" /\ sesion' = Cerrada /\ cache' = {} /\ curso' = Nada
      /\ aServidor' = <<>> /\ aCliente' = <<>> /\ pcS' = "comando"
  BY DEF Reinicia
<1>1. EnPaso' /\ Atendida'
  BY <1>0 DEF EnPaso, Espera, EnPeticion, Menus, Atendida
<1>2. Enlazados' /\ Respondida'
  BY <1>0 DEF Enlazados, Respondida, Espera
<1>3. CacheSana' /\ DelTitular'
  BY <1>0 DEF CacheSana, Vigente, DelTitular, Espera, EnPeticion
<1> QED BY <1>1, <1>2, <1>3 DEF Sinc, Marcha

-----------------------------------------------------------------------------
(* The inductive invariant                                                  *)

LEMMA InitIInv == Init => IInv
<1> SUFFICES ASSUME Init
             PROVE  IInv
  OBVIOUS
<1>1. Base
  BY InitBase
<1>2. Sinc
  BY ArranqueSinc DEF Init
<1> QED BY <1>1, <1>2 DEF IInv

\* The steps that leave no command half sent keep in step.
LEMMA SincPaso ==
  ASSUME Base, Base', Sinc, Next, ~DejaLaFecha
  PROVE  Sinc'
<1>1. CASE OpcionBienvenida \/ OpcionPrincipal \/ OpcionReserva \/ DaFecha
  BY <1>1, OpcionesSinc
<1>2. CASE EnviaComando \/ EnviaParametros
  <2>1. CASE NoSale
    BY <1>2, <2>1, NoSaleSinc DEF EnviaComando, EnviaParametros
  <2>2. CASE ~NoSale
    BY <1>2, <2>2, EnviaComandoSinc, EnviaParametrosSinc
  <2> QED BY <2>1, <2>2
<1>3. CASE Recibe
  BY <1>3, RecibeSinc
<1>4. CASE RecibeComando \/ RecibeParametros \/ Desconecta \/ EnviaLinea
  BY <1>4, RecibeComandoSinc, RecibeParametrosSinc, DesconectaSinc, EnviaLineaSinc
<1>5. CASE handler_auth_login \/ handler_auth_register \/ handler_auth_logout
  BY <1>5, AccesosSinc
<1>6. CASE handler_servicios_get_all \/ handler_get_reserva
  BY <1>6, ListadosSinc
<1>7. CASE handler_create_reserva \/ handler_cancel_reserva \/ handler_update_reserva
  BY <1>7, CambiosSinc
<1>8. CASE SeCorta \/ Cae \/ Termina
  BY <1>8, FallosSinc
<1>9. CASE Reinicia
  BY <1>9, ReiniciaSinc
<1> QED BY <1>1, <1>2, <1>3, <1>4, <1>5, <1>6, <1>7, <1>8, <1>9 DEF Next, PasoCliente, PasoServidor

LEMMA SincQuieta ==
  ASSUME Sinc, UNCHANGED vars
  PROVE  Sinc'
<1>1. UNCHANGED <<cliente, red, servidor, tablas, historia>>
  BY DEF vars
<1>2. Modo' = Modo /\ Validas' = Validas /\ Filas' = Filas /\ Espera' = Espera
  BY <1>1, RespuestaQuieta DEF tablas, historia
<1>3. Respondida'
  BY <1>1, <1>2 DEF Sinc, Marcha, Respondida, cliente, red, servidor, historia
<1>4. EnPaso'
  BY <1>1 DEF Sinc, Marcha, EnPaso, Espera, EnPeticion, cliente, red, servidor, historia
<1>5. Atendida' /\ (enlace' => Enlazados')
  BY <1>1 DEF Sinc, Marcha, Atendida, Enlazados, Orden, Comando, Valores, cliente, red, servidor, historia
<1>6. CacheSana' /\ DelTitular'
  BY <1>1, CacheQuieta DEF red, tablas, historia
<1> QED BY <1>3, <1>4, <1>5, <1>6 DEF Sinc, Marcha

\* A command left half sent stays so until the programs are started anew.
LEMMA AbandonosPaso ==
  ASSUME Base, [Next]_vars, abandonos' = 0, ~Reinicia
  PROVE  abandonos = 0 /\ ~DejaLaFecha
<1>0. abandonos \in Nat
  BY TiposPorPartes, Parametros DEF Base, TipoHistoria
<1>1. ~DejaLaFecha
  BY <1>0 DEF DejaLaFecha
<1>2. abandonos' = abandonos
  <2>1. CASE OpcionBienvenida \/ OpcionPrincipal \/ OpcionReserva \/ DaFecha
    BY <2>1 DEF OpcionBienvenida, OpcionPrincipal, OpcionReserva, DaFecha, Elige, historia
  <2>2. CASE EnviaComando \/ EnviaParametros
    BY <2>2 DEF EnviaComando, EnviaParametros, NoSale, historia
  <2>3. CASE Recibe
    BY <2>3 DEF Recibe, RecibeAcceso, RecibeLogout, RecibeCambio, RecibeLista, CargaReservas,
       CargaNegocios, Muere, historia
  <2>4. CASE RecibeComando \/ RecibeParametros \/ Desconecta \/ EnviaLinea
    BY <2>4 DEF RecibeComando, RecibeParametros, Desconecta, EnviaLinea, SinCambioCliente
  <2>5. CASE handler_auth_login \/ handler_auth_register \/ handler_auth_logout
    BY <2>5 DEF handler_auth_login, handler_auth_register, handler_auth_logout, Rechaza, Atiende,
       SinCambioCliente
  <2>6. CASE handler_servicios_get_all \/ handler_get_reserva
    BY <2>6 DEF handler_servicios_get_all, handler_get_reserva, Rechaza, Atiende, SinCambioCliente
  <2>7. CASE handler_create_reserva \/ handler_cancel_reserva \/ handler_update_reserva
    BY <2>7 DEF handler_create_reserva, handler_cancel_reserva, handler_update_reserva, Rechaza,
       Atiende, SinCambioCliente
  <2>8. CASE SeCorta \/ Cae \/ Termina
    BY <2>8 DEF SeCorta, Cae, Termina, historia
  <2>9. CASE UNCHANGED vars
    BY <2>9 DEF vars, historia
  <2> QED BY <1>1, <2>1, <2>2, <2>3, <2>4, <2>5, <2>6, <2>7, <2>8, <2>9
        DEF Next, PasoCliente, PasoServidor
<1> QED BY <1>1, <1>2

LEMMA IInvPaso == IInv /\ [Next]_vars => IInv'
<1> SUFFICES ASSUME IInv, [Next]_vars
             PROVE  IInv'
  OBVIOUS
<1>1. Base /\ Base'
  BY BasePaso DEF IInv
<1>2. ASSUME abandonos' = 0
      PROVE  Sinc'
  <2>1. CASE Reinicia
    BY <2>1, ReiniciaSinc
  <2>2. CASE ~Reinicia
    <3>1. Sinc /\ ~DejaLaFecha
      BY <1>1, <1>2, <2>2, AbandonosPaso DEF IInv
    <3> QED BY <1>1, <3>1, SincPaso, SincQuieta
  <2> QED BY <2>1, <2>2
<1> QED BY <1>1, <1>2 DEF IInv

LEMMA IInvSiempre == Spec => []IInv
BY InitIInv, IInvPaso, PTL DEF Spec

\* While no command was left half sent, a client in a menu has nothing on the way in
\* either direction and a server that waits for a command (Sincronizado).
THEOREM EnSincronia == Spec => []Sincronizado
<1>1. IInv => Sincronizado
  <2>1. SUFFICES ASSUME IInv, EnMenu, enlace, abandonos = 0
                 PROVE  Al_dia
    BY DEF Sincronizado
  <2>2. conectado /\ pcS # "caido" /\ Sinc
    BY <2>1, TiposPorPartes DEF IInv, Base, Acabado, TipoRed
  <2> QED BY <2>1, <2>2 DEF Sinc, Marcha, EnPaso, Menus, EnMenu, Al_dia
<1> QED BY <1>1, IInvSiempre, PTL

\* The open session is that of the user whose DNI was typed (SesionCorrecta).
THEOREM SesionDelTitular == Spec => []SesionCorrecta
<1>1. IInv => SesionCorrecta
  BY DEF IInv, Sinc, DelTitular, SesionCorrecta
<1> QED BY <1>1, IInvSiempre, PTL

\* What a connected client offers in its menus are reservations that exist, are its
\* user's and are where it shows them (CacheVigente).
THEOREM CacheAlDia == Spec => []CacheVigente
<1>1. IInv => CacheVigente
  BY DEF IInv, Sinc, CacheSana, Vigente, Espera, CacheVigente
<1> QED BY <1>1, IInvSiempre, PTL

\* While no command was left half sent, the answer of the first request of
\* cargarReservasYNegocios has been read whole when the second one is sent: the blank date
\* is the only way to lose step (RespuestaCompleta).
THEOREM RespuestaCompletaEnPaso == Spec => [](abandonos = 0 => RespuestaCompleta)
<1>1. Sincronizado => (abandonos = 0 => RespuestaCompleta)
  BY DEF Sincronizado, RespuestaCompleta, EnMenu
<1> QED BY <1>1, EnSincronia, PTL
=============================================================================
