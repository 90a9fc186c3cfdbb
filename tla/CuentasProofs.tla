--------------------------- MODULE CuentasProofs ---------------------------
(***************************************************************************)
(* Theorems about Cuentas, for any number of server processes, any         *)
(* accounts and any configuration.                                         *)
(***************************************************************************)
EXTENDS Cuentas, TLAPS, FiniteSetTheorems, SequenceTheorems

-----------------------------------------------------------------------------
(* The helpers from which the actions are built.                            *)

\* Va moves one process, from the point its guard names to another point.
LEMMA VaPuntos ==
  ASSUME pc \in [Procesos -> Puntos], NEW p \in Procesos, NEW d, NEW h \in Puntos,
         Va(p, d, h)
  PROVE  /\ pc' \in [Procesos -> Puntos]
         /\ pc[p] = d /\ pc'[p] = h
         /\ \A q \in Procesos : q # p => pc'[q] = pc[q]
BY DEF Va

LEMMA SinPeticionTipo == SinPeticion \in Pedidos /\ SinEscribir \in Escritos /\ SinPeticion.op = ""
<1>1. SinEscribir \in Escritos
  BY DEF SinEscribir, Escritos
<1>2. Blanco \in DniFilas /\ Blanco \in ClaveFilas
  BY DEF DniFilas, ClaveFilas
<1> QED BY <1>1, <1>2 DEF SinPeticion, Peticion, Pedidos

\* Contesta ends a request and keeps the types of what belongs to the processes.
LEMMA ContestaTipo ==
  ASSUME TipoProcesos, NEW p \in Procesos, NEW d, NEW r \in Respuestas, Contesta(p, d, r)
  PROVE  /\ TipoProcesos'
         /\ pc[p] = d /\ pc'[p] = Espera /\ resp'[p] = r
         /\ \A q \in Procesos : q # p => /\ pc'[q] = pc[q] /\ pet'[q] = pet[q]
                                         /\ rc'[q] = rc[q] /\ resp'[q] = resp[q]
<1>1. Espera \in Puntos
  BY DEF Puntos
<1>2. SinPeticion \in Pedidos /\ DeLog \in Filas /\ "OK" \in Codigos
  BY SinPeticionTipo DEF DeLog, Filas, Codigos
<1> QED BY <1>1, <1>2, VaPuntos DEF TipoProcesos, Contesta

\* Atiende stores the request it is given.
LEMMA AtiendeTipo ==
  ASSUME TipoProcesos, NEW p \in Procesos, NEW op \in {"LOGIN", "REGISTER", "ADMIN"},
         NEW d \in DniFilas, NEW c \in ClaveFilas, NEW e \in Escritos, NEW a \in Puntos,
         Atiende(p, op, d, c, e, a)
  PROVE  /\ TipoProcesos'
         /\ pc[p] = Espera /\ pc'[p] = a
         /\ pet'[p] = Peticion(op, d, c, e) /\ pet'[p].op = op
         /\ resp'[p] = Respuesta("nada")
         /\ \A q \in Procesos : q # p => /\ pc'[q] = pc[q] /\ pet'[q] = pet[q]
                                         /\ rc'[q] = rc[q] /\ resp'[q] = resp[q]
         /\ UNCHANGED <<usuario, dadas, config, rc>>
<1>1. Peticion(op, d, c, e) \in Pedidos /\ Peticion(op, d, c, e).op = op
  BY DEF Peticion, Pedidos
<1>2. Respuesta("nada") \in Respuestas
  BY DEF Respuesta, Respuestas
<1> QED BY <1>1, <1>2, VaPuntos DEF TipoProcesos, Atiende, tablas

-----------------------------------------------------------------------------
(* The fields that strtok finds in a line.                                  *)

LEMMA LaFicha ==
  ASSUME NEW l \in Seq(ClaveFilas), NEW k
  PROVE  Ficha(l, k) \in ClaveFilas
<1> DEFINE es(i) == l[i] # Blanco /\ Cardinality({j \in 1 .. i : l[j] # Blanco}) = k
<1>1. \A i \in DOMAIN l : l[i] \in ClaveFilas
  OBVIOUS
<1>2. Blanco \in ClaveFilas
  BY DEF ClaveFilas
<1>3. Ficha(l, k) = IF \E i \in DOMAIN l : es(i) THEN l[CHOOSE i \in DOMAIN l : es(i)] ELSE Blanco
  BY DEF Ficha
<1> HIDE DEF es
<1> QED BY <1>1, <1>2, <1>3

\* In a line of four fields, none of them empty, the k-th is found.
LEMMA FichaLlena ==
  ASSUME NEW a, NEW b, NEW c, NEW d, Blanco \notin {a, b, c, d}, NEW k \in 1 .. 4
  PROVE  Ficha(<<a, b, c, d>>, k) = <<a, b, c, d>>[k]
<1> DEFINE l == <<a, b, c, d>>
           es(i) == l[i] # Blanco /\ Cardinality({j \in 1 .. i : l[j] # Blanco}) = k
<1>1. DOMAIN l = 1 .. 4 /\ \A i \in 1 .. 4 : l[i] # Blanco
  OBVIOUS
<1>2. ASSUME NEW i \in 1 .. 4 PROVE es(i) <=> i = k
  <2> HIDE DEF l
  <2>1. {j \in 1 .. i : l[j] # Blanco} = 1 .. i
    BY <1>1
  <2>2. Cardinality(1 .. i) = i
    <3>1. 1 \in Int /\ i \in Int /\ 1 <= i /\ i - 1 + 1 = i
      OBVIOUS
    <3> QED BY <3>1, FS_Interval
  <2> QED BY <1>1, <2>1, <2>2
<1>3. Ficha(l, k) = IF \E i \in DOMAIN l : es(i) THEN l[CHOOSE i \in DOMAIN l : es(i)] ELSE Blanco
  BY DEF Ficha
<1> HIDE DEF es, l
<1>4. k \in DOMAIN l /\ es(k) /\ \A i \in DOMAIN l : es(i) => i = k
  BY <1>1, <1>2
<1>5. (CHOOSE i \in DOMAIN l : es(i)) = k
  BY <1>4
<1> QED BY <1>3, <1>4, <1>5 DEF l

\* The lines that clients send.
LEMMA LasLineas ==
  /\ \A t \in Entradas : buildLogin(t) \in Seq(ClaveFilas)
  /\ \A t \in Registros : buildRegister(t) \in Seq(ClaveFilas) /\ Escrito(t, ConBarra(t)) \in Escritos
<1>1. Textos \cup {Blanco} \subseteq ClaveFilas /\ Claves \subseteq ClaveFilas
  BY DEF ClaveFilas, Fichas
<1>2. ASSUME NEW x \in Seq(Textos \cup {Blanco}) PROVE x \in Seq(ClaveFilas)
  <2>1. x \in [1 .. Len(x) -> ClaveFilas] /\ Len(x) \in Nat
    BY <1>1
  <2> QED BY <2>1
<1>3. ASSUME NEW t \in Entradas PROVE buildLogin(t) \in Seq(ClaveFilas)
  <2>1. t.dni \in Seq(ClaveFilas) /\ <<t.clave>> \in Seq(ClaveFilas)
    BY <1>1, <1>2, DatosAssumption
  <2> QED BY <2>1 DEF buildLogin
<1>4. ASSUME NEW t \in Registros
      PROVE  buildRegister(t) \in Seq(ClaveFilas) /\ Escrito(t, ConBarra(t)) \in Escritos
  <2>1. /\ t.nombre \in Seq(Textos \cup {Blanco}) /\ t.apellido \in Seq(Textos \cup {Blanco})
        /\ t.dni \in Seq(Textos \cup {Blanco}) /\ t.clave \in Claves
    BY DatosAssumption
  <2>2. /\ t.nombre \in Seq(ClaveFilas) /\ t.apellido \in Seq(ClaveFilas)
        /\ t.dni \in Seq(ClaveFilas) /\ <<t.clave>> \in Seq(ClaveFilas)
    BY <1>1, <1>2, <2>1
  <2>3. ConBarra(t) \in BOOLEAN
    BY DEF ConBarra
  <2>4. Escrito(t, ConBarra(t)) \in Escritos
    BY <2>1, <2>3 DEF Escrito, Escritos
  <2> QED BY <2>2, <2>4 DEF buildRegister
<1> QED BY <1>3, <1>4

\* A sequence of one part and the ends of one that grows.
LEMMA DeUno == ASSUME NEW S, NEW x \in Seq(S), x # <<>>, ~(Len(x) > 1) PROVE Len(x) = 1
<1> DEFINE n == Len(x)
<1>1. n \in Nat \ {0} /\ ~(n > 1)
  BY EmptySeq
<1> HIDE DEF n
<1>2. n = 1
  BY <1>1
<1> QED BY <1>2 DEF n

LEMMA Detras ==
  ASSUME NEW S, NEW s \in Seq(S), NEW e \in S, NEW n \in Nat, Len(s) = n
  PROVE  /\ s \o <<e>> \in Seq(S) /\ Len(s \o <<e>>) = n + 1 /\ (s \o <<e>>)[n + 1] = e
         /\ \A k \in 1 .. n : (s \o <<e>>)[k] = s[k]
<1> DEFINE u == s \o <<e>>
<1>1. <<e>> \in Seq(S) /\ Len(<<e>>) = 1 /\ <<e>>[1] = e
  OBVIOUS
<1>2. /\ u \in Seq(S) /\ Len(u) = n + 1
      /\ \A k \in 1 .. n + 1 : u[k] = IF k <= n THEN s[k] ELSE <<e>>[k - n]
  BY <1>1, ConcatProperties
<1> HIDE DEF u
<1>3. n + 1 \in 1 .. n + 1 /\ ~(n + 1 <= n) /\ n + 1 - n = 1
  OBVIOUS
<1>4. u[n + 1] = e
  BY <1>1, <1>2, <1>3
<1>5. \A k \in 1 .. n : u[k] = s[k]
  BY <1>2
<1> QED BY <1>2, <1>4, <1>5 DEF u

LEMMA UnoYUno ==
  ASSUME NEW S, NEW a \in S, NEW b \in S
  PROVE  <<a>> \o <<b>> = <<a, b>>
<1> DEFINE n == 1  s == <<a>>  u == s \o <<b>>  v == <<a, b>>
<1>1. n \in Nat /\ s \in Seq(S) /\ Len(s) = n
  OBVIOUS
<1>2. s[1] = a
  OBVIOUS
<1>3. v \in Seq(S) /\ Len(v) = 2 /\ v[1] = a /\ v[2] = b
  OBVIOUS
<1> HIDE DEF n, s, v
<1>4. u \in Seq(S) /\ Len(u) = n + 1 /\ u[n + 1] = b /\ \A k \in 1 .. n : u[k] = s[k]
  BY <1>1, Detras
<1> HIDE DEF u
<1>5. Len(u) = 2 /\ u[1] = a /\ u[2] = b
  BY <1>2, <1>4 DEF n
<1>6. u = v
  BY <1>3, <1>4, <1>5, SeqEqual
<1> QED BY <1>6 DEF u, v, s

LEMMA DosYUno ==
  ASSUME NEW S, NEW a \in S, NEW b \in S, NEW c \in S
  PROVE  <<a, b>> \o <<c>> = <<a, b, c>>
<1> DEFINE n == 2  s == <<a, b>>  u == s \o <<c>>  v == <<a, b, c>>
<1>1. n \in Nat /\ s \in Seq(S) /\ Len(s) = n
  OBVIOUS
<1>2. s[1] = a /\ s[2] = b
  OBVIOUS
<1>3. v \in Seq(S) /\ Len(v) = 3 /\ v[1] = a /\ v[2] = b /\ v[3] = c
  OBVIOUS
<1> HIDE DEF n, s, v
<1>4. u \in Seq(S) /\ Len(u) = n + 1 /\ u[n + 1] = c /\ \A k \in 1 .. n : u[k] = s[k]
  BY <1>1, Detras
<1> HIDE DEF u
<1>5. Len(u) = 3 /\ u[1] = a /\ u[2] = b /\ u[3] = c
  BY <1>2, <1>4 DEF n
<1>6. u = v
  BY <1>3, <1>4, <1>5, SeqEqual
<1> QED BY <1>6 DEF u, v, s

LEMMA TresYUno ==
  ASSUME NEW S, NEW a \in S, NEW b \in S, NEW c \in S, NEW d \in S
  PROVE  <<a, b, c>> \o <<d>> = <<a, b, c, d>>
<1> DEFINE n == 3  s == <<a, b, c>>  u == s \o <<d>>  v == <<a, b, c, d>>
<1>1. n \in Nat /\ s \in Seq(S) /\ Len(s) = n
  OBVIOUS
<1>2. s[1] = a /\ s[2] = b /\ s[3] = c
  OBVIOUS
<1>3. v \in Seq(S) /\ Len(v) = 4 /\ v[1] = a /\ v[2] = b /\ v[3] = c /\ v[4] = d
  OBVIOUS
<1> HIDE DEF n, s, v
<1>4. u \in Seq(S) /\ Len(u) = n + 1 /\ u[n + 1] = d /\ \A k \in 1 .. n : u[k] = s[k]
  BY <1>1, Detras
<1> HIDE DEF u
<1>5. Len(u) = 4 /\ u[1] = a /\ u[2] = b /\ u[3] = c /\ u[4] = d
  BY <1>2, <1>4 DEF n
<1>6. u = v
  BY <1>3, <1>4, <1>5, SeqEqual
<1> QED BY <1>6 DEF u, v, s

\* The four fields of buildRegister.
LEMMA Cuatro ==
  ASSUME NEW a, NEW b, NEW c, NEW d
  PROVE  <<a>> \o <<b>> \o <<c>> \o <<d>> = <<a, b, c, d>>
<1> DEFINE S == {a, b, c, d}
<1>1. a \in S /\ b \in S /\ c \in S /\ d \in S
  OBVIOUS
<1> HIDE DEF S
<1>2. <<a>> \o <<b>> = <<a, b>>
  BY <1>1, UnoYUno
<1>3. <<a, b>> \o <<c>> = <<a, b, c>>
  BY <1>1, DosYUno
<1>4. <<a, b, c>> \o <<d>> = <<a, b, c, d>>
  BY <1>1, TresYUno
<1> QED BY <1>2, <1>3, <1>4

\* Without a '|' in the texts the split gives back the DNI and the password.
LEMMA SinBarraSeLee ==
  ASSUME NEW t \in Registros, ~ConBarra(t)
  PROVE  /\ <<Ficha(buildRegister(t), 3)>> = t.dni
         /\ Ficha(buildRegister(t), 4) = t.clave
<1>1. ASSUME NEW x \in {t.nombre, t.apellido, t.dni}
      PROVE  x = <<x[1]>> /\ x[1] # Blanco
  <2>1. x \in Seq(Textos \cup {Blanco}) /\ x # <<>> /\ x # <<Blanco>>
    BY DatosAssumption
  <2>2. Len(x) \in Nat /\ ~ (Len(x) > 1)
    BY <2>1 DEF ConBarra
  <2>3. Len(x) = 1
    BY <2>1, <2>2, DeUno
  <2>4. x = <<x[1]>>
    BY <2>1, <2>3
  <2> QED BY <2>1, <2>4
<1> DEFINE a == t.nombre[1]  b == t.apellido[1]  c == t.dni[1]  d == t.clave
<1>2. t.nombre = <<a>> /\ t.apellido = <<b>> /\ t.dni = <<c>>
  BY <1>1
<1>3. Blanco \notin {a, b, c, d}
  BY <1>1, DatosAssumption
<1> HIDE DEF a, b, c
<1>4. buildRegister(t) = <<a, b, c, d>>
  BY <1>2, Cuatro DEF buildRegister
<1> HIDE DEF d
<1>5. Ficha(<<a, b, c, d>>, 3) = <<a, b, c, d>>[3] /\ Ficha(<<a, b, c, d>>, 4) = <<a, b, c, d>>[4]
  BY <1>3, FichaLlena
<1> QED BY <1>2, <1>4, <1>5 DEF d

-----------------------------------------------------------------------------
(* The steps, one process at a time.                                        *)

\* The requests and the steps that only the administration program takes.
PasoPrograma == \/ gestionMenuRegistro \/ gestionMenuInicioSesion
                \/ gestionMenuModificarConfig \/ config_guardar \/ SaleAdmin \/ ArrancaAdmin

PasoDe(p) ==
  \/ p \in Servidores /\ (RecibeLogin(p) \/ RecibeRegister(p) \/ RecibeIncompleta(p) \/ Arranca(p))
  \/ p = Admin /\ PasoPrograma
  \/ PasoHandler(p) \/ Cae(p)

\* Every step is one of some process.
LEMMA PasoDeUno ==
  ASSUME Next
  PROVE  \E p \in Procesos : PasoDe(p)
<1>1. CASE \E s \in Servidores : PasoServidor(s)
  BY <1>1 DEF PasoServidor, PasoDe, Procesos
<1>2. CASE PasoAdmin
  <2>1. PasoDe(Admin)
    BY <1>2 DEF PasoAdmin, PasoDe, PasoPrograma
  <2> QED BY <2>1 DEF Procesos
<1> QED BY <1>1, <1>2 DEF Next

-----------------------------------------------------------------------------
(* Type correctness.                                                        *)

\* A new account has an id that no other has: the ids are those below their number.
IdsContados ==
  /\ IsFiniteSet(DOMAIN usuario)
  /\ \A d \in DOMAIN usuario : usuario[d].id < Cardinality(DOMAIN usuario)

TipoInv == TypeOK /\ IdsContados

\* The initial state has the types.
LEMMA TipoInit ==
  ASSUME Init
  PROVE  TipoInv
<1>1. TipoUsuario /\ IdsContados
  <2>0. Dnis \subseteq DniFilas /\ Claves \subseteq ClaveFilas
    BY DEF DniFilas, ClaveFilas, Fichas
  <2>1. Cardinality(DOMAIN Inicial) \in Nat
    BY DatosAssumption, FS_CardinalityType
  <2>2. \A d \in DOMAIN Inicial :
          Inicial[d].id \in 0 .. Cardinality(DOMAIN Inicial) - 1 /\ Inicial[d].clave \in Claves
    BY DatosAssumption
  <2>3. \A d \in DOMAIN Inicial : Inicial[d] \in [id: Nat, clave: ClaveFilas]
    <3> SUFFICES ASSUME NEW d \in DOMAIN Inicial
                 PROVE  Inicial[d] \in [id: Nat, clave: ClaveFilas]
      OBVIOUS
    <3>1. Inicial[d] \in [id: 0 .. Cardinality(DOMAIN Inicial) - 1, clave: Claves]
      BY DatosAssumption
    <3> QED BY <3>1, <2>0, <2>1
  <2> QED BY <2>0, <2>1, <2>2, <2>3, DatosAssumption DEF Init, TipoUsuario, IdsContados
<1>2. TipoProcesos
  <2>1. /\ SinPeticion \in Pedidos /\ DeLog \in Filas
        /\ Respuesta("nada") \in Respuestas /\ "OK" \in Codigos /\ "caido" \in Puntos
    BY SinPeticionTipo DEF DeLog, Filas, Respuesta, Respuestas, Codigos, Puntos
  <2> QED BY <2>1 DEF Init, TipoProcesos
<1>3. TipoConfig
  BY DatosAssumption DEF Init, TipoConfig, Campos
<1> QED BY <1>1, <1>2, <1>3 DEF TipoInv, TypeOK

\* insert_usuario adds an account with a new id, or writes over one.
LEMMA TipoInserta ==
  ASSUME TipoInv, NEW p \in Procesos, insert_usuario(p), ~Duplicado(p)
  PROVE  TipoUsuario' /\ IdsContados'
<1> DEFINE d == pet[p].dni
           n == Cardinality(DOMAIN usuario)
<1>1. d \in DniFilas /\ pet[p].clave \in ClaveFilas
  BY DEF TipoInv, TypeOK, TipoProcesos, Pedidos
<1>2. /\ DOMAIN usuario' = DOMAIN usuario \cup {d}
      /\ \A x \in DOMAIN usuario : usuario'[x] = usuario[x]
      /\ usuario'[d] = [id |-> n, clave |-> pet[p].clave]
  BY DEF insert_usuario, Duplicado
<1>3. n \in Nat
  BY FS_CardinalityType DEF TipoInv, IdsContados
<1>4. IsFiniteSet(DOMAIN usuario') /\ Cardinality(DOMAIN usuario') = n + 1
  BY <1>2, FS_AddElement DEF TipoInv, IdsContados, Duplicado
<1>5. \A x \in DOMAIN usuario : usuario[x].id \in Nat /\ usuario[x].id < n
  BY DEF TipoInv, TypeOK, TipoUsuario, IdsContados
<1>6. usuario'[d].id = n /\ usuario'[d] \in [id: Nat, clave: ClaveFilas]
  BY <1>1, <1>2, <1>3
<1> HIDE DEF n, d
<1>7. \A x \in DOMAIN usuario' : usuario'[x].id < n + 1
  BY <1>2, <1>3, <1>5, <1>6
<1>8. \A x, y \in DOMAIN usuario' : usuario'[x].id = usuario'[y].id => x = y
  BY <1>2, <1>3, <1>5, <1>6 DEF TipoInv, TypeOK, TipoUsuario
<1>9. TipoUsuario'
  BY <1>1, <1>2, <1>6, <1>8 DEF TipoInv, TypeOK, TipoUsuario
<1>10. IdsContados'
  BY <1>4, <1>7 DEF IdsContados
<1> QED BY <1>9, <1>10

\* What follows a log entry keeps the types.
LEMMA TipoTrasLog ==
  ASSUME TipoProcesos, NEW p \in Procesos, NEW d, NEW u \in Filas, TrasLog(p, d, u)
  PROVE  TipoProcesos'
<1>1. \A q \in {"error", "CREDENCIALES", "DNI_DUPLICADO", "bienvenido"} :
        Respuesta(q) \in Respuestas
  BY DEF Respuesta, Respuestas
<1>2. RespuestaRegistro(p, u) \in Respuestas
  <2>1. u.id \in Nat /\ u.tabla \in {"usuario", "log"}
    BY DEF Filas
  <2>2. ConId("registrado", u) \in Respuestas
    BY <2>1 DEF ConId, Respuestas
  <2> QED BY <1>1, <2>2 DEF RespuestaRegistro
<1>3. "id" \in Puntos /\ "principal" \in Puntos /\ SinPeticion \in Pedidos
  BY SinPeticionTipo DEF Puntos, Lecturas
<1>4. CASE Contesta(p, d, RespuestaRegistro(p, u))
  BY <1>2, <1>4, ContestaTipo
<1>5. CASE Contesta(p, d, Respuesta("CREDENCIALES"))
  BY <1>1, <1>5, ContestaTipo
<1>6. CASE Contesta(p, d, Respuesta("bienvenido"))
  BY <1>1, <1>6, ContestaTipo
<1>7. CASE Va(p, d, "id") /\ UNCHANGED <<pet, rc, ultimo, resp>>
  BY <1>3, <1>7, VaPuntos DEF TipoProcesos
<1>8. CASE Va(p, d, "principal") /\ pet' = [pet EXCEPT ![p] = SinPeticion]
             /\ UNCHANGED <<rc, ultimo, resp>>
  BY <1>3, <1>8, VaPuntos DEF TipoProcesos
<1> QED BY <1>4, <1>5, <1>6, <1>7, <1>8 DEF TrasLog

\* The steps of a handler keep the types of the processes.
LEMMA TipoHandler ==
  ASSUME TipoUsuario, IdsContados, TipoProcesos, NEW p \in Procesos, PasoHandler(p)
  PROVE  TipoProcesos'
<1> USE DEF Puntos, Lecturas, Escrituras, Exclusivas, Codigos
<1>0. DeLog \in Filas /\ ultimo[p] \in Filas
  BY DEF DeLog, Filas, TipoProcesos
<1>1. CASE login_usuario(p)
  BY <1>1, VaPuntos DEF TipoProcesos, login_usuario
<1>2. CASE auth_get_id_usuario(p)
  <2>1. PICK r \in {Respuesta("error")} \cup {ConId("entra", DeUsuario(usuario[d].id)) :
                                                 d \in DOMAIN usuario} : Contesta(p, "id", r)
    BY <1>2 DEF auth_get_id_usuario
  <2>2. \A d \in DOMAIN usuario : usuario[d].id \in Nat
    BY DEF TipoUsuario
  <2>3. \A i \in Nat : ConId("entra", DeUsuario(i)) \in Respuestas
    BY DEF ConId, DeUsuario, Respuestas
  <2>4. Respuesta("error") \in Respuestas
    BY DEF Respuesta, Respuestas
  <2> QED BY <2>1, <2>2, <2>3, <2>4, ContestaTipo
<1>3. CASE Bloquea(p)
  BY <1>3, VaPuntos DEF TipoProcesos, Bloquea, locales
<1>4. CASE InsertaFalla(p)
  BY <1>4, VaPuntos DEF TipoProcesos, InsertaFalla
<1>5. CASE insert_usuario(p)
  <2>1. Cardinality(DOMAIN usuario) \in Nat
    BY FS_CardinalityType DEF IdsContados
  <2>2. DeUsuario(Cardinality(DOMAIN usuario)) \in Filas
    BY <2>1 DEF DeUsuario, Filas
  <2>3. /\ Va(p, "confirma", "bitacora") /\ UNCHANGED <<pet, rc, resp>>
        /\ ultimo' = [ultimo EXCEPT ![p] = DeUsuario(Cardinality(DOMAIN usuario))]
    BY <1>5 DEF insert_usuario
  <2> HIDE DEF Filas
  <2> QED BY <2>2, <2>3, VaPuntos DEF TipoProcesos
<1>6. CASE BloqueaLog(p)
  BY <1>6, VaPuntos DEF TipoProcesos, BloqueaLog, locales
<1>7. CASE RegistraLog(p)
  BY <1>0, <1>7, TipoTrasLog DEF RegistraLog
<1>8. CASE PierdeLog(p)
  BY <1>0, <1>8, TipoTrasLog DEF PierdeLog
<1> QED BY <1>1, <1>2, <1>3, <1>4, <1>5, <1>6, <1>7, <1>8 DEF PasoHandler

\* An answer without a statement.
LEMMA RechazaTipo ==
  ASSUME TipoProcesos, NEW p \in Procesos, NEW q \in {"CREDENCIALES", "error"}, Rechaza(p, q)
  PROVE  /\ TipoProcesos'
         /\ pc'[p] = Espera /\ resp'[p].que = q
         /\ \A r \in Procesos : r # p => /\ pc'[r] = pc[r] /\ pet'[r] = pet[r]
                                         /\ rc'[r] = rc[r] /\ resp'[r] = resp[r]
         /\ UNCHANGED <<usuario, dadas, config>>
<1>1. Respuesta(q) \in Respuestas /\ Respuesta(q).que = q
  BY DEF Respuesta, Respuestas
<1> QED BY <1>1, ContestaTipo DEF Rechaza, tablas

\* The request of a client is the one its line gives, or is refused.
LEMMA LoginDeUno ==
  ASSUME NEW p, RecibeLogin(p)
  PROVE  \/ Rechaza(p, "CREDENCIALES")
         \/ \E d \in DniFilas, c \in ClaveFilas :
              Atiende(p, "LOGIN", d, c, SinEscribir, "consulta")
<1>1. PICK t \in Entradas :
        \/ Rechaza(p, "CREDENCIALES")
        \/ Atiende(p, "LOGIN", <<Ficha(buildLogin(t), 1)>>, Ficha(buildLogin(t), 2), SinEscribir,
                   "consulta")
  BY DEF RecibeLogin
<1>2. /\ Ficha(buildLogin(t), 1) \in ClaveFilas /\ Ficha(buildLogin(t), 2) \in ClaveFilas
  BY LasLineas, LaFicha
<1>3. <<Ficha(buildLogin(t), 1)>> \in DniFilas
  BY <1>2 DEF DniFilas
<1> QED BY <1>1, <1>2, <1>3

LEMMA RegisterDeUno ==
  ASSUME NEW p, RecibeRegister(p)
  PROVE  \/ Rechaza(p, "error")
         \/ \E d \in DniFilas, c \in ClaveFilas, e \in Escritos :
              /\ Atiende(p, "REGISTER", d, c, e, "inserta")
              /\ ~e.barra => d = e.dni /\ c = e.clave
<1>1. PICK t \in Registros :
        \/ Rechaza(p, "error")
        \/ Atiende(p, "REGISTER", <<Ficha(buildRegister(t), 3)>>, Ficha(buildRegister(t), 4),
                   Escrito(t, ConBarra(t)), "inserta")
  BY DEF RecibeRegister
<1> DEFINE x == Ficha(buildRegister(t), 3)  c == Ficha(buildRegister(t), 4)
           e == Escrito(t, ConBarra(t))
<1>2. x \in ClaveFilas /\ c \in ClaveFilas /\ e \in Escritos
  BY LasLineas, LaFicha
<1>3. <<x>> \in DniFilas
  BY <1>2 DEF DniFilas
<1>4. ~e.barra => <<x>> = e.dni /\ c = e.clave
  BY SinBarraSeLee DEF Escrito
<1> HIDE DEF x, c, e
<1> QED BY <1>1, <1>2, <1>3, <1>4 DEF x, c, e

LEMMA RecibeLoginTipo ==
  ASSUME TipoProcesos, NEW p \in Procesos, RecibeLogin(p)
  PROVE  TipoProcesos'
<1>1. "consulta" \in Puntos
  BY DEF Puntos, Lecturas
<1> QED BY <1>1, LoginDeUno, RechazaTipo, AtiendeTipo, SinPeticionTipo

LEMMA RecibeRegisterTipo ==
  ASSUME TipoProcesos, NEW p \in Procesos, RecibeRegister(p)
  PROVE  TipoProcesos'
<1>1. "inserta" \in Puntos
  BY DEF Puntos, Escrituras
<1> QED BY <1>1, RegisterDeUno, RechazaTipo, AtiendeTipo

LEMMA LoTecleado ==
  ASSUME NEW t \in Tecleadas
  PROVE  t.dni \in DniFilas /\ t.clave \in ClaveFilas /\ Escrito(t, FALSE) \in Escritos
<1>1. t.dni \in Dnis \cup {Blanco} /\ t.clave \in Claves \cup {Blanco}
  BY DatosAssumption
<1> QED BY <1>1 DEF DniFilas, ClaveFilas, Fichas, Escrito, Escritos

\* Every step of a process keeps the types of all of them.
LEMMA TipoPaso ==
  ASSUME TipoUsuario, IdsContados, TipoProcesos, NEW p \in Procesos, PasoDe(p)
  PROVE  TipoProcesos'
<1> USE DEF Puntos, Lecturas, Escrituras
<1>0. Admin \in Procesos /\ SinPeticion \in Pedidos /\ DeLog \in Filas /\ "OK" \in Codigos
      /\ Respuesta("error") \in Respuestas /\ Respuesta("nada") \in Respuestas
  BY SinPeticionTipo DEF Procesos, DeLog, Filas, Codigos, Respuesta, Respuestas
<1>1. CASE RecibeLogin(p)
  BY <1>1, RecibeLoginTipo
<1>2. CASE RecibeRegister(p)
  BY <1>2, RecibeRegisterTipo
<1>3. CASE RecibeIncompleta(p)
  BY <1>0, <1>3, RechazaTipo DEF RecibeIncompleta
<1>4. CASE Arranca(p)
  BY <1>4, VaPuntos DEF TipoProcesos, Arranca, locales
<1>5. \A t \in Tecleadas :
        t.dni \in DniFilas /\ t.clave \in ClaveFilas /\ Escrito(t, FALSE) \in Escritos
  BY LoTecleado
<1>6. CASE gestionMenuRegistro
  BY <1>0, <1>5, <1>6, AtiendeTipo DEF gestionMenuRegistro
<1>7. CASE gestionMenuInicioSesion
  <2>1. PICK t \in Tecleadas :
          \/ Atiende(Admin, "ADMIN", t.dni, t.clave, SinEscribir, "bitacora")
          \/ Atiende(Admin, "LOGIN", t.dni, t.clave, SinEscribir, "consulta")
    BY <1>7 DEF gestionMenuInicioSesion
  <2> QED BY <1>0, <1>5, <2>1, AtiendeTipo, SinPeticionTipo
<1>8. CASE gestionMenuModificarConfig
  BY <1>0, <1>8, VaPuntos DEF TipoProcesos, gestionMenuModificarConfig, locales
<1>9. CASE config_guardar
  BY <1>0, <1>9, VaPuntos DEF TipoProcesos, config_guardar, locales
<1>10. CASE SaleAdmin
  BY <1>0, <1>10, VaPuntos DEF TipoProcesos, SaleAdmin, locales
<1>11. CASE ArrancaAdmin
  BY <1>0, <1>11, VaPuntos DEF TipoProcesos, ArrancaAdmin, locales
<1>12. CASE Cae(p)
  BY <1>0, <1>12 DEF TipoProcesos, Cae
<1> QED BY <1>1, <1>2, <1>3, <1>4, <1>6, <1>7, <1>8, <1>9, <1>10, <1>11, <1>12, TipoHandler
        DEF PasoDe, PasoPrograma

\* config_cargar gives the defaults for an empty file and what is in the file otherwise.
LEMMA CargaEntera ==
  /\ archivo = Vacio => config_cargar = Defecto
  /\ archivo \in Campos => config_cargar = archivo
<1>1. DOMAIN Defecto = {"dni", "clave", "max"} /\ Defecto \in Campos
  BY DatosAssumption DEF Campos
<1>2. ASSUME archivo = Vacio PROVE config_cargar = Defecto
  <2>1. DOMAIN archivo = {}
    BY <1>2 DEF Vacio
  <2>2. config_cargar = [k \in DOMAIN Defecto |-> Defecto[k]]
    BY <2>1 DEF config_cargar
  <2>3. Defecto = [k \in DOMAIN Defecto |-> Defecto[k]]
    BY <1>1 DEF Campos
  <2> QED BY <2>2, <2>3
<1>3. ASSUME archivo \in Campos PROVE config_cargar = archivo
  BY <1>1, <1>3 DEF config_cargar, Campos
<1> QED BY <1>2, <1>3

\* Only four operations touch the configuration, and only one goes to save it.
LEMMA ConfigIntacta ==
  ASSUME TipoProcesos, NEW p \in Procesos, PasoDe(p)
  PROVE  /\ \/ UNCHANGED config
            \/ gestionMenuModificarConfig \/ config_guardar \/ ArrancaAdmin \/ Cae(p)
         /\ pc'[Admin] = "guarda" => pc[Admin] = "guarda" \/ gestionMenuModificarConfig
<1> USE DEF Va, Espera
<1>0. pc \in [Procesos -> Puntos] /\ Admin \in Procesos
  BY DEF TipoProcesos, Procesos
<1>1. ASSUME PasoHandler(p)
      PROVE  UNCHANGED config /\ (pc'[Admin] = "guarda" => pc[Admin] = "guarda")
  <2>1. UNCHANGED config
    BY <1>1 DEF PasoHandler, login_usuario, auth_get_id_usuario, Bloquea, InsertaFalla,
      insert_usuario, BloqueaLog, RegistraLog, PierdeLog
  <2>2. \E a \in Puntos \ {"guarda"} : pc' = [pc EXCEPT ![p] = a]
    BY <1>1 DEF PasoHandler, login_usuario, auth_get_id_usuario, Bloquea, InsertaFalla,
      insert_usuario, BloqueaLog, RegistraLog, PierdeLog, TrasLog, Contesta,
      Puntos, Lecturas, Escrituras, Exclusivas
  <2> QED BY <1>0, <2>1, <2>2
<1>2. ASSUME RecibeLogin(p) \/ RecibeRegister(p) \/ RecibeIncompleta(p) \/ Arranca(p)
             \/ gestionMenuRegistro \/ gestionMenuInicioSesion \/ SaleAdmin
      PROVE  UNCHANGED config /\ (pc'[Admin] = "guarda" => pc[Admin] = "guarda")
  <2>1. UNCHANGED config
    BY <1>2 DEF RecibeLogin, RecibeRegister, RecibeIncompleta, Arranca, gestionMenuRegistro,
      gestionMenuInicioSesion, SaleAdmin, Atiende, Rechaza
  <2>2. \E q \in Procesos, a \in Puntos \ {"guarda"} : pc' = [pc EXCEPT ![q] = a]
    BY <1>0, <1>2 DEF RecibeLogin, RecibeRegister, RecibeIncompleta, Arranca,
      gestionMenuRegistro, gestionMenuInicioSesion, SaleAdmin, Atiende, Rechaza, Contesta,
      Puntos, Lecturas, Escrituras, Exclusivas
  <2> QED BY <1>0, <2>1, <2>2
<1>3. ASSUME config_guardar \/ ArrancaAdmin \/ Cae(p)
      PROVE  pc'[Admin] = "guarda" => pc[Admin] = "guarda"
  BY <1>0, <1>3 DEF config_guardar, ArrancaAdmin, Cae
<1> QED BY <1>1, <1>2, <1>3 DEF PasoDe, PasoPrograma

\* What is saved is what was typed, or what stands for it.
LEMMA EdicionTipo ==
  ASSUME TipoConfig, gestionMenuModificarConfig
  PROVE  /\ tecleada' \in Ediciones /\ tecleada' \in Campos /\ nueva' \in Campos
         /\ \A k \in DOMAIN Defecto : tecleada'[k] # Blanco => nueva'[k] = tecleada'[k]
         /\ tecleada'.max = Blanco => nueva'.max = cfg.max
<1>1. tecleada' \in Ediciones
  BY DEF gestionMenuModificarConfig
<1>2. /\ tecleada'.dni \in Dnis \cup {Blanco} /\ tecleada'.clave \in Claves \cup {Blanco}
      /\ tecleada'.max \in Maximos \cup {Blanco} /\ tecleada' \in Campos
      /\ DOMAIN Defecto = {"dni", "clave", "max"}
  BY <1>1, DatosAssumption DEF Campos
<1>3. cfg.max \in Maximos \cup {Blanco}
  BY DEF TipoConfig, Campos
<1>4. /\ Hash(tecleada'.dni, Dnis) \subseteq Dnis \cup {Blanco, Basura}
      /\ Hash(tecleada'.clave, Claves) \subseteq Claves \cup {Blanco, Basura}
  BY <1>2 DEF Hash
<1>5. nueva' \in Campos
  BY <1>2, <1>3, <1>4 DEF gestionMenuModificarConfig, Campos
<1>6. /\ nueva'.dni \in Hash(tecleada'.dni, Dnis) /\ nueva'.clave \in Hash(tecleada'.clave, Claves)
      /\ nueva'.max = IF tecleada'.max = Blanco THEN cfg.max ELSE tecleada'.max
  BY DEF gestionMenuModificarConfig
<1> QED BY <1>1, <1>2, <1>5, <1>6 DEF Hash

\* The configuration in the file and in memory is whole, or there is none.
LEMMA TipoConfigPaso ==
  ASSUME TipoConfig, TipoProcesos, NEW p \in Procesos, PasoDe(p)
  PROVE  TipoConfig'
<1>1. CASE gestionMenuModificarConfig
  BY <1>1, EdicionTipo DEF TipoConfig, gestionMenuModificarConfig
<1>2. CASE config_guardar
  BY <1>2 DEF TipoConfig, config_guardar
<1>3. CASE ArrancaAdmin
  <2>1. config_cargar \in Campos
    BY CargaEntera, DatosAssumption DEF TipoConfig, Campos
  <2> QED BY <1>3, <2>1 DEF TipoConfig, ArrancaAdmin
<1>4. CASE Cae(p)
  BY <1>4 DEF TipoConfig, Cae
<1>5. CASE UNCHANGED config
  BY <1>5 DEF TipoConfig, config
<1> QED BY <1>1, <1>2, <1>3, <1>4, <1>5, ConfigIntacta

-----------------------------------------------------------------------------
(* What a program knows of the table while it serves a request.             *)

\* A program at its commit has found no account with the DNI; after its statement a
\* request that succeeded, or one refused as a duplicate, is what its code says.
Sabe(p) ==
  /\ pc[p] = "confirma" => ~Duplicado(p)
  /\ pc[p] \in {"bitacora", "anota"} /\ pet[p].op # "ADMIN" =>
       /\ rc[p] = "OK" => Coincide(pet[p].dni, pet[p].clave)
       /\ rc[p] = "CONSTRAINT" => Duplicado(p)
  /\ pc[p] = "id" => Coincide(pet[p].dni, pet[p].clave)

Exclusivo == \A p, q \in Procesos : pc[p] \in Exclusivas /\ pc[q] \in Exclusivas => p = q

\* A registration without a '|' is of the DNI and the password that were typed.
Sana(r) ==
  r.op = "REGISTER" /\ ~r.escrito.barra => r.dni = r.escrito.dni /\ r.clave = r.escrito.clave

CuentasInv ==
  /\ TypeOK /\ IdsContados
  /\ Exclusivo
  /\ \A p \in Procesos : Sabe(p) /\ Sana(pet[p])
  /\ CuentaSegura

\* The processes that do not take the step stay where they are.
Quietos(p) == \A q \in Procesos : q # p => /\ pc'[q] = pc[q] /\ pet'[q] = pet[q]
                                           /\ rc'[q] = rc[q] /\ resp'[q] = resp[q]

\* What a log entry is followed by: the end of the request, or the second query of LOGIN.
LEMMA TrasLogPaso ==
  ASSUME TipoProcesos, NEW p \in Procesos, NEW d \in {"bitacora", "anota"}, NEW u \in Filas,
         TrasLog(p, d, u)
  PROVE  /\ Quietos(p) /\ pc[p] = d
         /\ pc'[p] \in {Espera, "principal", "id"}
         /\ pc'[p] = "id" => /\ pet[p].op = "LOGIN" /\ rc[p] = "OK"
                             /\ pet'[p] = pet[p] /\ resp'[p] = resp[p]
         /\ dadas' \subseteq dadas \cup {pet[p].escrito}
         /\ dadas' # dadas => pet[p].op = "REGISTER" /\ rc[p] = "OK"
         /\ resp'[p] # resp[p] =>
              /\ resp'[p].que # "entra"
              /\ resp'[p].que = "DNI_DUPLICADO" =>
                   pet[p].op = "REGISTER" /\ rc[p] = "CONSTRAINT"
<1>0. /\ "id" \in Puntos /\ "principal" \in Puntos /\ Espera \notin {"id", "principal"}
  BY DEF Puntos, Lecturas, Espera
<1>1. \A q \in {"error", "CREDENCIALES", "DNI_DUPLICADO", "bienvenido"} :
        Respuesta(q) \in Respuestas /\ Respuesta(q).que = q
  BY DEF Respuesta, Respuestas
<1>2. CASE pet[p].op = "REGISTER" /\ Contesta(p, d, RespuestaRegistro(p, u))
             /\ dadas' = dadas \cup Registrada(p)
  <2>1. ConId("registrado", u) \in Respuestas /\ ConId("registrado", u).que = "registrado"
    BY DEF ConId, Respuestas, Filas
  <2>2. /\ RespuestaRegistro(p, u) \in Respuestas
        /\ RespuestaRegistro(p, u).que # "entra"
        /\ RespuestaRegistro(p, u).que = "DNI_DUPLICADO" => rc[p] = "CONSTRAINT"
    BY <1>1, <2>1 DEF RespuestaRegistro
  <2>3. /\ dadas' \subseteq dadas \cup {pet[p].escrito}
        /\ dadas' # dadas => rc[p] = "OK"
    BY <1>2 DEF Registrada
  <2> QED BY <1>0, <1>2, <2>2, <2>3, ContestaTipo DEF Quietos
<1>3. CASE Contesta(p, d, Respuesta("CREDENCIALES")) /\ UNCHANGED dadas
  BY <1>0, <1>1, <1>3, ContestaTipo DEF Quietos
<1>4. CASE Contesta(p, d, Respuesta("bienvenido")) /\ UNCHANGED dadas
  BY <1>0, <1>1, <1>4, ContestaTipo DEF Quietos
<1>5. CASE pet[p].op = "LOGIN" /\ rc[p] = "OK" /\ Va(p, d, "id")
             /\ UNCHANGED <<pet, rc, ultimo, resp, dadas>>
  BY <1>0, <1>5, VaPuntos DEF TipoProcesos, Quietos
<1>6. CASE Va(p, d, "principal") /\ pet' = [pet EXCEPT ![p] = SinPeticion]
             /\ UNCHANGED <<rc, ultimo, resp, dadas>>
  BY <1>0, <1>6, VaPuntos DEF TipoProcesos, Quietos
<1> QED BY <1>2, <1>3, <1>4, <1>5, <1>6 DEF TrasLog

\* A commit of a DNI that has no account leaves every account as it was.
LEMMA InsertaConserva ==
  ASSUME NEW p \in Procesos, insert_usuario(p), ~Duplicado(p)
  PROVE  /\ \A d, c : Coincide(d, c) => d \in DOMAIN usuario' /\ usuario'[d].clave = c
         /\ DOMAIN usuario \subseteq DOMAIN usuario'
         /\ pet[p].dni \in DOMAIN usuario' /\ usuario'[pet[p].dni].clave = pet[p].clave
BY DEF insert_usuario, Duplicado, Coincide

\* An answer is true when it is given.
Veraz(p, r) ==
  /\ r.que = "entra" =>
       Coincide(pet[p].dni, pet[p].clave) /\ r.id = usuario[pet[p].dni].id
  /\ r.que = "DNI_DUPLICADO" => pet[p].dni \in DOMAIN usuario

\* What a step of p does, as far as the invariant is concerned.
Efecto(p) ==
  /\ Quietos(p) /\ Sabe(p)'
  /\ pc'[p] \in Exclusivas => ~LecturaOcupada(p)
  /\ usuario' = usuario \/ insert_usuario(p)
  /\ \A t \in dadas' :
       t \in dadas \/ (usuario' = usuario /\ (~t.barra => Coincide(t.dni, t.clave)))
  /\ resp'[p] # resp[p] => Veraz(p, resp'[p])

\* A log entry is written, or lost, and what the request knew becomes its answer.
LEMMA EfectoTrasLog ==
  ASSUME CuentasInv, NEW p \in Procesos, NEW d \in {"bitacora", "anota"}, NEW u \in Filas,
         TrasLog(p, d, u), usuario' = usuario
  PROVE  Efecto(p)
<1> USE DEF Exclusivas
<1>1. TipoProcesos /\ Sabe(p) /\ Sana(pet[p])
  BY DEF CuentasInv, TypeOK
<1>2. /\ Quietos(p) /\ pc[p] = d
      /\ pc'[p] \in {Espera, "principal", "id"}
      /\ pc'[p] = "id" => /\ pet[p].op = "LOGIN" /\ rc[p] = "OK"
                          /\ pet'[p] = pet[p] /\ resp'[p] = resp[p]
      /\ dadas' \subseteq dadas \cup {pet[p].escrito}
      /\ dadas' # dadas => pet[p].op = "REGISTER" /\ rc[p] = "OK"
      /\ resp'[p] # resp[p] =>
           /\ resp'[p].que # "entra"
           /\ resp'[p].que = "DNI_DUPLICADO" => pet[p].op = "REGISTER" /\ rc[p] = "CONSTRAINT"
  BY <1>1, TrasLogPaso
<1>3. pet[p].op # "ADMIN" => /\ rc[p] = "OK" => Coincide(pet[p].dni, pet[p].clave)
                             /\ rc[p] = "CONSTRAINT" => Duplicado(p)
  BY <1>1, <1>2 DEF Sabe
<1>4. Sabe(p)'
  <2>1. pc'[p] = "id" => Coincide(pet[p].dni, pet[p].clave)'
    BY <1>2, <1>3 DEF Coincide
  <2> QED BY <1>2, <2>1 DEF Sabe, Espera
<1>5. \A t \in dadas' : t \in dadas \/ (~t.barra => Coincide(t.dni, t.clave))
  BY <1>1, <1>2, <1>3 DEF Sana
<1>6. resp'[p] # resp[p] => Veraz(p, resp'[p])
  BY <1>2, <1>3 DEF Veraz, Duplicado
<1> QED BY <1>2, <1>4, <1>5, <1>6 DEF Efecto, Espera

\* The steps of a handler.
LEMMA EfectoHandler ==
  ASSUME CuentasInv, NEW p \in Procesos, PasoHandler(p)
  PROVE  Efecto(p)
<1> USE DEF Exclusivas, Puntos, Lecturas, Escrituras, Espera
<1>0. TipoProcesos /\ Sabe(p)
  BY DEF CuentasInv, TypeOK
<1>1. CASE login_usuario(p)
  <2>1. /\ Quietos(p) /\ pc'[p] = "bitacora" /\ pet'[p] = pet[p] /\ resp' = resp
        /\ rc'[p] # "CONSTRAINT" /\ (rc'[p] = "OK" => Coincide(pet[p].dni, pet[p].clave))
        /\ UNCHANGED <<usuario, dadas>>
    BY <1>0, <1>1, VaPuntos DEF login_usuario, Quietos, TipoProcesos, tablas
  <2>2. Sabe(p)'
    BY <2>1 DEF Sabe, Coincide
  <2> QED BY <2>1, <2>2 DEF Efecto
<1>2. CASE auth_get_id_usuario(p)
  <2>1. PICK r \in {Respuesta("error")} \cup {ConId("entra", DeUsuario(usuario[d].id)) :
                                                 d \in DOMAIN usuario \cap {pet[p].dni}} :
          Contesta(p, "id", r)
    BY <1>2 DEF auth_get_id_usuario
  <2>2. \A d \in DOMAIN usuario : usuario[d].id \in Nat
    BY DEF CuentasInv, TypeOK, TipoUsuario
  <2>3. \A i \in Nat : LET a == ConId("entra", DeUsuario(i)) IN
                         a \in Respuestas /\ a.id = i /\ a.que = "entra"
    BY DEF ConId, DeUsuario, Respuestas
  <2>4. Respuesta("error") \in Respuestas /\ Respuesta("error").que = "error"
    BY DEF Respuesta, Respuestas
  <2>5. r \in Respuestas /\ r.que # "DNI_DUPLICADO"
        /\ (r.que = "entra" => r.id = usuario[pet[p].dni].id)
    BY <2>1, <2>2, <2>3, <2>4
  <2>6. /\ Quietos(p) /\ pc[p] = "id" /\ pc'[p] = "espera" /\ resp'[p] = r
        /\ UNCHANGED <<usuario, dadas>>
    BY <1>0, <1>2, <2>1, <2>5, ContestaTipo DEF Quietos, auth_get_id_usuario, tablas
  <2>7. Coincide(pet[p].dni, pet[p].clave)
    BY <1>0, <2>6 DEF Sabe
  <2>8. Sabe(p)'
    BY <2>6 DEF Sabe
  <2>9. Veraz(p, resp'[p])
    BY <2>5, <2>6, <2>7 DEF Veraz
  <2> QED BY <2>6, <2>8, <2>9 DEF Efecto
<1>3. CASE Bloquea(p)
  <2>1. /\ Quietos(p) /\ pc'[p] = "confirma" /\ pet' = pet /\ resp' = resp
        /\ UNCHANGED <<usuario, dadas>> /\ ~Duplicado(p) /\ ~LecturaOcupada(p)
    BY <1>0, <1>3, VaPuntos DEF Bloquea, Quietos, TipoProcesos, tablas, locales
  <2>2. Sabe(p)'
    BY <2>1 DEF Sabe, Duplicado
  <2> QED BY <2>1, <2>2 DEF Efecto
<1>4. CASE InsertaFalla(p)
  <2>1. /\ Quietos(p) /\ pc'[p] = "bitacora" /\ pet' = pet /\ resp' = resp
        /\ UNCHANGED <<usuario, dadas>>
        /\ rc'[p] # "OK" /\ (rc'[p] = "CONSTRAINT" => Duplicado(p))
    BY <1>0, <1>4, VaPuntos DEF InsertaFalla, Quietos, TipoProcesos, tablas
  <2>2. Sabe(p)'
    BY <2>1 DEF Sabe, Duplicado
  <2> QED BY <2>1, <2>2 DEF Efecto
<1>5. CASE insert_usuario(p)
  <2>1. /\ Quietos(p) /\ pc[p] = "confirma" /\ pc'[p] = "bitacora"
        /\ UNCHANGED <<pet, resp, dadas>>
    BY <1>0, <1>5, VaPuntos DEF insert_usuario, Quietos, TipoProcesos
  <2>2. /\ pet[p].dni \in DOMAIN usuario' /\ usuario'[pet[p].dni].clave = pet[p].clave
    BY <1>0, <1>5, <2>1, InsertaConserva DEF Sabe
  <2>3. Sabe(p)'
    BY <2>1, <2>2 DEF Sabe, Coincide, Duplicado
  <2> QED BY <1>5, <2>1, <2>3 DEF Efecto
<1>6. CASE BloqueaLog(p)
  <2>1. /\ Quietos(p) /\ pc[p] = "bitacora" /\ pc'[p] = "anota" /\ ~LecturaOcupada(p)
        /\ UNCHANGED <<usuario, dadas, pet, rc, resp>>
    BY <1>0, <1>6, VaPuntos DEF BloqueaLog, Quietos, TipoProcesos, tablas, locales
  <2>2. Sabe(p)'
    BY <1>0, <2>1 DEF Sabe, Coincide, Duplicado
  <2> QED BY <2>1, <2>2 DEF Efecto
<1>7. DeLog \in Filas /\ ultimo[p] \in Filas
  BY <1>0 DEF DeLog, Filas, TipoProcesos
<1>8. CASE RegistraLog(p)
  BY <1>7, <1>8, EfectoTrasLog DEF RegistraLog
<1>9. CASE PierdeLog(p)
  BY <1>7, <1>9, EfectoTrasLog DEF PierdeLog
<1> QED BY <1>1, <1>2, <1>3, <1>4, <1>5, <1>6, <1>8, <1>9 DEF PasoHandler

LEMMA EfectoRechaza ==
  ASSUME TipoProcesos, NEW p \in Procesos, NEW q \in {"CREDENCIALES", "error"}, Rechaza(p, q)
  PROVE  Efecto(p)
<1>1. Quietos(p) /\ pc'[p] = "espera" /\ resp'[p].que = q /\ UNCHANGED <<usuario, dadas>>
  BY RechazaTipo DEF Quietos, Espera
<1> QED BY <1>1 DEF Efecto, Sabe, Veraz, Exclusivas

\* A request is stored as it comes, and forgotten when it ends.
LEMMA PeticionSana ==
  ASSUME TipoProcesos, \A q \in Procesos : Sana(pet[q]), NEW p \in Procesos, PasoDe(p)
  PROVE  \A q \in Procesos : Sana(pet'[q])
<1>0. pet \in [Procesos -> Pedidos] /\ Sana(SinPeticion)
  BY SinPeticionTipo DEF TipoProcesos, Sana
<1>1. ASSUME NEW q \in Procesos, NEW r, pet' = [pet EXCEPT ![q] = r], Sana(r)
      PROVE  \A o \in Procesos : Sana(pet'[o])
  BY <1>0, <1>1
<1>2. ASSUME NEW q \in Procesos, NEW op, NEW d, NEW c, NEW e, NEW b, Atiende(q, op, d, c, e, b),
             op = "REGISTER" /\ ~e.barra => d = e.dni /\ c = e.clave
      PROVE  \A o \in Procesos : Sana(pet'[o])
  <2>1. pet' = [pet EXCEPT ![q] = Peticion(op, d, c, e)]
    BY <1>2 DEF Atiende
  <2>2. Sana(Peticion(op, d, c, e))
    BY <1>2 DEF Sana, Peticion
  <2> QED BY <1>1, <2>1, <2>2
<1>3. ASSUME NEW d, NEW r, Contesta(p, d, r) PROVE \A o \in Procesos : Sana(pet'[o])
  BY <1>0, <1>1, <1>3 DEF Contesta
<1>4. CASE RecibeLogin(p)
  BY <1>2, <1>3, <1>4, LoginDeUno DEF Rechaza
<1>5. CASE RecibeRegister(p)
  BY <1>2, <1>3, <1>5, RegisterDeUno DEF Rechaza
<1>6. CASE RecibeIncompleta(p)
  BY <1>3, <1>6 DEF RecibeIncompleta, Rechaza
<1>7. CASE gestionMenuRegistro
  <2>1. PICK t \in Tecleadas :
          Atiende(Admin, "REGISTER", t.dni, t.clave, Escrito(t, FALSE), "inserta")
    BY <1>7 DEF gestionMenuRegistro
  <2>2. Admin \in Procesos /\ t.dni = Escrito(t, FALSE).dni /\ t.clave = Escrito(t, FALSE).clave
    BY DEF Procesos, Escrito
  <2> QED BY <1>2, <2>1, <2>2
<1>8. CASE gestionMenuInicioSesion
  <2>1. PICK t \in Tecleadas, op \in {"ADMIN", "LOGIN"}, a \in {"bitacora", "consulta"} :
          Atiende(Admin, op, t.dni, t.clave, SinEscribir, a)
    BY <1>8 DEF gestionMenuInicioSesion
  <2>2. Admin \in Procesos
    BY DEF Procesos
  <2> QED BY <1>2, <2>1, <2>2
<1>9. CASE pet' = pet
  BY <1>9
<1>10. CASE PasoHandler(p) \/ Cae(p)
  <2>1. pet' = pet \/ pet' = [pet EXCEPT ![p] = SinPeticion]
    BY <1>10 DEF PasoHandler, Cae, login_usuario, auth_get_id_usuario, Bloquea, InsertaFalla,
      insert_usuario, BloqueaLog, RegistraLog, PierdeLog, TrasLog, Contesta, locales
  <2> QED BY <1>0, <1>1, <1>9, <2>1
<1>11. CASE Arranca(p) \/ gestionMenuModificarConfig \/ config_guardar \/ SaleAdmin \/ ArrancaAdmin
  BY <1>9, <1>11 DEF Arranca, gestionMenuModificarConfig, config_guardar, SaleAdmin, ArrancaAdmin,
    locales
<1> QED BY <1>4, <1>5, <1>6, <1>7, <1>8, <1>10, <1>11 DEF PasoDe, PasoPrograma

\* The steps between requests.
LEMMA EfectoPaso ==
  ASSUME CuentasInv, NEW p \in Procesos, PasoDe(p)
  PROVE  Efecto(p)
<1> USE DEF Exclusivas, Puntos, Lecturas, Escrituras, Espera
<1>0. /\ TipoProcesos /\ Admin \in Procesos
      /\ Respuesta("error") \in Respuestas /\ Respuesta("error").que = "error"
      /\ Respuesta("nada").que = "nada"
  BY DEF CuentasInv, TypeOK, Procesos, Respuesta, Respuestas
<1>1. CASE RecibeLogin(p)
  <2>1. CASE Rechaza(p, "CREDENCIALES")
    BY <1>0, <2>1, EfectoRechaza
  <2>2. CASE ~Rechaza(p, "CREDENCIALES")
    <3>1. PICK d \in DniFilas, c \in ClaveFilas :
            Atiende(p, "LOGIN", d, c, SinEscribir, "consulta")
      BY <1>1, <2>2, LoginDeUno
    <3>2. Quietos(p) /\ pc'[p] = "consulta" /\ resp'[p].que = "nada"
          /\ UNCHANGED <<usuario, dadas>>
      BY <1>0, <3>1, AtiendeTipo, SinPeticionTipo DEF Quietos
    <3> QED BY <3>2 DEF Efecto, Sabe, Veraz
  <2> QED BY <2>1, <2>2
<1>2. CASE RecibeRegister(p)
  <2>1. CASE Rechaza(p, "error")
    BY <1>0, <2>1, EfectoRechaza
  <2>2. CASE ~Rechaza(p, "error")
    <3>1. PICK d \in DniFilas, c \in ClaveFilas, e \in Escritos :
            Atiende(p, "REGISTER", d, c, e, "inserta")
      BY <1>2, <2>2, RegisterDeUno
    <3>2. Quietos(p) /\ pc'[p] = "inserta" /\ resp'[p].que = "nada"
          /\ UNCHANGED <<usuario, dadas>>
      BY <1>0, <3>1, AtiendeTipo DEF Quietos
    <3> QED BY <3>2 DEF Efecto, Sabe, Veraz
  <2> QED BY <2>1, <2>2
<1>3. CASE RecibeIncompleta(p)
  BY <1>0, <1>3, EfectoRechaza DEF RecibeIncompleta
<1>4. CASE Arranca(p)
  <2>1. Quietos(p) /\ pc'[p] = "espera" /\ UNCHANGED <<usuario, dadas, resp>>
    BY <1>0, <1>4, VaPuntos DEF TipoProcesos, Quietos, Arranca, tablas, locales
  <2> QED BY <2>1 DEF Efecto, Sabe
<1>6. CASE p = Admin /\ (gestionMenuRegistro \/ gestionMenuInicioSesion)
  <2>1. PICK t \in Tecleadas :
          \E op \in {"LOGIN", "REGISTER", "ADMIN"}, e \in {SinEscribir, Escrito(t, FALSE)},
             a \in {"consulta", "inserta", "bitacora"} :
            Atiende(Admin, op, t.dni, t.clave, e, a) /\ (a = "bitacora" => op = "ADMIN")
    BY <1>6 DEF gestionMenuRegistro, gestionMenuInicioSesion
  <2>2. PICK op \in {"LOGIN", "REGISTER", "ADMIN"}, e \in {SinEscribir, Escrito(t, FALSE)},
             a \in {"consulta", "inserta", "bitacora"} :
          Atiende(Admin, op, t.dni, t.clave, e, a) /\ (a = "bitacora" => op = "ADMIN")
    BY <2>1
  <2>3. t.dni \in DniFilas /\ t.clave \in ClaveFilas /\ e \in Escritos /\ a \in Puntos
    BY LoTecleado, SinPeticionTipo
  <2> HIDE DEF Puntos
  <2>4. Atiende(p, op, t.dni, t.clave, e, a)
    BY <1>6, <2>2
  <2>5. Quietos(p) /\ pc'[p] = a /\ pet'[p].op = op /\ resp'[p] = Respuesta("nada")
        /\ UNCHANGED <<usuario, dadas>>
    BY <1>0, <2>3, <2>4, AtiendeTipo DEF Quietos
  <2> QED BY <1>0, <2>2, <2>5 DEF Efecto, Sabe, Veraz
<1>7. CASE p = Admin /\ (gestionMenuModificarConfig \/ config_guardar \/ SaleAdmin
                           \/ ArrancaAdmin)
  <2>1. PICK d \in Puntos, a \in {"guarda", "principal", "espera"} :
          Va(p, d, a) /\ UNCHANGED <<tablas, locales>>
    BY <1>7 DEF gestionMenuModificarConfig, config_guardar, SaleAdmin, ArrancaAdmin
  <2>2. Quietos(p) /\ pc'[p] = a /\ UNCHANGED <<usuario, dadas, resp>>
    BY <1>0, <2>1, VaPuntos DEF TipoProcesos, Quietos, tablas, locales
  <2> QED BY <2>2 DEF Efecto, Sabe
<1>8. CASE Cae(p)
  <2>1. Quietos(p) /\ pc'[p] = "caido" /\ resp'[p].que = "nada" /\ UNCHANGED <<usuario, dadas>>
    BY <1>0, <1>8 DEF TipoProcesos, Quietos, Cae, tablas
  <2> QED BY <2>1 DEF Efecto, Sabe, Veraz
<1> QED BY <1>1, <1>2, <1>3, <1>4, <1>6, <1>7, <1>8, EfectoHandler DEF PasoDe, PasoPrograma

\* The other processes keep what they know: accounts are added and never changed, and
\* nobody else is at its commit meanwhile.
LEMMA OtrosConservan ==
  ASSUME CuentasInv, NEW p \in Procesos, Efecto(p), NEW q \in Procesos, q # p
  PROVE  Sabe(q)'
<1>1. Sabe(p) /\ Sabe(q)
  BY DEF CuentasInv
<1>2. pc'[q] = pc[q] /\ pet'[q] = pet[q] /\ rc'[q] = rc[q]
  BY DEF Efecto, Quietos
<1>3. CASE usuario' = usuario
  BY <1>1, <1>2, <1>3 DEF Sabe, Coincide, Duplicado
<1>4. CASE insert_usuario(p)
  <2>1. pc[p] = "confirma" /\ pc[q] # "confirma" /\ ~Duplicado(p)
    BY <1>1, <1>4 DEF insert_usuario, Va, CuentasInv, Exclusivo, Exclusivas, Sabe
  <2>2. /\ \A d, c : Coincide(d, c) => d \in DOMAIN usuario' /\ usuario'[d].clave = c
        /\ DOMAIN usuario \subseteq DOMAIN usuario'
    BY <1>4, <2>1, InsertaConserva
  <2> QED BY <1>1, <1>2, <2>1, <2>2 DEF Sabe, Coincide, Duplicado
<1> QED BY <1>3, <1>4 DEF Efecto

\* The invariant is inductive.
LEMMA CuentasPaso ==
  ASSUME CuentasInv, [Next]_vars
  PROVE  CuentasInv'
<1>1. CASE UNCHANGED vars
  <2>1. UNCHANGED <<usuario, dadas, pc, pet, rc, ultimo, resp, archivo, cfg, nueva, tecleada>>
    BY <1>1 DEF vars, tablas, locales, config
  <2>2. TypeOK' /\ IdsContados'
    BY <2>1 DEF CuentasInv, TypeOK, TipoUsuario, TipoProcesos, TipoConfig, IdsContados
  <2>3. Exclusivo' /\ CuentaSegura' /\ \A q \in Procesos : Sabe(q)' /\ Sana(pet'[q])
    BY <2>1 DEF CuentasInv, Exclusivo, CuentaSegura, Sabe, Coincide, Duplicado
  <2> QED BY <2>2, <2>3 DEF CuentasInv
<1>2. CASE Next
  <2>1. PICK p \in Procesos : PasoDe(p)
    BY <1>2, PasoDeUno
  <2>2. Efecto(p) /\ Sabe(p)
    BY <2>1, EfectoPaso DEF CuentasInv
  <2>3. TipoProcesos' /\ TipoConfig'
    BY <2>1, TipoPaso, TipoConfigPaso DEF CuentasInv, TypeOK
  <2>4. insert_usuario(p) => ~Duplicado(p)
    BY <2>2 DEF insert_usuario, Va, Sabe
  <2>5. TipoUsuario' /\ IdsContados'
    <3>1. CASE usuario' = usuario
      BY <3>1 DEF CuentasInv, TypeOK, TipoUsuario, IdsContados
    <3>2. CASE insert_usuario(p)
      BY <2>4, <3>2, TipoInserta DEF CuentasInv, TipoInv
    <3> QED BY <2>2, <3>1, <3>2 DEF Efecto
  <2>6. Exclusivo'
    BY <2>2 DEF CuentasInv, Exclusivo, Efecto, Quietos, LecturaOcupada
  <2>7. \A q \in Procesos : Sabe(q)' /\ Sana(pet'[q])
    BY <2>1, <2>2, OtrosConservan, PeticionSana DEF Efecto, CuentasInv, TypeOK
  <2>8. CuentaSegura'
    <3>1. CASE usuario' = usuario
      BY <2>2, <3>1 DEF Efecto, CuentasInv, CuentaSegura, Coincide
    <3>2. CASE insert_usuario(p)
      <4>1. \A d, c : Coincide(d, c) => d \in DOMAIN usuario' /\ usuario'[d].clave = c
        BY <2>4, <3>2, InsertaConserva
      <4>2. dadas' = dadas
        BY <3>2 DEF insert_usuario
      <4> QED BY <4>1, <4>2 DEF CuentasInv, CuentaSegura, Coincide
    <3> QED BY <2>2, <3>1, <3>2 DEF Efecto
  <2> QED BY <2>3, <2>5, <2>6, <2>7, <2>8 DEF CuentasInv, TypeOK
<1> QED BY <1>1, <1>2

-----------------------------------------------------------------------------
(* The configuration.                                                       *)

\* Every key of a is what was typed, but for what was left blank.
Fiel(a) ==
  /\ tecleada \in Ediciones /\ a \in Campos
  /\ \A k \in DOMAIN Defecto : tecleada[k] # Blanco => a[k] = tecleada[k]
  /\ tecleada.max = Blanco => a.max = cfg.max

\* The file is empty, or as it was when the program started, or the last edit.
ConfigInv ==
  /\ archivo = Vacio \/ (tecleada = Vacio /\ archivo = cfg) \/ Fiel(archivo)
  /\ pc[Admin] = "guarda" => Fiel(nueva)

LEMMA ConfigPaso ==
  ASSUME CuentasInv, ConfigInv, [Next]_vars
  PROVE  ConfigInv'
<1> USE DEF Va
<1>0. /\ TipoProcesos /\ TipoConfig /\ pc \in [Procesos -> Puntos] /\ Admin \in Procesos
      /\ archivo = Vacio \/ archivo \in Campos
  BY DEF CuentasInv, TypeOK, TipoProcesos, TipoConfig, Procesos
<1>1. CASE UNCHANGED vars
  BY <1>1 DEF vars, config, ConfigInv, Fiel
<1>2. CASE Next
  <2>1. PICK p \in Procesos : PasoDe(p)
    BY <1>2, PasoDeUno
  <2>2. /\ \/ UNCHANGED config
           \/ gestionMenuModificarConfig \/ config_guardar \/ ArrancaAdmin \/ Cae(p)
        /\ pc'[Admin] = "guarda" => pc[Admin] = "guarda" \/ gestionMenuModificarConfig
    BY <1>0, <2>1, ConfigIntacta
  <2>3. CASE UNCHANGED config /\ ~gestionMenuModificarConfig
    BY <2>2, <2>3 DEF config, ConfigInv, Fiel
  <2>4. CASE gestionMenuModificarConfig
    <3>1. archivo' = Vacio /\ cfg' = cfg
      BY <2>4 DEF gestionMenuModificarConfig
    <3>2. Fiel(nueva)'
      BY <1>0, <2>4, <3>1, EdicionTipo DEF Fiel
    <3> QED BY <3>1, <3>2 DEF ConfigInv
  <2>5. CASE config_guardar
    <3>1. /\ archivo' = nueva /\ UNCHANGED <<cfg, tecleada>>
          /\ pc[Admin] = "guarda" /\ pc'[Admin] # "guarda"
      BY <1>0, <2>5 DEF config_guardar
    <3>2. Fiel(archivo)'
      BY <3>1 DEF ConfigInv, Fiel
    <3> QED BY <3>1, <3>2 DEF ConfigInv
  <2>6. CASE ArrancaAdmin
    <3>1. /\ archivo' = archivo /\ tecleada' = Vacio /\ cfg' = config_cargar
          /\ pc'[Admin] # "guarda"
      BY <1>0, <2>6 DEF ArrancaAdmin, Espera
    <3>2. archivo' = Vacio \/ archivo' = cfg'
      BY <1>0, <3>1, CargaEntera
    <3> QED BY <3>1, <3>2 DEF ConfigInv
  <2>7. CASE Cae(p)
    <3>1. UNCHANGED <<archivo, cfg, tecleada>>
      BY <2>7 DEF Cae
    <3>2. pc'[Admin] = "guarda" => pc[Admin] = "guarda" /\ nueva' = nueva
      BY <1>0, <2>7 DEF Cae
    <3> QED BY <3>1, <3>2 DEF ConfigInv, Fiel
  <2> QED BY <2>2, <2>3, <2>4, <2>5, <2>6, <2>7
<1> QED BY <1>1, <1>2

-----------------------------------------------------------------------------
(* The theorems.                                                            *)

\* The inductive invariant: the types, who is at a commit, and what every program knows.
THEOREM CuentasCorrectas == Spec => []CuentasInv
<1>1. Init => CuentasInv
  BY TipoInit, SinPeticionTipo
  DEF TipoInv, Init, CuentasInv, Exclusivo, Exclusivas, Sabe, Sana, CuentaSegura
<1> QED BY <1>1, CuentasPaso, PTL DEF Spec

\* Every variable has its type, and the ids of users are not repeated, in every run of
\* the programs (insert_usuario, config_cargar).
THEOREM TipoCuentas == Spec => []TypeOK
<1>1. CuentasInv => TypeOK
  BY DEF CuentasInv
<1> QED BY <1>1, CuentasCorrectas, PTL

\* Whoever was told that his registration succeeded can enter with the DNI and the password he
\* typed, however many programs register users, if he typed no '|' in his name, surname or
\* DNI, whatever the others typed (insert_usuario, login_usuario, handler_auth_register).
THEOREM CuentaEsSegura == Spec => []CuentaSegura
<1>1. CuentasInv => CuentaSegura
  BY DEF CuentasInv
<1> QED BY <1>1, CuentasCorrectas, PTL

\* Every answer of LOGIN and REGISTER is true when it is sent (handler_auth_login,
\* handler_auth_register).
THEOREM RespuestaEsVeraz == Spec => RespuestaVeraz
<1> DEFINE Verdad == \A p \in Procesos : pc[p] # "caido" /\ resp'[p] # resp[p] =>
       /\ resp'[p].que = "entra" =>
            Coincide(pet[p].dni, pet[p].clave) /\ resp'[p].id = usuario[pet[p].dni].id
       /\ resp'[p].que = "DNI_DUPLICADO" => pet[p].dni \in DOMAIN usuario
<1>1. ASSUME CuentasInv, [Next]_vars
      PROVE  [Verdad]_vars
  <2>1. CASE UNCHANGED vars
    BY <2>1
  <2>2. CASE Next
    <3>1. PICK p \in Procesos : PasoDe(p)
      BY <2>2, PasoDeUno
    <3>2. Efecto(p)
      BY <1>1, <3>1, EfectoPaso
    <3> QED BY <3>2 DEF Efecto, Quietos, Veraz
  <2> QED BY <1>1, <2>1, <2>2
<1> QED BY <1>1, CuentasCorrectas, PTL DEF Spec, RespuestaVeraz

\* The configuration a start loads is the whole last edit or the defaults, whenever the
\* program ended (config_guardar, config_cargar).
THEOREM ConfiguracionEsEntera == Spec => ConfiguracionEntera
<1> DEFINE Entera == cfg' # cfg /\ cfg' # Defecto =>
       /\ \A k \in DOMAIN Defecto : tecleada[k] # Blanco => cfg'[k] = tecleada[k]
       /\ tecleada.max = Blanco => cfg'.max = cfg.max
<1>1. Init => ConfigInv
  BY DEF Init, ConfigInv, Procesos
<1>2. ASSUME CuentasInv, ConfigInv, [Next]_vars
      PROVE  [Entera]_vars
  <2>1. CASE cfg' = cfg
    BY <2>1
  <2>2. CASE cfg' # cfg
    <3>1. PICK p \in Procesos : PasoDe(p)
      BY <1>2, <2>2, PasoDeUno DEF vars, config
    <3>2. ArrancaAdmin
      BY <1>2, <2>2, <3>1, ConfigIntacta DEF CuentasInv, TypeOK, config,
        gestionMenuModificarConfig, config_guardar, Cae
    <3>3. cfg' = config_cargar /\ (archivo = Vacio \/ archivo \in Campos)
      BY <1>2, <3>2 DEF ArrancaAdmin, CuentasInv, TypeOK, TipoConfig
    <3>4. CASE archivo = Vacio
      BY <3>3, <3>4, CargaEntera
    <3>5. CASE archivo \in Campos
      <4>1. cfg' = archivo
        BY <3>3, <3>5, CargaEntera
      <4> QED BY <1>2, <2>2, <3>3, <4>1, CargaEntera DEF ConfigInv, Fiel
    <3> QED BY <3>3, <3>4, <3>5
  <2> QED BY <2>1, <2>2
<1>3. Spec => []ConfigInv
  BY <1>1, ConfigPaso, CuentasCorrectas, PTL DEF Spec
<1> QED BY <1>2, <1>3, CuentasCorrectas, PTL DEF Spec, ConfiguracionEntera

=============================================================================
