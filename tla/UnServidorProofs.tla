-------------------------- MODULE UnServidorProofs --------------------------
(***************************************************************************)
(* With one server process and an administrator who changes nothing, the   *)
(* reservation commands are atomic: Reservas implements Cupos.             *)
(***************************************************************************)
EXTENDS ReservasProofs, FiniteSetTheorems

\* The instance's copies of the library operators are the library operators.
LEMMA MismaBiblioteca ==
  /\ \A S : Promesa!Cardinality(S) = Cardinality(S)
  /\ \A f, S : Promesa!Restrict(f, S) = Restrict(f, S)
BY DEF Promesa!Cardinality, Cardinality, Promesa!Restrict, Restrict

\* Nobody but the server takes a step, and no query meets a lock.
LEMMA NadieMas ==
  ASSUME UnServidorSolo, TypeOK, LecturasVigentes, Next
  PROVE  \E s \in Servidores :
           /\ PasoServidor(s)
           /\ pc'[Admin] = "espera" /\ servicio' = servicio
           /\ ~LecturaOcupada(s)
<1>0. /\ pc \in [Procesos -> Puntos] /\ Admin \in Procesos /\ Servidores \subseteq Procesos
      /\ pc[Admin] = "espera" /\ edicion \in Edicion
  BY DEF TypeOK, TipoProcesos, Procesos, LecturasVigentes
<1>1. ~PasoAdmin
  <2>1. \A e \in Edicion : e = SinEdicion
    BY DEF UnServidorSolo, Edicion
  <2> QED BY <1>0, <2>1 DEF PasoAdmin, AdminElige, AdminVer, AdminBloquea, AdminAlta,
             AdminBaja, AdminCambio, AdminFalla, AdminBloqueaLog, AdminVuelve, Va
<1>2. PICK s \in Servidores : PasoServidor(s)
  BY <1>1 DEF Next
<1>3. \A q \in Procesos \ {s} : q = Admin
  BY DEF UnServidorSolo, Procesos
<1>4. ~LecturaOcupada(s)
  BY <1>0, <1>3 DEF LecturaOcupada, Exclusivas
<1>5. pc'[Admin] = "espera"
  BY <1>0, <1>2, CerrojoServidor, ServidoresAssumption
<1>6. servicio' = servicio
  BY <1>2, ServicioDelAdmin
<1> QED BY <1>2, <1>4, <1>5, <1>6

\* What the server has read still holds after each of its steps.
LEMMA SigueVigente ==
  ASSUME TypeOK, TypeOK', NEW s \in Servidores, PropiedadDe(s), Vigente(s), PasoServidor(s),
         servicio' = servicio, ~LecturaOcupada(s), ~LecturaOcupada(s)'
  PROVE  Vigente(s)'
<1>0. /\ pc \in [Procesos -> Puntos] /\ s \in Procesos
      /\ pet \in [Servidores -> Peticion] /\ capacidad \in [Servidores -> Capacidades \cup {-1}]
  BY DEF TypeOK, TipoProcesos, Procesos
<1>a. CASE pc'[s] \notin {"ya", "capacidad", "ocupadas", "escribe", "confirma"}
  BY <1>a DEF Vigente
<1>1. CASE Recepcion(s)
  <2>1. ASSUME NEW p, NEW v, NEW h \in {"ya", "abre", "propia"}, Recibe(s, p, v, h),
               h = "ya" => p.op = "CREATE"
        PROVE  Vigente(s)'
    <3>1. \/ pc'[s] \in {"espera", "abre", "propia"}
          \/ pc'[s] = "ya" /\ pet'[s].op = "CREATE"
      BY <1>0, <2>1 DEF Recibe, Termina, Contesta, Va
    <3> QED BY <3>1 DEF Vigente
  <2>2. CASE RecibeCreate(s) BY <2>1, <2>2 DEF RecibeCreate
  <2>3. CASE RecibeGet(s) BY <2>1, <2>3 DEF RecibeGet
  <2>4. CASE RecibeCancel(s) BY <2>1, <2>4 DEF RecibeCancel
  <2>5. CASE RecibeUpdate(s) BY <2>1, <2>5 DEF RecibeUpdate
  <2> QED BY <1>1, <2>2, <2>3, <2>4, <2>5 DEF Recepcion
<1>2. CASE CompruebaPropia(s)
  <2>1. CASE es_propia(s, pet[s].reserva, pet[s].usuario)
    <3>1. /\ pet' = pet /\ reserva' = reserva
          /\ pc'[s] = IF pet[s].op = "CANCEL" THEN "escribe" ELSE "ya"
      BY <1>0, <1>2, <2>1 DEF CompruebaPropia, Sigue, Va, tablas
    <3>2. es_propia(s, pet[s].reserva, pet[s].usuario)'
      BY <2>1, <3>1 DEF es_propia
    <3> QED BY <3>1, <3>2 DEF Vigente
  <2>2. CASE ~es_propia(s, pet[s].reserva, pet[s].usuario)
    BY <1>0, <1>a, <1>2, <2>2 DEF CompruebaPropia, Termina, Contesta, Va
  <2> QED BY <2>1, <2>2
<1>3. CASE CompruebaYa(s)
  <2>1. CASE ya_reservado(s, pet[s].usuario, pet[s].servicio)
    BY <1>0, <1>a, <1>3, <2>1 DEF CompruebaYa, Termina, Contesta, Va
  <2>2. CASE ~ya_reservado(s, pet[s].usuario, pet[s].servicio)
    <3>1. /\ pet' = pet /\ reserva' = reserva /\ pc[s] = "ya" /\ pc'[s] = "capacidad"
      BY <1>0, <1>3, <2>2 DEF CompruebaYa, Sigue, Va, tablas
    <3>2. ~ya_reservado(s, pet[s].usuario, pet[s].servicio)'
      BY <2>2, <3>1 DEF ya_reservado
    <3> QED BY <3>1, <3>2 DEF Vigente, es_propia
  <2> QED BY <2>1, <2>2
<1>4. CASE LeeCapacidad(s)
  <2>1. /\ pet' = pet /\ reserva' = reserva /\ pc[s] = "capacidad" /\ pc'[s] = "ocupadas"
        /\ capacidad'[s] = get_capacidad_max(s, pet[s].servicio)
    BY <1>0, <1>4 DEF LeeCapacidad, Va, tablas
  <2>2. /\ get_capacidad_max(s, pet[s].servicio)' = get_capacidad_max(s, pet[s].servicio)
        /\ ya_reservado(s, pet[s].usuario, pet[s].servicio)'
             = ya_reservado(s, pet[s].usuario, pet[s].servicio)
    BY <2>1 DEF get_capacidad_max, ya_reservado
  <2> QED BY <2>1, <2>2 DEF Vigente, es_propia
<1>5. CASE CompruebaCupo(s)
  <2>1. CASE HayCupo(s)
    <3>1. /\ pet' = pet /\ reserva' = reserva /\ pc[s] = "ocupadas" /\ pc'[s] = "escribe"
          /\ capacidad[s] >= 0
          /\ contar_reservas_servicio(s, pet[s].servicio) < capacidad[s]
      BY <1>0, <1>5, <2>1 DEF CompruebaCupo, HayCupo, Va, tablas
    <3>2. /\ pet[s].servicio \in DOMAIN servicio
          /\ capacidad[s] = servicio[pet[s].servicio].capacidad
      BY <3>1 DEF Vigente, get_capacidad_max
    <3>3. Cardinality(Promesa!Ocupantes(pet[s].servicio)) < servicio[pet[s].servicio].capacidad
      BY <3>1, <3>2 DEF contar_reservas_servicio, Ocupantes, Promesa!Ocupantes
    <3>4. \A i \in DOMAIN reserva :
            reserva[i] # [usuario |-> pet[s].usuario, servicio |-> pet[s].servicio]
      BY <3>1 DEF Vigente, ya_reservado
    <3>5. Promesa!Admite(pet[s].servicio, pet[s].usuario)
      BY <3>2, <3>3, <3>4, MismaBiblioteca DEF Promesa!Admite
    <3>6. Promesa!Admite(pet[s].servicio, pet[s].usuario)'
      BY <3>1, <3>5 DEF Promesa!Admite, Promesa!Ocupantes
    <3> QED BY <3>1, <3>6 DEF Vigente, es_propia
  <2>2. CASE ~HayCupo(s)
    BY <1>0, <1>a, <1>5, <2>2 DEF CompruebaCupo, Termina, Contesta, Va
  <2> QED BY <2>1, <2>2
<1>6. CASE Bloquea(s)
  <2>1. pet' = pet /\ reserva' = reserva /\ pc[s] = "escribe" /\ pc'[s] = "confirma"
    BY <1>0, <1>6 DEF Bloquea, Va, tablas, locales
  <2>2. Promesa!Admite(pet[s].servicio, pet[s].usuario)'
          = Promesa!Admite(pet[s].servicio, pet[s].usuario)
    BY <2>1 DEF Promesa!Admite, Promesa!Ocupantes
  <2> QED BY <2>1, <2>2 DEF Vigente, es_propia
<1>7. CASE \/ Escritura(s) \/ EscrituraFalla(s) \/ EnviaExito(s) \/ BloqueaLog(s)
           \/ RegistraLog(s) \/ PierdeLog(s) \/ AbreCursor(s) \/ CierraCursor(s)
           \/ Cae(s) \/ Arranca(s)
  BY <1>0, <1>a, <1>7 DEF Escritura, InsertaReserva, BorraReserva, CambiaReserva,
     EscrituraFalla, EnviaExito, BloqueaLog, RegistraLog, PierdeLog, AbreCursor, CierraCursor,
     Cae, Arranca, Sigue, Termina, Contesta, Va
<1>8. CASE EnviaFila(s)
  BY <1>a, <1>8 DEF EnviaFila
<1> QED BY <1>1, <1>2, <1>3, <1>4, <1>5, <1>6, <1>7, <1>8
        DEF PasoServidor, PasoHandler

\* What the server has read holds when it writes.
LEMMA LecturasSiguenVigentes ==
  ASSUME UnServidorSolo
  PROVE  Spec => []LecturasVigentes
<1>1. Init => LecturasVigentes
  BY ServidoresAssumption DEF Init, LecturasVigentes, Vigente, Procesos
<1>2. TypeOK /\ TypeOK' /\ PropiedadInv /\ LecturasVigentes /\ [Next]_vars => LecturasVigentes'
  <2> SUFFICES ASSUME TypeOK, TypeOK', PropiedadInv, LecturasVigentes, [Next]_vars
               PROVE  LecturasVigentes'
    OBVIOUS
  <2>1. CASE UNCHANGED vars
    <3>1. \A s \in Servidores : Vigente(s) => Vigente(s)'
      BY <2>1, MismaBiblioteca DEF vars, Vigente, es_propia, ya_reservado, get_capacidad_max,
         LecturaOcupada, Promesa!Admite, Promesa!Ocupantes
    <3> QED BY <2>1, <3>1 DEF vars, LecturasVigentes
  <2>2. CASE Next
    <3>1. PICK s \in Servidores :
            /\ PasoServidor(s)
            /\ pc'[Admin] = "espera" /\ servicio' = servicio
            /\ ~LecturaOcupada(s)
      BY <2>2, NadieMas
    <3>2. ~LecturaOcupada(s)'
      BY <3>1 DEF LecturaOcupada, Exclusivas, UnServidorSolo, Procesos
    <3>3. Vigente(s)'
      BY <3>1, <3>2, SigueVigente DEF LecturasVigentes, PropiedadInv
    <3>4. \A t \in Servidores : t = s
      BY DEF UnServidorSolo
    <3> QED BY <3>1, <3>3, <3>4 DEF LecturasVigentes
  <2> QED BY <2>1, <2>2
<1> QED BY <1>1, <1>2, TipoCorrecto, PropiedadCorrecta, PTL DEF Spec

\* One step of Reservas is one operation of Cupos or none.
LEMMA PasoPromesa ==
  ASSUME UnServidorSolo, TypeOK, LecturasVigentes, [Next]_vars
  PROVE  [Promesa!Next]_(Promesa!tabla)
<1>1. CASE UNCHANGED <<reserva, seqReserva, servicio>>
  BY <1>1 DEF Promesa!tabla
<1>2. CASE Next /\ ~UNCHANGED <<reserva, seqReserva>>
  <2>1. PICK s \in Servidores : PasoServidor(s) /\ servicio' = servicio /\ Escritura(s)
    <3>1. PICK s \in Servidores : Escritura(s)
      BY <1>2, SoloEscritura
    <3> QED BY <3>1, <1>2, NadieMas DEF UnServidorSolo
  <2>2. /\ pc[s] = "confirma" /\ Vigente(s) /\ pet[s] \in Peticion
        /\ reserva \in [DOMAIN reserva -> [usuario: Usuarios, servicio: IdServicio \ {0}]]
    BY <2>1 DEF Escritura, InsertaReserva, BorraReserva, CambiaReserva, Va, LecturasVigentes,
       TypeOK, TipoProcesos, TipoTablas
  <2>3. CASE InsertaReserva(s)
    <3>1. pet[s].usuario \in Usuarios /\ pet[s].servicio \in IdServicio
      BY <2>1, <2>2, <2>3 DEF InsertaReserva, TypeOK, Peticion, IdUsuario
    <3>2. Promesa!Admite(pet[s].servicio, pet[s].usuario)
      BY <2>2, <2>3 DEF InsertaReserva, Vigente
    <3>3. Promesa!Reservar(pet[s].usuario, pet[s].servicio)
      BY <2>1, <2>3, <3>2 DEF InsertaReserva, Promesa!Reservar
    <3> QED BY <3>1, <3>3 DEF Promesa!Next
  <2>4. CASE BorraReserva(s)
    <3>1. pet[s].reserva \in DOMAIN reserva
      BY <2>2, <2>4 DEF BorraReserva, Vigente, es_propia
    <3>2. Promesa!Cancelar(pet[s].reserva)
      BY <2>1, <2>4, MismaBiblioteca DEF BorraReserva, Promesa!Cancelar
    <3> QED BY <3>1, <3>2 DEF Promesa!Next
  <2>5. CASE CambiaReserva(s)
    <3>1. /\ pet[s].reserva \in DOMAIN reserva
          /\ reserva[pet[s].reserva].usuario = pet[s].usuario
          /\ Promesa!Admite(pet[s].servicio, pet[s].usuario)
      BY <2>2, <2>5 DEF CambiaReserva, Vigente, es_propia
    <3>2. pet[s].servicio \in IdServicio
      BY <2>2 DEF Peticion
    <3>3. reserva' = [reserva EXCEPT ![pet[s].reserva].servicio = pet[s].servicio]
      BY <2>5 DEF CambiaReserva
    <3>4. Promesa!Mover(pet[s].reserva, pet[s].servicio)
      BY <2>1, <2>5, <3>1, <3>3 DEF CambiaReserva, Promesa!Mover
    <3> QED BY <3>1, <3>2, <3>4 DEF Promesa!Next
  <2> QED BY <2>1, <2>3, <2>4, <2>5 DEF Escritura
<1>3. CASE Next /\ UNCHANGED <<reserva, seqReserva>>
  BY <1>1, <1>3, NadieMas
<1> QED BY <1>1, <1>2, <1>3 DEF vars

\* With one server, a change of the tables is an atomic operation of Cupos.
THEOREM UnServidorCumple ==
  ASSUME UnServidorSolo
  PROVE  Spec => PromesaCumplida
<1>1. Init => Promesa!Init
  BY DEF Init, Promesa!Init, TablaVacia
<1>2. TypeOK /\ LecturasVigentes /\ [Next]_vars => [Promesa!Next]_(Promesa!tabla)
  BY PasoPromesa
<1> QED BY <1>1, <1>2, TipoCorrecto, LecturasSiguenVigentes, PTL
        DEF Spec, PromesaCumplida, Promesa!Spec

-----------------------------------------------------------------------------
(* What the operations of Cupos preserve.                                    *)

\* A set of reservations that gains at most one row over a set with a free place fits.
LEMMA UnoMasCabe ==
  ASSUME NEW S, NEW T, NEW x, NEW n \in Nat, IsFiniteSet(S), T \subseteq S \cup {x},
         Cardinality(S) <= n, T \subseteq S \/ Cardinality(S) < n
  PROVE  Cardinality(T) <= n
<1>1. Cardinality(S) \in Nat
  BY FS_CardinalityType
<1>2. CASE T \subseteq S
  <2>1. IsFiniteSet(T) /\ Cardinality(T) <= Cardinality(S)
    BY <1>2, FS_Subset
  <2>2. Cardinality(T) \in Nat
    BY <2>1, FS_CardinalityType
  <2> QED BY <1>1, <2>1, <2>2
<1>3. CASE Cardinality(S) < n
  <2>1. /\ IsFiniteSet(S \cup {x})
        /\ Cardinality(S \cup {x}) = IF x \in S THEN Cardinality(S) ELSE Cardinality(S) + 1
    BY FS_AddElement
  <2>2. IsFiniteSet(T) /\ Cardinality(T) <= Cardinality(S \cup {x})
    BY <2>1, FS_Subset
  <2>3. Cardinality(T) \in Nat
    BY <2>2, FS_CardinalityType
  <2> QED BY <1>1, <1>3, <2>1, <2>2, <2>3
<1> QED BY <1>2, <1>3

\* A service is given at most one row, and only if it has a place for it.
LEMMA CupoPaso ==
  ASSUME TypeOK, SinSobrecupo, [Promesa!Next]_(Promesa!tabla)
  PROVE  SinSobrecupo'
<1>0. servicio' = servicio
  BY DEF Promesa!tabla, Promesa!Next, Promesa!Reservar, Promesa!Cancelar, Promesa!Mover
<1> SUFFICES ASSUME NEW v \in DOMAIN servicio
             PROVE  Cardinality(Ocupantes(v)') <= servicio[v].capacidad
  BY <1>0 DEF SinSobrecupo
<1>1. IsFiniteSet(Ocupantes(v)) /\ servicio[v].capacidad \in Nat
  <2>1. Ocupantes(v) \subseteq 1 .. seqReserva /\ seqReserva \in Int
    BY IdsAssumption DEF Ocupantes, TypeOK, TipoTablas, IdReserva
  <2>2. IsFiniteSet(1 .. seqReserva)
    BY <2>1, FS_Interval
  <2>3. servicio[v].capacidad \in Nat
    BY IdsAssumption DEF TypeOK, TipoTablas
  <2> QED BY <2>1, <2>2, <2>3, FS_Subset
<1>2. Cardinality(Ocupantes(v)) <= servicio[v].capacidad
  BY DEF SinSobrecupo
<1>3. \E x : /\ Ocupantes(v)' \subseteq Ocupantes(v) \cup {x}
              /\ \/ Ocupantes(v)' \subseteq Ocupantes(v)
                 \/ Cardinality(Ocupantes(v)) < servicio[v].capacidad
  <2>1. ASSUME NEW u, NEW w, Promesa!Reservar(u, w)
        PROVE  /\ Ocupantes(v)' \subseteq Ocupantes(v) \cup {seqReserva'}
               /\ v # w => Ocupantes(v)' \subseteq Ocupantes(v)
               /\ Cardinality(Ocupantes(w)) < servicio[w].capacidad
    BY <2>1, MismaBiblioteca
       DEF Promesa!Reservar, Promesa!Admite, Promesa!Ocupantes, Ocupantes
  <2>2. ASSUME NEW i \in DOMAIN reserva, Promesa!Cancelar(i)
        PROVE  Ocupantes(v)' \subseteq Ocupantes(v)
    BY <2>2, MismaBiblioteca DEF Promesa!Cancelar, Ocupantes, Restrict
  <2>3. ASSUME NEW i \in DOMAIN reserva, NEW w, Promesa!Mover(i, w)
        PROVE  /\ Ocupantes(v)' \subseteq Ocupantes(v) \cup {i}
               /\ v # w => Ocupantes(v)' \subseteq Ocupantes(v)
               /\ Cardinality(Ocupantes(w)) < servicio[w].capacidad
    <3>1. \A j \in DOMAIN reserva' : j \in DOMAIN reserva /\
            (reserva'[j] = reserva[j] \/ (j = i /\ reserva'[j].servicio = w))
      BY <2>3 DEF Promesa!Mover, TypeOK, TipoTablas
    <3>2. Cardinality(Ocupantes(w)) < servicio[w].capacidad
      BY <2>3, MismaBiblioteca DEF Promesa!Mover, Promesa!Admite, Promesa!Ocupantes, Ocupantes
    <3> QED BY <3>1, <3>2 DEF Ocupantes
  <2>4. CASE UNCHANGED Promesa!tabla
    BY <2>4 DEF Promesa!tabla, Ocupantes
  <2> QED BY <2>1, <2>2, <2>3, <2>4 DEF Promesa!Next
<1>4. ASSUME NEW T, T = Ocupantes(v)'
      PROVE  Cardinality(T) <= servicio[v].capacidad
  <2>1. PICK x : /\ T \subseteq Ocupantes(v) \cup {x}
                 /\ \/ T \subseteq Ocupantes(v)
                    \/ Cardinality(Ocupantes(v)) < servicio[v].capacidad
    BY <1>3, <1>4
  <2> QED BY <1>1, <1>2, <2>1, UnoMasCabe
<1> QED BY <1>4

\* A row that comes to name a service is the only one of its user there.
LEMMA DuplicadaPaso ==
  ASSUME TypeOK, SinDuplicada, [Promesa!Next]_(Promesa!tabla)
  PROVE  SinDuplicada'
<1>1. ASSUME NEW u, NEW w, Promesa!Reservar(u, w)
      PROVE  SinDuplicada'
  BY <1>1 DEF Promesa!Reservar, Promesa!Admite, SinDuplicada
<1>2. ASSUME NEW i \in DOMAIN reserva, Promesa!Cancelar(i)
      PROVE  SinDuplicada'
  BY <1>2, MismaBiblioteca DEF Promesa!Cancelar, SinDuplicada, Restrict
<1>3. ASSUME NEW i \in DOMAIN reserva, NEW w, Promesa!Mover(i, w)
      PROVE  SinDuplicada'
  <2>1. /\ DOMAIN reserva' = DOMAIN reserva
        /\ reserva'[i] = [usuario |-> reserva[i].usuario, servicio |-> w]
        /\ \A j \in DOMAIN reserva \ {i} : reserva'[j] = reserva[j]
    BY <1>3 DEF Promesa!Mover, TypeOK, TipoTablas
  <2>2. \A j \in DOMAIN reserva : reserva[j] # [usuario |-> reserva[i].usuario, servicio |-> w]
    BY <1>3 DEF Promesa!Mover, Promesa!Admite
  <2> QED BY <2>1, <2>2 DEF SinDuplicada
<1>4. CASE UNCHANGED Promesa!tabla
  BY <1>4 DEF Promesa!tabla, SinDuplicada
<1> QED BY <1>1, <1>2, <1>3, <1>4 DEF Promesa!Next

\* With one server, a service never holds more reservations than its capacity.
THEOREM UnServidorSinSobrecupo ==
  ASSUME UnServidorSolo
  PROVE  Spec => []SinSobrecupo
<1>1. Init => SinSobrecupo
  <2> SUFFICES ASSUME Init, NEW v \in DOMAIN servicio
               PROVE  Cardinality(Ocupantes(v)) <= servicio[v].capacidad
    BY DEF SinSobrecupo
  <2>1. Ocupantes(v) = {} /\ servicio[v].capacidad \in Nat
    BY IdsAssumption DEF Init, Ocupantes, TablaVacia
  <2> QED BY <2>1, FS_EmptySet
<1>2. TypeOK /\ LecturasVigentes /\ SinSobrecupo /\ [Next]_vars => SinSobrecupo'
  BY PasoPromesa, CupoPaso
<1> QED BY <1>1, <1>2, TipoCorrecto, LecturasSiguenVigentes, PTL DEF Spec

\* With one server, a user never holds two reservations of one service.
THEOREM UnServidorSinDuplicada ==
  ASSUME UnServidorSolo
  PROVE  Spec => []SinDuplicada
<1>1. Init => SinDuplicada
  BY DEF Init, SinDuplicada, TablaVacia
<1>2. TypeOK /\ LecturasVigentes /\ SinDuplicada /\ [Next]_vars => SinDuplicada'
  BY PasoPromesa, DuplicadaPaso
<1> QED BY <1>1, <1>2, TipoCorrecto, LecturasSiguenVigentes, PTL DEF Spec

\* With one server, a reservation that enters a service finds a free place in it: a count that
\* fails and reads as 0 takes another program that commits.
THEOREM UnServidorEntraConCupo ==
  ASSUME UnServidorSolo
  PROVE  Spec => EntraConCupo
<1>1. SinSobrecupo' =>
        [\A v \in DOMAIN servicio' :
           Cardinality(Ocupantes(v)') > Cardinality(Ocupantes(v))
             => Cardinality(Ocupantes(v)') <= servicio'[v].capacidad]_vars
  BY DEF SinSobrecupo
<1> QED BY <1>1, UnServidorSinSobrecupo, PTL DEF EntraConCupo
=============================================================================
