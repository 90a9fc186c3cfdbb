------------------------------- MODULE Cupos -------------------------------
(***************************************************************************)
(* What the reservation commands promise, each as one atomic operation on  *)
(* the tables: a reservation is made, or moved, only into an existing      *)
(* service with a free place where its user holds none yet.                *)
(***************************************************************************)
EXTENDS Integers, FiniteSets, Functions

CONSTANTS Usuarios, IdServicio

VARIABLES servicio, reserva, seqReserva

tabla == <<servicio, reserva, seqReserva>>

Ocupantes(v) == {i \in DOMAIN reserva : reserva[i].servicio = v}

Admite(v, u) ==
  /\ v \in DOMAIN servicio
  /\ Cardinality(Ocupantes(v)) < servicio[v].capacidad
  /\ \A i \in DOMAIN reserva : reserva[i] # [usuario |-> u, servicio |-> v]

Init == /\ reserva = [i \in {} |-> i]
        /\ seqReserva = 0

Reservar(u, v) ==
  /\ Admite(v, u)
  /\ seqReserva' = seqReserva + 1
  /\ reserva' = [i \in DOMAIN reserva \cup {seqReserva'} |->
                   IF i = seqReserva' THEN [usuario |-> u, servicio |-> v] ELSE reserva[i]]
  /\ UNCHANGED servicio

Cancelar(i) ==
  /\ reserva' = Restrict(reserva, DOMAIN reserva \ {i})
  /\ UNCHANGED <<servicio, seqReserva>>

Mover(i, v) ==
  /\ Admite(v, reserva[i].usuario)
  /\ reserva' = [reserva EXCEPT ![i].servicio = v]
  /\ UNCHANGED <<servicio, seqReserva>>

Next == \/ \E u \in Usuarios, v \in IdServicio : Reservar(u, v)
        \/ \E i \in DOMAIN reserva :
             \/ Cancelar(i)
             \/ \E v \in IdServicio : Mover(i, v)

Spec == Init /\ [][Next]_tabla
=============================================================================
