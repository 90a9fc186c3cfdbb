----------------------------- MODULE Peticiones -----------------------------
(***************************************************************************)
(* What a client may rely on: a request is executed at most once, changes  *)
(* the reservations only as it says, and while the connection lasts the    *)
(* client reports what happened.  Once the connection is lost a change may *)
(* have happened without the client learning of it, but a success it       *)
(* reports is true.                                                        *)
(***************************************************************************)
EXTENDS Integers, Functions

VARIABLES peticion,   \* the latest request that left the client
          espera,     \* the client is waiting for its outcome
          hecha,      \* its outcome: "no" (none yet), "exito" or "error"
          dicho,      \* what the client last reported: "nada", "exito" or "error"
          reserva,    \* the reservations, id -> [usuario, servicio]
          enlace,     \* the connection stands
          libre       \* no request has been left half sent

estado == <<peticion, espera, hecha, dicho, reserva, enlace, libre>>

Consultas == {"LOGIN", "REGISTER", "LOGOUT", "GET_RESERVA", "GET_SERVICIOS"}

Init == /\ espera = FALSE /\ hecha = "no" /\ dicho = "nada"
        /\ reserva = [i \in {} |-> i]
        /\ enlace = TRUE /\ libre = TRUE

\* What the request does to the reservations when it succeeds.
Efecto(p) ==
  \/ p.cmd \in Consultas /\ reserva' = reserva
  \/ /\ p.cmd = "CREATE_RESERVA"
     /\ \A i \in DOMAIN reserva : reserva[i] # [usuario |-> p.usuario, servicio |-> p.servicio]
     /\ \E i \in DOMAIN reserva' \ DOMAIN reserva :
          /\ Restrict(reserva', DOMAIN reserva' \ {i}) = reserva
          /\ reserva'[i] = [usuario |-> p.usuario, servicio |-> p.servicio]
  \/ /\ p.reserva \in DOMAIN reserva /\ reserva[p.reserva].usuario = p.usuario
     /\ \/ p.cmd = "CANCEL_RESERVA" /\ reserva' = Restrict(reserva, DOMAIN reserva \ {p.reserva})
        \/ p.cmd = "UPDATE_RESERVA" /\ reserva' = [reserva EXCEPT ![p.reserva].servicio = p.servicio]

Pide == /\ ~espera /\ espera' /\ hecha' = "no" /\ dicho' = "nada"
        /\ UNCHANGED <<reserva, enlace, libre>>

Ejecuta == /\ hecha = "no"
           /\ \/ hecha' = "exito" /\ Efecto(peticion)
              \/ hecha' = "error" /\ reserva' = reserva
           /\ UNCHANGED <<peticion, espera, dicho, enlace, libre>>

Informa == /\ espera /\ ~espera'
           /\ \/ hecha # "no" /\ dicho' = hecha
              \/ ~enlace /\ (dicho' = "exito" => peticion.cmd \in Consultas)
           /\ UNCHANGED <<peticion, hecha, reserva, enlace, libre>>

NoSale == /\ ~espera /\ ~enlace /\ dicho' = "error"
          /\ UNCHANGED <<peticion, espera, hecha, reserva, enlace, libre>>

\* The connection is cut, or one of the two programs ends.
Corta == /\ enlace' = FALSE /\ (espera' => espera)
         /\ UNCHANGED <<peticion, hecha, dicho, reserva, libre>>

\* A new client and a new server over the same reservations.
Reinicia == /\ ~enlace /\ enlace' /\ libre'
            /\ ~espera' /\ hecha' = "no" /\ dicho' = "nada"
            /\ UNCHANGED reserva

\* A request left half sent: nothing is promised on this connection any more.
Abandona == libre /\ ~libre' /\ reserva' = reserva
SinPromesa == ~libre /\ ~libre'

Next == \/ Pide \/ Ejecuta \/ Informa \/ NoSale \/ Corta
        \/ Reinicia \/ Abandona \/ SinPromesa

Spec == Init /\ [][Next]_estado
=============================================================================
