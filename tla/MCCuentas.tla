----------------------------- MODULE MCCuentas -----------------------------
(* Instances of Cuentas for TLC.                                          *)
EXTENDS Cuentas

CONSTANTS d1, d2, c1, c2, ana, gil

MCDnis == {<<d1>>, <<d2>>}

MCTextos == {d1, d2, ana, gil}

\* The registration of a person called n.
Persona(n, d, c) == [nombre |-> n, apellido |-> <<gil>>, dni |-> d, clave |-> c]

\* One name is "ana|ana", and another is a '|'.
MCRegistros == {Persona(<<ana>>, <<d1>>, c2), Persona(<<ana>>, <<d2>>, c1),
                Persona(<<ana, ana>>, <<d2>>, c1), Persona(<<Blanco, Blanco>>, <<d2>>, c1)}

\* Also with the DNI "gil|d2", and with a '|'.
MCEntradas == {[dni |-> <<d1>>, clave |-> c1], [dni |-> <<d2>>, clave |-> c1],
               [dni |-> <<gil, d2>>, clave |-> c1], [dni |-> <<Blanco, Blanco>>, clave |-> c1]}

MCInicial == [d \in {<<d1>>} |-> [id |-> 0, clave |-> c1]]

MCDefecto == [dni |-> <<d1>>, clave |-> c1, max |-> 1]

MCTecleadas == {[dni |-> <<d1>>, clave |-> c1], [dni |-> <<d2>>, clave |-> c2]}

\* All of the configuration, and a password and a number left blank.
MCEdiciones == {[dni |-> <<d2>>, clave |-> c2, max |-> 2],
                [dni |-> <<d1>>, clave |-> Blanco, max |-> Blanco]}
=============================================================================
