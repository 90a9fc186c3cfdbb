------------------------------- MODULE Canal -------------------------------
(* What a caller of SocketClient::recibir counts on: messages come whole,  *)
(* each once and in the order they were sent; a cut may lose the last ones.*)
EXTENDS Sequences, Integers

CONSTANT Mensajes

VARIABLES enviados, entregados

Init == enviados = <<>> /\ entregados = <<>>

Envia == \E m \in Mensajes : enviados' = Append(enviados, m) /\ UNCHANGED entregados

Entrega == /\ Len(entregados) < Len(enviados)
           /\ entregados' = Append(entregados, enviados[Len(entregados) + 1])
           /\ UNCHANGED enviados

Next == Envia \/ Entrega

Spec == Init /\ [][Next]_<<enviados, entregados>>
=============================================================================
