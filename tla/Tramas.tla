------------------------------- MODULE Tramas -------------------------------
(***************************************************************************)
(* Messages over the TCP connection.  Both ends put each message in a      *)
(* frame of FRAME_SIZE = BUFF_SIZE bytes filled up with zeros.  TCP carries*)
(* bytes: a recv returns some of those that have come, and only the client *)
(* repeats it until the frame is complete.  Here any message may follow    *)
(* any other; which ones do is in module Protocolo.                        *)
(***************************************************************************)
EXTENDS Integers, Sequences, SequencesExt, FiniteSets

CONSTANTS FRAME_SIZE,    \* bytes of a frame
          Longitudes,    \* lengths of the messages
          MaxMensajes    \* bound: messages in each direction

ASSUME TamanoAssumption == FRAME_SIZE \in Nat \ {0, 1}
ASSUME LimitesAssumption == Longitudes \subseteq Nat \ {0} /\ MaxMensajes \in Nat

VARIABLES
  enlace,       \* "vivo" or "cortado"
  \* From the client to the server
  mensajesC,    \* the messages given to enviar
  porEnviar,    \* the bytes of the frame enviar has not sent yet
  aServidor,    \* the bytes on the way
  escucha,      \* the server is in its loop
  leidosS,      \* the strings the server has read
  troceada,     \* history: some recv returned less or more than a frame
  \* From the server to the client
  mensajesS,    \* the messages given to svc_send and its like
  aCliente,
  conectado,    \* SocketClient::_conectado
  leyendo,      \* the client is in recibir
  buffer,       \* the bytes recibir has read
  leidosC       \* the messages recibir has returned

ida    == <<mensajesC, porEnviar, aServidor, escucha, leidosS, troceada>>
vuelta == <<mensajesS, aCliente, leyendo, buffer, leidosC>>
vars   == <<enlace, conectado, ida, vuelta>>

-----------------------------------------------------------------------------
(* Bytes: the i-th character of the k-th message, or the zero character.    *)

Cero == [mensaje |-> 0, pos |-> 0]

Texto(k, l) == [i \in 1 .. l |-> [mensaje |-> k, pos |-> i]]

\* A message as long as the frame, or longer, is cut to leave one zero.
Cabe(l) == IF l >= FRAME_SIZE THEN FRAME_SIZE - 1 ELSE l

\* Mutant: `>' for `>=', and the whole frame is filled.
Trama_SinCero(k, l) ==
  LET c == IF l > FRAME_SIZE THEN FRAME_SIZE ELSE l IN
  Texto(k, c) \o [i \in 1 .. FRAME_SIZE - c |-> Cero]

\* Mutant: the first version of enviar, which sent mensaje.size() bytes.
Trama_SinRelleno(k, l) == Texto(k, Cabe(l))

Trama(k, l) == Texto(k, Cabe(l)) \o [i \in 1 .. FRAME_SIZE - Cabe(l) |-> Cero]

\* What a C string in a buffer is: the bytes before the first zero.  The buffers are
\* cleared before they are filled.
Cadena(bytes) ==
  LET fin == CHOOSE n \in 0 .. Len(bytes) :
               /\ \A i \in 1 .. n : bytes[i] # Cero
               /\ n < Len(bytes) => bytes[n + 1] = Cero
  IN SubSeq(bytes, 1, fin)

Prefijo(s, n) == SubSeq(s, 1, n)
Resto(s, n)   == SubSeq(s, n + 1, Len(s))

-----------------------------------------------------------------------------
(* From the client to the server                                            *)

enviar ==
  /\ conectado /\ ~leyendo /\ porEnviar = <<>> /\ Len(mensajesC) < MaxMensajes
  /\ \E l \in Longitudes :
       /\ mensajesC' = Append(mensajesC, l)
       /\ porEnviar' = Trama(Len(mensajesC'), l)
  /\ UNCHANGED <<enlace, conectado, aServidor, escucha, leidosS, troceada, vuelta>>

\* send may take a part of what it is given; enviar goes on with the rest.
EnviaTrozo ==
  /\ porEnviar # <<>> /\ enlace = "vivo"
  /\ \E n \in 1 .. Len(porEnviar) :
       /\ aServidor' = aServidor \o Prefijo(porEnviar, n)
       /\ porEnviar' = Resto(porEnviar, n)
  /\ UNCHANGED <<enlace, conectado, mensajesC, escucha, leidosS, troceada, vuelta>>

EnvioFallido ==
  /\ porEnviar # <<>> /\ enlace = "cortado"
  /\ porEnviar' = <<>> /\ conectado' = FALSE
  /\ UNCHANGED <<enlace, mensajesC, aServidor, escucha, leidosS, troceada, vuelta>>

\* One recv of the server: whatever has come, up to the size of its buffer, is taken for
\* a message.
RecibeServidor ==
  /\ escucha /\ aServidor # <<>>
  /\ \E n \in 1 .. Len(aServidor) :
       /\ n <= FRAME_SIZE
       /\ leidosS' = Append(leidosS, Cadena(Prefijo(aServidor, n)))
       /\ aServidor' = Resto(aServidor, n)
       /\ troceada' = (troceada \/ n # FRAME_SIZE)
  /\ UNCHANGED <<enlace, conectado, mensajesC, porEnviar, escucha, vuelta>>

ServidorTermina ==
  /\ escucha /\ aServidor = <<>> /\ enlace = "cortado"
  /\ escucha' = FALSE
  /\ UNCHANGED <<enlace, conectado, mensajesC, porEnviar, aServidor, leidosS, troceada, vuelta>>

-----------------------------------------------------------------------------
(* From the server to the client                                            *)

\* The server sends a frame with one send, whose result nobody looks at.
EnviaServidor ==
  /\ escucha /\ Len(mensajesS) < MaxMensajes
  /\ \E l \in Longitudes :
       /\ mensajesS' = Append(mensajesS, l)
       /\ aCliente' = IF enlace = "vivo" THEN aCliente \o Trama(Len(mensajesS'), l)
                                        ELSE aCliente
  /\ UNCHANGED <<enlace, conectado, ida, leyendo, buffer, leidosC>>

recibir ==
  /\ conectado /\ ~leyendo /\ porEnviar = <<>>
  /\ leyendo' = TRUE /\ buffer' = <<>>
  /\ UNCHANGED <<enlace, conectado, ida, mensajesS, aCliente, leidosC>>

\* Mutant: the first recv is taken for the frame.
RecibeTrozo_UnaVez ==
  /\ leyendo /\ aCliente # <<>>
  /\ \E n \in 1 .. Len(aCliente) :
       /\ n <= FRAME_SIZE
       /\ aCliente' = Resto(aCliente, n)
       /\ leidosC' = Append(leidosC, Cadena(Prefijo(aCliente, n)))
  /\ leyendo' = FALSE /\ buffer' = <<>>
  /\ UNCHANGED <<enlace, conectado, ida, mensajesS>>

\* Mutant: `<=' for `<' in the condition of the loop.
RecibeTrozo_UnoMas ==
  /\ leyendo /\ aCliente # <<>>
  /\ \E n \in 1 .. Len(aCliente) : LET b == buffer \o Prefijo(aCliente, n) IN
       /\ Len(b) <= FRAME_SIZE + 1
       /\ aCliente' = Resto(aCliente, n)
       /\ IF Len(b) <= FRAME_SIZE
          THEN buffer' = b /\ UNCHANGED <<leyendo, leidosC>>
          ELSE leyendo' = FALSE /\ buffer' = <<>> /\ leidosC' = Append(leidosC, Cadena(b))
  /\ UNCHANGED <<enlace, conectado, ida, mensajesS>>

\* One turn of the loop of recibir, which asks for no more than its frame lacks.
RecibeTrozo ==
  /\ leyendo /\ aCliente # <<>>
  /\ \E n \in 1 .. Len(aCliente) : LET b == buffer \o Prefijo(aCliente, n) IN
       /\ Len(b) <= FRAME_SIZE
       /\ aCliente' = Resto(aCliente, n)
       /\ IF Len(b) < FRAME_SIZE
          THEN buffer' = b /\ UNCHANGED <<leyendo, leidosC>>
          ELSE leyendo' = FALSE /\ buffer' = <<>> /\ leidosC' = Append(leidosC, Cadena(b))
  /\ UNCHANGED <<enlace, conectado, ida, mensajesS>>

\* recv returns 0, or an error: recibir returns "".
ReciboFallido ==
  /\ leyendo /\ aCliente = <<>> /\ enlace = "cortado"
  /\ leyendo' = FALSE /\ buffer' = <<>> /\ conectado' = FALSE
  /\ UNCHANGED <<enlace, ida, mensajesS, aCliente, leidosC>>

-----------------------------------------------------------------------------
\* The connection is cut; the bytes that had not come may be lost.
Corta ==
  /\ enlace = "vivo"
  /\ enlace' = "cortado"
  /\ \E n \in 0 .. Len(aServidor) : aServidor' = Prefijo(aServidor, n)
  /\ \E n \in 0 .. Len(aCliente) : aCliente' = Prefijo(aCliente, n)
  /\ UNCHANGED <<conectado, mensajesC, porEnviar, escucha, leidosS, troceada,
                 mensajesS, leyendo, buffer, leidosC>>

Init ==
  /\ enlace = "vivo" /\ conectado = TRUE /\ escucha = TRUE /\ troceada = FALSE
  /\ mensajesC = <<>> /\ porEnviar = <<>> /\ aServidor = <<>> /\ leidosS = <<>>
  /\ mensajesS = <<>> /\ aCliente = <<>> /\ leyendo = FALSE /\ buffer = <<>> /\ leidosC = <<>>

Ida    == enviar \/ EnviaTrozo \/ EnvioFallido \/ RecibeServidor \/ ServidorTermina
Vuelta == EnviaServidor \/ recibir \/ RecibeTrozo \/ ReciboFallido

Next == Ida \/ Vuelta \/ Corta

Spec == Init /\ [][Next]_vars

\* The loops of enviar and recibir go on as long as the socket lets them, and bytes that
\* have come stay until they are read.  Nothing is assumed of the connection.
FairSpec == Spec /\ WF_vars(EnviaTrozo \/ EnvioFallido) /\ WF_vars(RecibeTrozo \/ ReciboFallido)

-----------------------------------------------------------------------------
(* Properties                                                               *)

Bytes == {Cero} \cup [mensaje: 1 .. MaxMensajes, pos: 1 .. FRAME_SIZE]

\* Every variable has its type, and a partial frame is shorter than a frame.
TypeOK ==
  /\ enlace \in {"vivo", "cortado"}
  /\ {conectado, escucha, troceada, leyendo} \subseteq BOOLEAN
  /\ mensajesC \in Seq(Longitudes) /\ mensajesS \in Seq(Longitudes)
  /\ Len(mensajesC) <= MaxMensajes /\ Len(mensajesS) <= MaxMensajes
  /\ Range(porEnviar) \cup Range(aServidor) \cup Range(aCliente) \cup Range(buffer)
       \cup UNION {Range(leidosS[k]) : k \in DOMAIN leidosS} \subseteq Bytes
  /\ Len(porEnviar) <= FRAME_SIZE /\ Len(buffer) < FRAME_SIZE
  /\ leyendo => porEnviar = <<>>

\* What was sent, as the receiver is to read it.
Textos(ls) == [k \in DOMAIN ls |-> Texto(k, Cabe(ls[k]))]

\* recv may split the frames anywhere, and even then a string the server reads is a part
\* of a single message: the zeros between two texts keep them apart.
SinMezcla ==
  \A k \in DOMAIN leidosS : \E j \in DOMAIN mensajesC :
    LET t == Texto(j, Cabe(mensajesC[j])) IN
      \E a \in 1 .. Len(t) + 1, b \in 0 .. Len(t) : leidosS[k] = SubSeq(t, a, b)

\* The server's single recv reads the messages one by one as long as each recv returns
\* FRAME_SIZE bytes, in however many pieces the client sent them.
ServidorEnFase == ~troceada => IsPrefix(leidosS, Textos(mensajesC))

Cliente == INSTANCE Canal WITH Mensajes   <- {Texto(k, Cabe(l)) : k \in 1 .. MaxMensajes,
                                                                  l \in Longitudes},
                               enviados   <- Textos(mensajesS),
                               entregados <- leidosC

\* The client's recibir gives the messages whole, in order and each once, however TCP
\* splits them and wherever the connection is cut.
ClienteEnFase == Cliente!Spec

\* recibir returns once an answer has been sent or the connection is cut.
RecibirTermina ==
  leyendo /\ (Len(mensajesS) > Len(leidosC) \/ enlace = "cortado") ~> ~leyendo

=============================================================================
