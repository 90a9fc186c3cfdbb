---------------------------- MODULE TramasProofs ----------------------------
(***************************************************************************)
(* Theorems about Tramas, for frames of any size, any lengths of messages  *)
(* and any number of them.                                                 *)
(***************************************************************************)
EXTENDS Tramas, TLAPS, SequenceTheorems, FiniteSetTheorems, WellFoundedInduction

-----------------------------------------------------------------------------
(* The inductive invariants: Tipos, and with it each of the others          *)

\* The types as the proofs need them: what TypeOK says of ranges, of sequences.
Tipos ==
  /\ enlace \in {"vivo", "cortado"}
  /\ conectado \in BOOLEAN /\ escucha \in BOOLEAN /\ troceada \in BOOLEAN /\ leyendo \in BOOLEAN
  /\ mensajesC \in Seq(Longitudes) /\ Len(mensajesC) <= MaxMensajes
  /\ mensajesS \in Seq(Longitudes) /\ Len(mensajesS) <= MaxMensajes
  /\ porEnviar \in Seq(Bytes) /\ Len(porEnviar) <= FRAME_SIZE
  /\ aServidor \in Seq(Bytes) /\ leidosS \in Seq(Seq(Bytes))
  /\ aCliente \in Seq(Bytes) /\ leidosC \in Seq(Seq(Bytes))
  /\ buffer \in Seq(Bytes) /\ Len(buffer) < FRAME_SIZE
  /\ leyendo => porEnviar = <<>>
  /\ ~leyendo => buffer = <<>>

\* Byte i of frame k is at this position of the bytes that follow the first l frames.
Posicion(k, i, l) == (k - 1 - l) * FRAME_SIZE + i

\* The bytes of the messages ms after the first l.
Falta(ms, l) == (Len(ms) - l) * FRAME_SIZE

Alineado(s, ms, l) ==
  \A k \in 1 .. Len(ms), i \in 1 .. FRAME_SIZE :
    Posicion(k, i, l) \in 1 .. Len(s) => s[Posicion(k, i, l)] = Trama(k, ms[k])[i]

\* s is a beginning of the frames of ms that follow the first l.
Flujo(s, ms, l) == Len(s) <= Falta(ms, l) /\ Alineado(s, ms, l)

\* ... and, if the connection stands, all of them.
Entero(s, ms, l) == Flujo(s, ms, l) /\ Len(s) = Falta(ms, l)

ClienteInv ==
  /\ Flujo(buffer \o aCliente, mensajesS, Len(leidosC))
  /\ enlace = "vivo" => Entero(buffer \o aCliente, mensajesS, Len(leidosC))

Leidos == \A k \in 1 .. Len(leidosS) : leidosS[k] = Texto(k, Cabe(mensajesC[k]))

ServidorInv ==
  ~troceada =>
    /\ Leidos
    /\ Flujo(aServidor, mensajesC, Len(leidosS))
    /\ enlace = "vivo" => Entero(aServidor \o porEnviar, mensajesC, Len(leidosS))

\* Bytes with no zero between them are consecutive bytes of one message.
Corrida(s) ==
  \A m, n \in 1 .. Len(s) :
    m <= n /\ (\A i \in m .. n : s[i] # Cero) =>
      s[n] = [mensaje |-> s[m].mensaje, pos |-> s[m].pos + (n - m)]

DeMensajes(s, ms) ==
  \A n \in 1 .. Len(s) :
    s[n] # Cero => /\ s[n].mensaje \in 1 .. Len(ms)
                   /\ s[n].pos \in 1 .. Cabe(ms[s[n].mensaje])

Suelta(s, ms) == Corrida(s) /\ DeMensajes(s, ms) /\ (s # <<>> => ms # <<>>)

AcabaEnCero(s) == s # <<>> => s[Len(s)] = Cero

RachaInv ==
  /\ Suelta(aServidor, mensajesC)
  /\ enlace = "vivo" => /\ Suelta(aServidor \o porEnviar, mensajesC)
                        /\ AcabaEnCero(aServidor \o porEnviar)

-----------------------------------------------------------------------------
(* The bytes of a frame                                                     *)

LEMMA Tamano == FRAME_SIZE \in Nat /\ FRAME_SIZE > 1
BY TamanoAssumption

LEMMA CabeAlguno == \A l \in Longitudes : Cabe(l) \in Nat /\ Cabe(l) > 0 /\ Cabe(l) < FRAME_SIZE
BY Tamano, LimitesAssumption DEF Cabe

LEMMA Intervalos == \A a, b \in Nat : 1 .. a = 1 .. b => a = b
<1> SUFFICES ASSUME NEW a \in Nat, NEW b \in Nat, 1 .. a = 1 .. b, a # b PROVE FALSE
  OBVIOUS
<1>1. CASE a < b
  <2>1. b \in 1 .. b /\ b \notin 1 .. a  BY <1>1
  <2> QED  BY <2>1
<1>2. CASE b < a
  <2>1. a \in 1 .. a /\ a \notin 1 .. b  BY <1>2
  <2> QED  BY <2>1
<1> QED  BY <1>1, <1>2

\* A function on 1 .. n is a sequence of length n.
LEMMA FuncionEsSecuencia ==
  ASSUME NEW S, NEW n \in Nat, NEW f \in [1 .. n -> S]
  PROVE  f \in Seq(S) /\ Len(f) = n
<1>1. f \in Seq(S)  BY SeqDef
<1>2. Len(f) \in Nat /\ DOMAIN f = 1 .. Len(f)  BY <1>1, LenProperties
<1>3. 1 .. Len(f) = 1 .. n  BY <1>2
<1> QED  BY <1>1, <1>2, <1>3, Intervalos

\* Texto holds l bytes, none of them zero.
LEMMA DeTexto ==
  ASSUME NEW k \in 1 .. MaxMensajes, NEW l \in Nat, l <= FRAME_SIZE
  PROVE  /\ Texto(k, l) \in Seq(Bytes) /\ Len(Texto(k, l)) = l
         /\ \A i \in 1 .. l : Texto(k, l)[i] = [mensaje |-> k, pos |-> i]
<1>1. \A i \in 1 .. l : [mensaje |-> k, pos |-> i] \in Bytes
  BY Tamano DEF Bytes
<1>2. Texto(k, l) \in [1 .. l -> Bytes]
  BY <1>1, Zenon DEF Texto
<1>3. \A i \in 1 .. l : Texto(k, l)[i] = [mensaje |-> k, pos |-> i]
  BY Zenon DEF Texto
<1> QED  BY <1>2, <1>3, FuncionEsSecuencia, Zenon

LEMMA Ceros ==
  ASSUME NEW n \in Nat
  PROVE  LET z == [i \in 1 .. n |-> Cero] IN
         z \in Seq(Bytes) /\ Len(z) = n /\ \A i \in 1 .. n : z[i] = Cero
<1> DEFINE z == [i \in 1 .. n |-> Cero]
<1>1. Cero \in Bytes  BY Zenon DEF Bytes
<1>2. z \in [1 .. n -> Bytes]  BY <1>1, Zenon
<1>3. \A i \in 1 .. n : z[i] = Cero  BY Zenon
<1>4. z \in Seq(Bytes) /\ Len(z) = n  BY <1>2, FuncionEsSecuencia, Zenon
<1> QED  BY <1>3, <1>4, Zenon

\* No byte of a text is the zero.
LEMMA NoEsCero == \A k, i : k # 0 => [mensaje |-> k, pos |-> i] # Cero
BY DEF Cero

\* A frame is FRAME_SIZE bytes: those of the text, and at least one zero.
LEMMA DeTrama ==
  ASSUME NEW k \in 1 .. MaxMensajes, NEW l \in Longitudes
  PROVE  /\ Trama(k, l) \in Seq(Bytes) /\ Len(Trama(k, l)) = FRAME_SIZE
         /\ \A i \in 1 .. FRAME_SIZE :
              Trama(k, l)[i] = IF i <= Cabe(l) THEN [mensaje |-> k, pos |-> i] ELSE Cero
<1> DEFINE c == Cabe(l)  t == Texto(k, c)  z == [i \in 1 .. FRAME_SIZE - c |-> Cero]
<1>1. c \in Nat /\ c < FRAME_SIZE /\ FRAME_SIZE - c \in Nat /\ c <= FRAME_SIZE
      /\ FRAME_SIZE \in Nat /\ c + (FRAME_SIZE - c) = FRAME_SIZE
  BY Tamano, CabeAlguno
<1>2. Trama(k, l) = t \o z  BY Zenon DEF Trama
<1> HIDE DEF c
<1>3. t \in Seq(Bytes) /\ Len(t) = c /\ \A i \in 1 .. c : t[i] = [mensaje |-> k, pos |-> i]
  BY <1>1, DeTexto
<1>4. z \in Seq(Bytes) /\ Len(z) = FRAME_SIZE - c /\ \A i \in 1 .. FRAME_SIZE - c : z[i] = Cero
  BY <1>1, Ceros, Zenon
<1> HIDE DEF t, z
<1>5. t \o z \in Seq(Bytes) /\ Len(t \o z) = FRAME_SIZE
      /\ \A i \in 1 .. FRAME_SIZE : (t \o z)[i] = IF i <= c THEN t[i] ELSE z[i - c]
  <2>1. t \o z \in Seq(Bytes) /\ Len(t \o z) = Len(t) + Len(z)
        /\ \A i \in 1 .. Len(t) + Len(z) : (t \o z)[i] = IF i <= Len(t) THEN t[i] ELSE z[i - Len(t)]
    BY <1>3, <1>4, ConcatProperties, Zenon
  <2>2. Len(t) + Len(z) = FRAME_SIZE  BY <1>1, <1>3, <1>4
  <2>3. Len(t \o z) = FRAME_SIZE  BY <2>1, <2>2, Zenon
  <2>4. \A i \in 1 .. FRAME_SIZE : (t \o z)[i] = IF i <= Len(t) THEN t[i] ELSE z[i - Len(t)]
    BY <2>1, <2>2, Zenon
  <2> QED  BY <2>1, <2>3, <2>4, <1>3, Zenon
<1>6. \A i \in 1 .. FRAME_SIZE :
        (t \o z)[i] = IF i <= c THEN [mensaje |-> k, pos |-> i] ELSE Cero
  BY <1>1, <1>3, <1>4, <1>5
<1> QED  BY <1>2, <1>5, <1>6 DEF c

-----------------------------------------------------------------------------
(* Beginnings and rests of sequences, and the string in a buffer            *)

LEMMA DePrefijo ==
  ASSUME NEW S, NEW s \in Seq(S), NEW n \in 0 .. Len(s)
  PROVE  /\ Prefijo(s, n) \in Seq(S) /\ Len(Prefijo(s, n)) = n
         /\ \A i \in 1 .. n : Prefijo(s, n)[i] = s[i]
<1>1. Len(s) \in Nat  BY LenProperties
<1>2. \A i \in 1 .. n : s[i] \in S  BY <1>1, ElementOfSeq
<1>3. /\ SubSeq(s, 1, n) \in Seq(S)
      /\ Len(SubSeq(s, 1, n)) = IF 1 <= n THEN n - 1 + 1 ELSE 0
      /\ \A i \in 1 .. n - 1 + 1 : SubSeq(s, 1, n)[i] = s[1 + i - 1]
  BY <1>1, <1>2, SubSeqProperties
<1> QED  BY <1>1, <1>3 DEF Prefijo

LEMMA DeResto ==
  ASSUME NEW S, NEW s \in Seq(S), NEW n \in 0 .. Len(s)
  PROVE  /\ Resto(s, n) \in Seq(S) /\ Len(Resto(s, n)) = Len(s) - n
         /\ \A i \in 1 .. Len(s) - n : Resto(s, n)[i] = s[n + i]
<1>1. Len(s) \in Nat  BY LenProperties
<1>2. \A i \in n + 1 .. Len(s) : s[i] \in S  BY <1>1, ElementOfSeq
<1>3. /\ SubSeq(s, n + 1, Len(s)) \in Seq(S)
      /\ Len(SubSeq(s, n + 1, Len(s))) = IF n + 1 <= Len(s) THEN Len(s) - (n + 1) + 1 ELSE 0
      /\ \A i \in 1 .. Len(s) - (n + 1) + 1 : SubSeq(s, n + 1, Len(s))[i] = s[n + 1 + i - 1]
  BY <1>1, <1>2, SubSeqProperties
<1> QED  BY <1>1, <1>3 DEF Resto

LEMMA PartesDe ==
  ASSUME NEW S, NEW s \in Seq(S), NEW n \in 0 .. Len(s)
  PROVE  Prefijo(s, n) \o Resto(s, n) = s
<1> DEFINE p == Prefijo(s, n)  r == Resto(s, n)
<1>0. Len(s) \in Nat  BY LenProperties
<1>1. p \in Seq(S) /\ Len(p) = n /\ \A i \in 1 .. n : p[i] = s[i]  BY DePrefijo
<1>2. r \in Seq(S) /\ Len(r) = Len(s) - n /\ \A i \in 1 .. Len(s) - n : r[i] = s[n + i]
  BY DeResto
<1> HIDE DEF p, r
<1>3. p \o r \in Seq(S) /\ Len(p \o r) = Len(s)
      /\ \A i \in 1 .. Len(s) : (p \o r)[i] = IF i <= n THEN p[i] ELSE r[i - n]
  BY <1>0, <1>1, <1>2, ConcatProperties
<1>4. \A i \in 1 .. Len(s) : (p \o r)[i] = s[i]  BY <1>0, <1>1, <1>2, <1>3
<1>5. p \o r = s  BY <1>3, <1>4, SeqEqual
<1> QED  BY <1>5 DEF p, r

\* A set of natural numbers has a least one.
LEMMA Menor ==
  ASSUME NEW T, T \subseteq Nat, T # {}
  PROVE  \E x \in T : \A y \in T : x <= y
<1> DEFINE H == {h \in SUBSET Nat : \E x \in T : h = 0 .. x}
<1>1. H \subseteq FiniteSubsetsOf(Nat)
  <2> SUFFICES ASSUME NEW x \in T PROVE 0 .. x \in FiniteSubsetsOf(Nat)  OBVIOUS
  <2>1. x \in Int /\ 0 \in Int /\ 0 .. x \in SUBSET Nat  OBVIOUS
  <2>2. IsFiniteSet(0 .. x)  BY <2>1, FS_Interval
  <2> QED  BY <2>1, <2>2 DEF FiniteSubsetsOf
<1>2. H # {}
  <2>1. PICK x \in T : TRUE  OBVIOUS
  <2>2. 0 .. x \in H  BY <2>1
  <2> QED  BY <2>2
<1>3. PICK h \in H : \A g \in H : ~ (<<g, h>> \in StrictSubsetOrdering(Nat))
  <2> HIDE DEF H
  <2> QED  BY <1>1, <1>2, FS_StrictSubsetOrderingWellFounded, WFMin
<1>4. PICK x \in T : h = 0 .. x  BY <1>3
<1>5. ASSUME NEW y \in T, ~ (x <= y) PROVE FALSE
  <2>1. x \in Nat /\ y \in Nat /\ y < x  BY <1>5
  <2>2. 0 .. y \in H  BY <2>1
  <2>3. 0 .. y \subseteq 0 .. x /\ x \in 0 .. x /\ x \notin 0 .. y  BY <2>1
  <2>4. 0 .. y # 0 .. x  BY <2>3
  <2>5. <<0 .. y, h>> \in StrictSubsetOrdering(Nat)
    BY <1>3, <1>4, <2>2, <2>3, <2>4 DEF StrictSubsetOrdering
  <2> QED  BY <1>3, <2>2, <2>5
<1> QED  BY <1>5

\* The end Cadena chooses is always there.
LEMMA HayFin ==
  ASSUME NEW s \in Seq(Bytes)
  PROVE  \E n \in 0 .. Len(s) : /\ \A i \in 1 .. n : s[i] # Cero
                                /\ n < Len(s) => s[n + 1] = Cero
<1> DEFINE T == {m \in Nat : m < Len(s) /\ s[m + 1] = Cero}
<1>0. Len(s) \in Nat  BY LenProperties
<1>1. CASE T = {}
  <2>1. \A m \in Nat : m < Len(s) => s[m + 1] # Cero  BY <1>1
  <2>2. ASSUME NEW i \in 1 .. Len(s) PROVE s[i] # Cero
    <3>1. i - 1 \in Nat /\ i - 1 < Len(s) /\ (i - 1) + 1 = i  BY <1>0
    <3> QED  BY <2>1, <3>1
  <2> QED  BY <1>0, <2>2
<1>2. CASE T # {}
  <2>1. PICK x \in T : \A y \in T : x <= y  BY <1>2, Menor
  <2>2. x \in 0 .. Len(s) /\ x \in Nat /\ s[x + 1] = Cero  BY <1>0, <2>1
  <2>3. ASSUME NEW i \in 1 .. x PROVE s[i] # Cero
    <3>1. i - 1 \in Nat /\ i - 1 < Len(s) /\ (i - 1) + 1 = i /\ ~ (x <= i - 1)  BY <1>0, <2>1, <2>2
    <3>2. i - 1 \notin T  BY <2>1, <3>1
    <3> QED  BY <3>1, <3>2
  <2> QED  BY <2>2, <2>3
<1> QED  BY <1>1, <1>2

LEMMA DeCadena ==
  ASSUME NEW s \in Seq(Bytes)
  PROVE  \E n \in 0 .. Len(s) : /\ Cadena(s) = Prefijo(s, n)
                                /\ \A i \in 1 .. n : s[i] # Cero
                                /\ n < Len(s) => s[n + 1] = Cero
<1> DEFINE P(n) == /\ \A i \in 1 .. n : s[i] # Cero
                   /\ n < Len(s) => s[n + 1] = Cero
           fin == CHOOSE n \in 0 .. Len(s) : P(n)
<1>1. \E n \in 0 .. Len(s) : P(n)  BY HayFin
<1>2. fin \in 0 .. Len(s) /\ P(fin)  BY <1>1, Zenon
<1>3. Cadena(s) = Prefijo(s, fin)  BY Zenon DEF Cadena, Prefijo
<1> QED  BY <1>2, <1>3, Zenon

\* The string in a whole frame is its text.
LEMMA CadenaDeTrama ==
  ASSUME NEW k \in 1 .. MaxMensajes, NEW l \in Longitudes
  PROVE  Cadena(Trama(k, l)) = Texto(k, Cabe(l))
<1> DEFINE c == Cabe(l)  s == Trama(k, l)  t == Texto(k, c)
<1>1. c \in Nat /\ c < FRAME_SIZE /\ c <= FRAME_SIZE /\ FRAME_SIZE \in Nat  BY Tamano, CabeAlguno
<1>2. s \in Seq(Bytes) /\ Len(s) = FRAME_SIZE
      /\ \A i \in 1 .. FRAME_SIZE : s[i] = IF i <= c THEN [mensaje |-> k, pos |-> i] ELSE Cero
  BY DeTrama
<1>3. t \in Seq(Bytes) /\ Len(t) = c /\ \A i \in 1 .. c : t[i] = [mensaje |-> k, pos |-> i]
  BY <1>1, DeTexto
<1> HIDE DEF s, t, c
<1>4. PICK n \in 0 .. Len(s) : /\ Cadena(s) = Prefijo(s, n)
                               /\ \A i \in 1 .. n : s[i] # Cero
                               /\ n < Len(s) => s[n + 1] = Cero
  BY <1>2, DeCadena
<1>5. n <= c
  <2> SUFFICES ASSUME ~ (n <= c) PROVE FALSE  OBVIOUS
  <2>1. c + 1 \in 1 .. n /\ c + 1 \in 1 .. FRAME_SIZE /\ ~ (c + 1 <= c)  BY <1>1, <1>2, <1>4
  <2> QED  BY <1>2, <1>4, <2>1
<1>6. n >= c
  <2> SUFFICES ASSUME n < c PROVE FALSE  BY <1>1, <1>4
  <2>1. n + 1 \in 1 .. FRAME_SIZE /\ n + 1 <= c /\ n < Len(s)  BY <1>1, <1>2, <1>4
  <2>2. s[n + 1] = Cero /\ s[n + 1] = [mensaje |-> k, pos |-> n + 1]  BY <1>2, <1>4, <2>1
  <2> QED  BY <2>2, NoEsCero
<1>7. n = c  BY <1>1, <1>4, <1>5, <1>6
<1>8. Prefijo(s, n) \in Seq(Bytes) /\ Len(Prefijo(s, n)) = c
      /\ \A i \in 1 .. c : Prefijo(s, n)[i] = s[i]
  BY <1>2, <1>4, <1>7, DePrefijo
<1>9. \A i \in 1 .. c : Prefijo(s, n)[i] = t[i]  BY <1>1, <1>2, <1>3, <1>8
<1>10. Prefijo(s, n) = t  BY <1>3, <1>8, <1>9, SeqEqual
<1> QED  BY <1>4, <1>10 DEF s, t, c

-----------------------------------------------------------------------------
(* Beginnings of the frames of a list of messages                           *)

LEMMA PorTamano ==
  /\ \A a \in Int : a * FRAME_SIZE \in Int /\ (a + 1) * FRAME_SIZE = a * FRAME_SIZE + FRAME_SIZE
                    /\ (a - 1) * FRAME_SIZE = a * FRAME_SIZE - FRAME_SIZE
  /\ \A a, b \in Int : a <= b => a * FRAME_SIZE <= b * FRAME_SIZE
  /\ \A a \in Int : 0 <= a * FRAME_SIZE => 0 <= a
  /\ 0 * FRAME_SIZE = 0 /\ 1 * FRAME_SIZE = FRAME_SIZE
<1> DEFINE F == FRAME_SIZE
<1>0. F \in Nat /\ F > 1  BY Tamano
<1> HIDE DEF F
<1>1. \A a \in Int : a * F \in Int /\ (a + 1) * F = a * F + F /\ (a - 1) * F = a * F - F
  BY <1>0
<1>2. ASSUME NEW a \in Int, NEW b \in Int, a <= b PROVE a * F <= b * F
  <2>1. (b - a) * F >= 0  BY <1>0, <1>2
  <2>2. (b - a) * F = b * F - a * F  BY <1>0
  <2> QED  BY <1>0, <2>1, <2>2
<1>3. ASSUME NEW a \in Int, 0 <= a * F, ~ (0 <= a) PROVE FALSE
  <2>1. a + 1 <= 0  BY <1>3
  <2>2. (a + 1) * F <= 0 * F  BY <1>2, <2>1
  <2>3. a * F \in Int /\ (a + 1) * F = a * F + F /\ 0 * F = 0  BY <1>0, <1>1
  <2> QED  BY <1>0, <1>3, <2>2, <2>3
<1>4. 0 * F = 0 /\ 1 * F = F  BY <1>0
<1> QED  BY <1>1, <1>2, <1>3, <1>4 DEF F

\* The positions of frame k follow those of the frame before it.
LEMMA DePosicion ==
  ASSUME NEW k \in Nat, NEW l \in Nat, NEW i \in 1 .. FRAME_SIZE
  PROVE  /\ Posicion(k, i, l) \in Int
         /\ Posicion(k, i, l) <= (k - l) * FRAME_SIZE
         /\ Posicion(k, i, l) > (k - 1 - l) * FRAME_SIZE
         /\ Posicion(k, i, l + 1) = Posicion(k, i, l) - FRAME_SIZE
<1> DEFINE a == k - 1 - l
<1>1. a \in Int /\ k - l = a + 1 /\ k - 1 - (l + 1) = a - 1  OBVIOUS
<1>2. Posicion(k, i, l) = a * FRAME_SIZE + i  BY DEF Posicion
<1>3. Posicion(k, i, l + 1) = (k - 1 - (l + 1)) * FRAME_SIZE + i  BY DEF Posicion
<1>4. Posicion(k, i, l + 1) = (a - 1) * FRAME_SIZE + i  BY <1>1, <1>3
<1> HIDE DEF a
<1>5. a * FRAME_SIZE \in Int /\ (a + 1) * FRAME_SIZE = a * FRAME_SIZE + FRAME_SIZE
      /\ (a - 1) * FRAME_SIZE = a * FRAME_SIZE - FRAME_SIZE
  BY <1>1, PorTamano
<1>6. (k - l) * FRAME_SIZE = a * FRAME_SIZE + FRAME_SIZE  BY <1>1, <1>5
<1>7. (k - 1 - l) * FRAME_SIZE = a * FRAME_SIZE  BY DEF a
<1> QED  BY <1>2, <1>4, <1>5, <1>6, <1>7, Tamano

\* A beginning of a beginning.
LEMMA FlujoMenor ==
  ASSUME NEW s \in Seq(Bytes), NEW t \in Seq(Bytes), NEW ms \in Seq(Longitudes), NEW l \in Nat,
         Len(t) <= Len(s), \A n \in 1 .. Len(t) : t[n] = s[n], Flujo(s, ms, l)
  PROVE  Flujo(t, ms, l)
<1>1. Len(s) \in Nat /\ Len(t) \in Nat /\ Len(ms) \in Nat  BY LenProperties
<1>2. Falta(ms, l) \in Int
  <2>1. Len(ms) - l \in Int  BY <1>1
  <2> QED  BY <2>1, PorTamano DEF Falta
<1>3. Len(t) <= Falta(ms, l)  BY <1>1, <1>2 DEF Flujo
<1>4. Alineado(t, ms, l)
  <2> SUFFICES ASSUME NEW k \in 1 .. Len(ms), NEW i \in 1 .. FRAME_SIZE,
                      Posicion(k, i, l) \in 1 .. Len(t)
               PROVE  t[Posicion(k, i, l)] = Trama(k, ms[k])[i]
    BY DEF Alineado
  <2> DEFINE n == Posicion(k, i, l)
  <2>1. n \in 1 .. Len(s)  BY <1>1
  <2>2. s[n] = Trama(k, ms[k])[i]  BY <2>1 DEF Flujo, Alineado
  <2> QED  BY <2>2
<1> QED  BY <1>3, <1>4 DEF Flujo

\* One message more does not disturb the bytes that are there.
LEMMA FlujoCrece ==
  ASSUME NEW s \in Seq(Bytes), NEW ms \in Seq(Longitudes), NEW l \in Nat, NEW x \in Longitudes,
         Flujo(s, ms, l)
  PROVE  Flujo(s, Append(ms, x), l)
<1> DEFINE ns == Append(ms, x)
<1>1. Len(s) \in Nat /\ Len(ms) \in Nat  BY LenProperties
<1>2. ns \in Seq(Longitudes) /\ Len(ns) = Len(ms) + 1 /\ (\A k \in 1 .. Len(ms) : ns[k] = ms[k])
  BY AppendProperties
<1> HIDE DEF ns
<1>3. Len(s) <= (Len(ms) - l) * FRAME_SIZE  BY DEF Flujo, Falta
<1>4. (Len(ms) - l) * FRAME_SIZE \in Int /\ Len(ms) - l <= Len(ns) - l
      /\ (Len(ms) - l) * FRAME_SIZE <= (Len(ns) - l) * FRAME_SIZE
      /\ (Len(ns) - l) * FRAME_SIZE \in Int
  <2>1. Len(ms) - l \in Int /\ Len(ns) - l \in Int /\ Len(ms) - l <= Len(ns) - l  BY <1>1, <1>2
  <2> QED  BY <2>1, PorTamano
<1>5. Len(s) <= Falta(ns, l)  BY <1>1, <1>3, <1>4 DEF Falta
<1>6. Alineado(s, ns, l)
  <2> SUFFICES ASSUME NEW k \in 1 .. Len(ns), NEW i \in 1 .. FRAME_SIZE,
                      Posicion(k, i, l) \in 1 .. Len(s)
               PROVE  s[Posicion(k, i, l)] = Trama(k, ns[k])[i]
    BY DEF Alineado
  <2>1. CASE k \in 1 .. Len(ms)
    BY <1>2, <2>1 DEF Flujo, Alineado
  <2>2. CASE k = Len(ms) + 1
    <3>1. k \in Nat /\ k - 1 - l = Len(ms) - l  BY <1>1, <2>2
    <3>2. Posicion(k, i, l) \in Int /\ Posicion(k, i, l) > (k - 1 - l) * FRAME_SIZE
      BY <3>1, DePosicion
    <3>3. Posicion(k, i, l) > (Len(ms) - l) * FRAME_SIZE  BY <3>1, <3>2
    <3>4. ~ (Posicion(k, i, l) <= Len(s))  BY <1>1, <1>3, <1>4, <3>2, <3>3
    <3> QED  BY <1>1, <3>4
  <2> QED  BY <1>1, <1>2, <2>1, <2>2
<1> QED  BY <1>5, <1>6 DEF Flujo, ns

\* All the bytes, and the frame of one message more.
LEMMA EnteroMas ==
  ASSUME NEW s \in Seq(Bytes), NEW ms \in Seq(Longitudes), NEW l \in Nat, NEW x \in Longitudes,
         Len(ms) < MaxMensajes, Entero(s, ms, l)
  PROVE  Entero(s \o Trama(Len(ms) + 1, x), Append(ms, x), l)
<1> DEFINE ns == Append(ms, x)  t == Trama(Len(ms) + 1, x)  r == s \o t
<1>1. Len(s) \in Nat /\ Len(ms) \in Nat /\ MaxMensajes \in Nat
      /\ Len(ms) + 1 \in 1 .. MaxMensajes
  BY LenProperties, LimitesAssumption
<1>2. ns \in Seq(Longitudes) /\ Len(ns) = Len(ms) + 1 /\ (\A k \in 1 .. Len(ms) : ns[k] = ms[k])
      /\ ns[Len(ms) + 1] = x
  BY AppendProperties
<1>3. t \in Seq(Bytes) /\ Len(t) = FRAME_SIZE  BY <1>1, DeTrama, Zenon
<1> HIDE DEF ns, t
<1>4. r \in Seq(Bytes) /\ Len(r) = Len(s) + Len(t)
      /\ \A n \in 1 .. Len(s) + Len(t) : r[n] = IF n <= Len(s) THEN s[n] ELSE t[n - Len(s)]
  BY <1>3, ConcatProperties, Zenon
<1> HIDE DEF r
<1> DEFINE A == (Len(ms) - l) * FRAME_SIZE
<1>5. Len(s) = A  BY DEF Entero, Falta
<1>6. (Len(ns) - l) * FRAME_SIZE = A + FRAME_SIZE
  <2>1. Len(ms) - l \in Int /\ Len(ns) - l = (Len(ms) - l) + 1  BY <1>1, <1>2
  <2>2. ((Len(ms) - l) + 1) * FRAME_SIZE = A + FRAME_SIZE  BY <2>1, PorTamano
  <2> QED  BY <2>1, <2>2
<1>7. Len(r) = Falta(ns, l)  BY <1>3, <1>4, <1>5, <1>6 DEF Falta
<1>8. ASSUME NEW k \in 1 .. Len(ns), NEW i \in 1 .. FRAME_SIZE,
             Posicion(k, i, l) \in 1 .. Len(r)
      PROVE  r[Posicion(k, i, l)] = Trama(k, ns[k])[i]
  <2> DEFINE n == Posicion(k, i, l)
  <2>0. k \in Nat  BY <1>1, <1>2
  <2>1. CASE k \in 1 .. Len(ms)
    <3>1. n \in Int /\ n <= (k - l) * FRAME_SIZE  BY <2>0, DePosicion
    <3>2. (k - l) * FRAME_SIZE <= A /\ (k - l) * FRAME_SIZE \in Int /\ A \in Int
      <4>1. k - l \in Int /\ Len(ms) - l \in Int /\ k - l <= Len(ms) - l  BY <1>1, <2>0, <2>1
      <4> QED  BY <4>1, PorTamano
    <3>3. n <= A /\ n >= 1
      <4> HIDE DEF A, n
      <4>1. n >= 1  BY <1>8 DEF n
      <4> QED  BY <3>1, <3>2, <4>1
    <3>4. n \in 1 .. Len(s) /\ n \in 1 .. Len(s) + Len(t) /\ n <= Len(s)
      <4> HIDE DEF A, n
      <4> QED  BY <1>1, <1>3, <1>5, <3>1, <3>3, Tamano
    <3>5. s[n] = Trama(k, ms[k])[i]  BY <2>1, <3>4 DEF Entero, Flujo, Alineado
    <3>6. r[n] = s[n]
      <4> HIDE DEF n
      <4> QED  BY <1>4, <3>4
    <3> QED  BY <1>2, <2>1, <3>5, <3>6
  <2>2. CASE k = Len(ms) + 1
    <3>1. n = A + i
      <4>1. k - 1 - l = Len(ms) - l  BY <1>1, <2>2
      <4> QED  BY <4>1 DEF Posicion
    <3>2. A \in Int
      <4>1. Len(ms) - l \in Int  BY <1>1
      <4> QED  BY <4>1, PorTamano
    <3>3. r[n] = t[i]
      <4> HIDE DEF A, n
      <4>1. n \in 1 .. Len(s) + Len(t) /\ ~ (n <= Len(s)) /\ n - Len(s) = i
        BY <1>1, <1>3, <1>5, <3>1, <3>2, Tamano
      <4> QED  BY <1>4, <4>1
    <3>4. t = Trama(k, ns[k])  BY <1>2, <2>2 DEF t
    <3> QED  BY <3>3, <3>4
  <2> QED  BY <1>1, <1>2, <2>1, <2>2
<1>9. Alineado(r, ns, l)  BY <1>8 DEF Alineado
<1>10. Len(r) <= Falta(ns, l)
  <2>1. Len(r) \in Nat  BY <1>4, LenProperties
  <2> QED  BY <1>7, <2>1
<1> QED  BY <1>7, <1>9, <1>10 DEF Entero, Flujo, r, ns, t

\* A beginning as long as a frame is the next frame, and what follows it a beginning of the rest.
LEMMA FlujoTrama ==
  ASSUME NEW s \in Seq(Bytes), NEW ms \in Seq(Longitudes), NEW l \in Nat,
         Len(ms) <= MaxMensajes, Len(s) >= FRAME_SIZE, Flujo(s, ms, l)
  PROVE  /\ l + 1 \in 1 .. Len(ms)
         /\ Prefijo(s, FRAME_SIZE) = Trama(l + 1, ms[l + 1])
         /\ Flujo(Resto(s, FRAME_SIZE), ms, l + 1)
         /\ Entero(s, ms, l) => Entero(Resto(s, FRAME_SIZE), ms, l + 1)
<1> DEFINE p == Prefijo(s, FRAME_SIZE)  r == Resto(s, FRAME_SIZE)  A == Falta(ms, l)
<1>1. Len(s) \in Nat /\ Len(ms) \in Nat /\ FRAME_SIZE \in Nat /\ FRAME_SIZE > 1
      /\ FRAME_SIZE \in 0 .. Len(s) /\ MaxMensajes \in Nat
  BY LenProperties, Tamano, LimitesAssumption
<1>2. A \in Int /\ Falta(ms, l + 1) = A - FRAME_SIZE
      /\ (Len(ms) - (l + 1)) * FRAME_SIZE = A - FRAME_SIZE
  <2>1. Len(ms) - l \in Int /\ Len(ms) - (l + 1) = (Len(ms) - l) - 1  BY <1>1
  <2>2. ((Len(ms) - l) - 1) * FRAME_SIZE = A - FRAME_SIZE /\ A \in Int
    BY <2>1, PorTamano DEF Falta
  <2>3. Falta(ms, l + 1) = (Len(ms) - (l + 1)) * FRAME_SIZE  BY DEF Falta
  <2> QED  BY <2>1, <2>2, <2>3
<1>3. Len(s) <= A  BY DEF Flujo
<1> HIDE DEF A
<1>4. l + 1 \in 1 .. Len(ms)
  <2>1. 0 <= A - FRAME_SIZE  BY <1>1, <1>2, <1>3
  <2>2. Len(ms) - (l + 1) \in Int /\ 0 <= (Len(ms) - (l + 1)) * FRAME_SIZE  BY <1>1, <1>2, <2>1
  <2>3. 0 <= Len(ms) - (l + 1)  BY <2>2, PorTamano
  <2> QED  BY <1>1, <2>3
<1>5. p \in Seq(Bytes) /\ Len(p) = FRAME_SIZE /\ \A i \in 1 .. FRAME_SIZE : p[i] = s[i]
  BY <1>1, DePrefijo
<1>6. r \in Seq(Bytes) /\ Len(r) = Len(s) - FRAME_SIZE
      /\ \A n \in 1 .. Len(s) - FRAME_SIZE : r[n] = s[FRAME_SIZE + n]
  BY <1>1, DeResto
<1> HIDE DEF p, r
<1>7. p = Trama(l + 1, ms[l + 1])
  <2> DEFINE t == Trama(l + 1, ms[l + 1])
  <2>1. l + 1 \in 1 .. MaxMensajes /\ ms[l + 1] \in Longitudes
    BY <1>1, <1>4, ElementOfSeq
  <2>2. t \in Seq(Bytes) /\ Len(t) = FRAME_SIZE  BY <2>1, DeTrama
  <2>3. ASSUME NEW i \in 1 .. FRAME_SIZE PROVE p[i] = t[i]
    <3>1. (l + 1) - 1 - l = 0  OBVIOUS
    <3>2. Posicion(l + 1, i, l) = i
      <4>1. 0 * FRAME_SIZE = 0  BY PorTamano
      <4>2. Posicion(l + 1, i, l) = 0 + i  BY <3>1, <4>1, Zenon DEF Posicion
      <4> QED  BY <4>2, <1>1
    <3>3. i \in 1 .. Len(s)  BY <1>1
    <3>4. s[i] = t[i]  BY <1>4, <3>2, <3>3, Zenon DEF Flujo, Alineado
    <3> QED  BY <1>5, <3>4
  <2> HIDE DEF t
  <2>4. p = t  BY <1>5, <2>2, <2>3, SeqEqual
  <2> QED  BY <2>4 DEF t
<1>8. Len(r) <= Falta(ms, l + 1)  BY <1>1, <1>2, <1>3, <1>6
<1>9. Alineado(r, ms, l + 1)
  <2> SUFFICES ASSUME NEW k \in 1 .. Len(ms), NEW i \in 1 .. FRAME_SIZE,
                      Posicion(k, i, l + 1) \in 1 .. Len(r)
               PROVE  r[Posicion(k, i, l + 1)] = Trama(k, ms[k])[i]
    BY DEF Alineado
  <2> DEFINE n == Posicion(k, i, l)  m == Posicion(k, i, l + 1)
  <2>1. n \in Int /\ m = n - FRAME_SIZE  BY <1>1, DePosicion
  <2>2. m \in 1 .. Len(r)  OBVIOUS
  <2> HIDE DEF n, m
  <2>3. n \in 1 .. Len(s) /\ FRAME_SIZE + m = n /\ m \in 1 .. Len(s) - FRAME_SIZE
    BY <1>1, <1>6, <2>1, <2>2
  <2>4. r[m] = s[n]  BY <1>6, <2>3
  <2>5. s[n] = Trama(k, ms[k])[i]  BY <2>3, Zenon DEF Flujo, Alineado, n
  <2> QED  BY <2>4, <2>5 DEF m
<1>10. Entero(s, ms, l) => Len(r) = Falta(ms, l + 1)
  BY <1>1, <1>2, <1>6 DEF Entero, A
<1> QED  BY <1>4, <1>7, <1>8, <1>9, <1>10 DEF Flujo, Entero, p, r

-----------------------------------------------------------------------------
(* Type correctness                                                         *)

LEMMA TipoCadena == ASSUME NEW s \in Seq(Bytes) PROVE Cadena(s) \in Seq(Bytes)
<1>1. PICK n \in 0 .. Len(s) : Cadena(s) = Prefijo(s, n)  BY DeCadena
<1> QED  BY <1>1, DePrefijo

LEMMA Vacio == \A S : <<>> \in Seq(S) /\ Len(<<>>) = 0
BY EmptySeq

LEMMA TiposInit == Init => Tipos
<1>1. 0 <= MaxMensajes /\ 0 <= FRAME_SIZE /\ 0 < FRAME_SIZE  BY LimitesAssumption, Tamano
<1> QED  BY <1>1, Vacio DEF Init, Tipos

\* The message given to enviar, or to svc_send, and its frame.
LEMMA MensajeMas ==
  ASSUME NEW ms \in Seq(Longitudes), Len(ms) < MaxMensajes, NEW x \in Longitudes
  PROVE  /\ Append(ms, x) \in Seq(Longitudes) /\ Len(Append(ms, x)) = Len(ms) + 1
         /\ Len(ms) + 1 \in 1 .. MaxMensajes
         /\ \A k \in 1 .. Len(ms) : Append(ms, x)[k] = ms[k]
         /\ Append(ms, x)[Len(ms) + 1] = x
         /\ Trama(Len(ms) + 1, x) \in Seq(Bytes) /\ Len(Trama(Len(ms) + 1, x)) = FRAME_SIZE
<1>1. Len(ms) \in Nat /\ MaxMensajes \in Nat  BY LenProperties, LimitesAssumption
<1>2. Len(ms) + 1 \in 1 .. MaxMensajes  BY <1>1
<1>3. /\ Append(ms, x) \in Seq(Longitudes) /\ Len(Append(ms, x)) = Len(ms) + 1
      /\ \A k \in 1 .. Len(ms) : Append(ms, x)[k] = ms[k]
      /\ Append(ms, x)[Len(ms) + 1] = x
  BY AppendProperties
<1>4. Trama(Len(ms) + 1, x) \in Seq(Bytes) /\ Len(Trama(Len(ms) + 1, x)) = FRAME_SIZE
  BY <1>2, DeTrama, Zenon
<1> QED  BY <1>2, <1>3, <1>4

LEMMA TiposPaso == Tipos /\ [Next]_vars => Tipos'
<1> SUFFICES ASSUME Tipos, [Next]_vars PROVE Tipos'  OBVIOUS
<1>0. FRAME_SIZE \in Nat /\ FRAME_SIZE > 1 /\ MaxMensajes \in Nat  BY Tamano, LimitesAssumption
<1>1. CASE enviar
  <2>1. PICK x \in Longitudes : /\ mensajesC' = Append(mensajesC, x)
                                /\ porEnviar' = Trama(Len(mensajesC'), x)
    BY <1>1 DEF enviar
  <2>2. mensajesC \in Seq(Longitudes) /\ Len(mensajesC) < MaxMensajes  BY <1>1 DEF Tipos, enviar
  <2>3. mensajesC' \in Seq(Longitudes) /\ Len(mensajesC') = Len(mensajesC) + 1
        /\ Len(mensajesC') \in 1 .. MaxMensajes
        /\ porEnviar' \in Seq(Bytes) /\ Len(porEnviar') = FRAME_SIZE
    <3>1. /\ Append(mensajesC, x) \in Seq(Longitudes)
          /\ Len(Append(mensajesC, x)) = Len(mensajesC) + 1
          /\ Len(mensajesC) + 1 \in 1 .. MaxMensajes
          /\ Trama(Len(mensajesC) + 1, x) \in Seq(Bytes)
          /\ Len(Trama(Len(mensajesC) + 1, x)) = FRAME_SIZE
      BY <2>2, MensajeMas
    <3> QED  BY <2>1, <3>1
  <2>4. Len(mensajesC') <= MaxMensajes /\ Len(porEnviar') <= FRAME_SIZE  BY <1>0, <2>3
  <2>5. ~leyendo  BY <1>1 DEF enviar
  <2> QED  BY <1>1, <2>3, <2>4, <2>5 DEF Tipos, enviar, vuelta
<1>2. CASE EnviaTrozo
  <2>1. PICK n \in 1 .. Len(porEnviar) : /\ aServidor' = aServidor \o Prefijo(porEnviar, n)
                                         /\ porEnviar' = Resto(porEnviar, n)
    BY <1>2 DEF EnviaTrozo
  <2>2. porEnviar \in Seq(Bytes) /\ aServidor \in Seq(Bytes) /\ Len(porEnviar) \in Nat
        /\ Len(porEnviar) <= FRAME_SIZE /\ n \in 0 .. Len(porEnviar)
    BY <2>1, LenProperties DEF Tipos
  <2>3. Prefijo(porEnviar, n) \in Seq(Bytes)  BY <2>2, DePrefijo
  <2>4. porEnviar' \in Seq(Bytes) /\ Len(porEnviar') = Len(porEnviar) - n  BY <2>1, <2>2, DeResto
  <2>5. aServidor' \in Seq(Bytes)  BY <2>1, <2>2, <2>3, ConcatProperties
  <2>6. Len(porEnviar') <= FRAME_SIZE  BY <1>0, <2>2, <2>4
  <2>7. ~leyendo  BY <1>2 DEF EnviaTrozo, Tipos
  <2> QED  BY <1>2, <2>4, <2>5, <2>6, <2>7 DEF Tipos, EnviaTrozo, vuelta
<1>3. CASE EnvioFallido
  <2>1. Len(<<>>) <= FRAME_SIZE /\ <<>> \in Seq(Bytes)  BY <1>0, Vacio
  <2> QED  BY <1>3, <2>1 DEF Tipos, EnvioFallido, vuelta
<1>4. CASE RecibeServidor
  <2>1. PICK n \in 1 .. Len(aServidor) :
          /\ leidosS' = Append(leidosS, Cadena(Prefijo(aServidor, n)))
          /\ aServidor' = Resto(aServidor, n)
          /\ troceada' = (troceada \/ n # FRAME_SIZE)
    BY <1>4 DEF RecibeServidor
  <2>2. aServidor \in Seq(Bytes) /\ n \in 0 .. Len(aServidor) /\ leidosS \in Seq(Seq(Bytes))
    BY <2>1, LenProperties DEF Tipos
  <2>3. Cadena(Prefijo(aServidor, n)) \in Seq(Bytes)  BY <2>2, DePrefijo, TipoCadena
  <2>4. leidosS' \in Seq(Seq(Bytes))  BY <2>1, <2>2, <2>3, AppendProperties
  <2>5. aServidor' \in Seq(Bytes)  BY <2>1, <2>2, DeResto
  <2>6. troceada' \in BOOLEAN  BY <2>1
  <2> QED  BY <1>4, <2>4, <2>5, <2>6 DEF Tipos, RecibeServidor, vuelta
<1>5. CASE ServidorTermina
  BY <1>5 DEF Tipos, ServidorTermina, vuelta
<1>6. CASE EnviaServidor
  <2>1. PICK x \in Longitudes :
          /\ mensajesS' = Append(mensajesS, x)
          /\ aCliente' = IF enlace = "vivo" THEN aCliente \o Trama(Len(mensajesS'), x)
                                            ELSE aCliente
    BY <1>6 DEF EnviaServidor
  <2>2. mensajesS \in Seq(Longitudes) /\ Len(mensajesS) < MaxMensajes /\ aCliente \in Seq(Bytes)
    BY <1>6 DEF Tipos, EnviaServidor
  <2>3. /\ Append(mensajesS, x) \in Seq(Longitudes)
        /\ Len(Append(mensajesS, x)) = Len(mensajesS) + 1
        /\ Len(mensajesS) + 1 \in 1 .. MaxMensajes
        /\ Trama(Len(mensajesS) + 1, x) \in Seq(Bytes)
    BY <2>2, MensajeMas
  <2>4. mensajesS' \in Seq(Longitudes) /\ Len(mensajesS') <= MaxMensajes  BY <1>0, <2>1, <2>3
  <2>5. aCliente \o Trama(Len(mensajesS'), x) \in Seq(Bytes)  BY <2>1, <2>2, <2>3, ConcatProperties
  <2>6. aCliente' \in Seq(Bytes)  BY <2>1, <2>2, <2>5
  <2> QED  BY <1>6, <2>4, <2>6 DEF Tipos, EnviaServidor, ida
<1>7. CASE recibir
  <2>1. Len(<<>>) < FRAME_SIZE /\ <<>> \in Seq(Bytes)  BY <1>0, Vacio
  <2> QED  BY <1>7, <2>1 DEF Tipos, recibir, ida
<1>8. CASE RecibeTrozo
  <2>1. PICK n \in 1 .. Len(aCliente) : LET b == buffer \o Prefijo(aCliente, n) IN
          /\ Len(b) <= FRAME_SIZE
          /\ aCliente' = Resto(aCliente, n)
          /\ IF Len(b) < FRAME_SIZE
             THEN buffer' = b /\ UNCHANGED <<leyendo, leidosC>>
             ELSE leyendo' = FALSE /\ buffer' = <<>> /\ leidosC' = Append(leidosC, Cadena(b))
    BY <1>8 DEF RecibeTrozo
  <2> DEFINE b == buffer \o Prefijo(aCliente, n)
  <2>2. aCliente \in Seq(Bytes) /\ n \in 0 .. Len(aCliente) /\ buffer \in Seq(Bytes)
        /\ leidosC \in Seq(Seq(Bytes)) /\ leyendo
    BY <1>8, <2>1, LenProperties DEF Tipos, RecibeTrozo
  <2>3. b \in Seq(Bytes)  BY <2>2, DePrefijo, ConcatProperties
  <2>4. aCliente' \in Seq(Bytes)  BY <2>1, <2>2, DeResto
  <2>5. Len(<<>>) < FRAME_SIZE /\ <<>> \in Seq(Bytes)  BY <1>0, Vacio
  <2>6. Cadena(b) \in Seq(Bytes)  BY <2>3, TipoCadena
  <2>7. Append(leidosC, Cadena(b)) \in Seq(Seq(Bytes))  BY <2>2, <2>6, AppendProperties
  <2>8. /\ buffer' \in Seq(Bytes) /\ Len(buffer') < FRAME_SIZE /\ leidosC' \in Seq(Seq(Bytes))
        /\ leyendo' \in BOOLEAN /\ (~leyendo' => buffer' = <<>>) /\ (leyendo' => leyendo)
    <3> HIDE DEF b
    <3>1. CASE Len(b) < FRAME_SIZE  BY <2>1, <2>2, <2>3, <3>1 DEF b
    <3>2. CASE ~ (Len(b) < FRAME_SIZE)  BY <2>1, <2>2, <2>5, <2>7, <3>2 DEF b
    <3> QED  BY <3>1, <3>2
  <2> QED  BY <1>8, <2>4, <2>8 DEF Tipos, RecibeTrozo, ida
<1>9. CASE ReciboFallido
  <2>1. Len(<<>>) < FRAME_SIZE /\ <<>> \in Seq(Bytes)  BY <1>0, Vacio
  <2> QED  BY <1>9, <2>1 DEF Tipos, ReciboFallido, ida
<1>10. CASE Corta
  <2>1. PICK n \in 0 .. Len(aServidor) : aServidor' = Prefijo(aServidor, n)  BY <1>10 DEF Corta
  <2>2. PICK m \in 0 .. Len(aCliente) : aCliente' = Prefijo(aCliente, m)  BY <1>10 DEF Corta
  <2>3. aServidor' \in Seq(Bytes) /\ aCliente' \in Seq(Bytes)  BY <2>1, <2>2, DePrefijo DEF Tipos
  <2> QED  BY <1>10, <2>3 DEF Tipos, Corta
<1>11. CASE UNCHANGED vars
  BY <1>11 DEF Tipos, vars, ida, vuelta
<1> QED  BY <1>1, <1>2, <1>3, <1>4, <1>5, <1>6, <1>7, <1>8, <1>9, <1>10, <1>11
         DEF Next, Ida, Vuelta

LEMMA TiposSiempre == Spec => []Tipos
<1> QED  BY TiposInit, TiposPaso, PTL DEF Spec

LEMMA TiposImplica == Tipos => TypeOK
<1> SUFFICES ASSUME Tipos PROVE TypeOK  OBVIOUS
<1>1. \A s \in Seq(Bytes) : Range(s) \subseteq Bytes  BY RangeOfSeq
<1>2. \A k \in DOMAIN leidosS : Range(leidosS[k]) \subseteq Bytes
  BY <1>1, ElementOfSeq, LenProperties DEF Tipos
<1>3. UNION {Range(leidosS[k]) : k \in DOMAIN leidosS} \subseteq Bytes  BY <1>2
<1>4. Range(porEnviar) \cup Range(aServidor) \cup Range(aCliente) \cup Range(buffer)
        \subseteq Bytes
  BY <1>1 DEF Tipos
<1> QED  BY <1>3, <1>4 DEF TypeOK, Tipos

\* Every variable of Tramas keeps its type, whatever part of a frame a send or a recv
\* handles: what is kept of a frame is shorter than one, and recibir begins only when
\* enviar has ended.
THEOREM TramasTipos == Spec => []TypeOK
<1> QED  BY TiposSiempre, TiposImplica, PTL

-----------------------------------------------------------------------------
(* From the server to the client                                            *)

LEMMA PartesDeUnion ==
  ASSUME NEW p \in Seq(Bytes), NEW r \in Seq(Bytes), Len(p) = FRAME_SIZE
  PROVE  Prefijo(p \o r, FRAME_SIZE) = p /\ Resto(p \o r, FRAME_SIZE) = r
<1> DEFINE s == p \o r
<1>0. FRAME_SIZE \in Nat /\ Len(r) \in Nat  BY Tamano, LenProperties
<1>1. s \in Seq(Bytes) /\ Len(s) = FRAME_SIZE + Len(r)
      /\ \A i \in 1 .. FRAME_SIZE + Len(r) : s[i] = IF i <= FRAME_SIZE THEN p[i] ELSE r[i - FRAME_SIZE]
  BY ConcatProperties
<1> HIDE DEF s
<1>2. s \in Seq(Bytes) /\ FRAME_SIZE \in 0 .. Len(s) /\ Len(s) - FRAME_SIZE = Len(r)
      /\ Len(s) \in Nat
  BY <1>0, <1>1
<1>3. Prefijo(s, FRAME_SIZE) \in Seq(Bytes) /\ Len(Prefijo(s, FRAME_SIZE)) = FRAME_SIZE
      /\ \A i \in 1 .. FRAME_SIZE : Prefijo(s, FRAME_SIZE)[i] = s[i]
  BY <1>1, <1>2, DePrefijo
<1>4. Resto(s, FRAME_SIZE) \in Seq(Bytes) /\ Len(Resto(s, FRAME_SIZE)) = Len(s) - FRAME_SIZE
      /\ \A i \in 1 .. Len(s) - FRAME_SIZE : Resto(s, FRAME_SIZE)[i] = s[FRAME_SIZE + i]
  BY <1>0, <1>2, DeResto
<1>5. \A i \in 1 .. Len(p) : Prefijo(s, FRAME_SIZE)[i] = p[i]  BY <1>0, <1>1, <1>3
<1>6. Prefijo(s, FRAME_SIZE) = p  BY <1>3, <1>5, SeqEqual
<1>7. Len(Resto(s, FRAME_SIZE)) = Len(r)
  BY <1>2, <1>4, Zenon
<1>8. ASSUME NEW i \in 1 .. Len(r) PROVE Resto(s, FRAME_SIZE)[i] = r[i]
  <2>1. FRAME_SIZE + i \in 1 .. FRAME_SIZE + Len(r) /\ ~ (FRAME_SIZE + i <= FRAME_SIZE)
        /\ (FRAME_SIZE + i) - FRAME_SIZE = i
    BY <1>0
  <2>2. s[FRAME_SIZE + i] = r[i]  BY <1>1, <2>1, Zenon
  <2>3. i \in 1 .. Len(s) - FRAME_SIZE  BY <1>2
  <2> QED  BY <1>4, <2>2, <2>3, Zenon
<1>9. Resto(s, FRAME_SIZE) = r  BY <1>4, <1>7, <1>8, SeqEqual
<1> QED  BY <1>6, <1>9 DEF s

LEMMA Asocia ==
  \A s, t, u \in Seq(Bytes) : (s \o t) \o u = s \o (t \o u)
BY ConcatAssociative

LEMMA VacioConcat ==
  ASSUME NEW s \in Seq(Bytes) PROVE <<>> \o s = s /\ s \o <<>> = s
BY ConcatEmptySeq

LEMMA FlujoVacio == Entero(<<>>, <<>>, 0)
<1>1. 0 * FRAME_SIZE = 0 /\ 0 - 0 = 0 /\ 0 <= 0  BY PorTamano
<1>2. Falta(<<>>, 0) = 0  BY <1>1, Vacio DEF Falta
<1>3. Alineado(<<>>, <<>>, 0)
  <2>1. 1 .. Len(<<>>) = {}  BY Vacio
  <2> QED  BY <2>1 DEF Alineado
<1> QED  BY <1>1, <1>2, <1>3, Vacio DEF Entero, Flujo

LEMMA ClienteInit == Init => ClienteInv
<1> SUFFICES ASSUME Init PROVE ClienteInv  OBVIOUS
<1>1. <<>> \o <<>> = <<>>  BY VacioConcat, Vacio
<1>2. buffer \o aCliente = <<>> /\ mensajesS = <<>> /\ Len(leidosC) = 0
  BY <1>1, Vacio DEF Init
<1>3. Entero(buffer \o aCliente, mensajesS, Len(leidosC))  BY <1>2, FlujoVacio
<1> QED  BY <1>3 DEF ClienteInv, Entero

\* What a turn of the loop of recibir does: the frame is not complete, and the bytes in
\* the buffer and on the way are the same; or it is, and it is the next frame.
LEMMA TrozoDelCliente ==
  ASSUME Tipos, ClienteInv, RecibeTrozo
  PROVE  \/ /\ buffer' \o aCliente' = buffer \o aCliente
            /\ leidosC' = leidosC
         \/ /\ Len(buffer \o aCliente) >= FRAME_SIZE
            /\ Len(leidosC) + 1 \in 1 .. Len(mensajesS)
            /\ buffer' \o aCliente' = Resto(buffer \o aCliente, FRAME_SIZE)
            /\ leidosC' = Append(leidosC, Texto(Len(leidosC) + 1, Cabe(mensajesS[Len(leidosC) + 1])))
<1>1. PICK n \in 1 .. Len(aCliente) : LET b == buffer \o Prefijo(aCliente, n) IN
        /\ Len(b) <= FRAME_SIZE
        /\ aCliente' = Resto(aCliente, n)
        /\ IF Len(b) < FRAME_SIZE
           THEN buffer' = b /\ UNCHANGED <<leyendo, leidosC>>
           ELSE leyendo' = FALSE /\ buffer' = <<>> /\ leidosC' = Append(leidosC, Cadena(b))
  BY DEF RecibeTrozo
<1> DEFINE p == Prefijo(aCliente, n)  r == Resto(aCliente, n)  b == buffer \o p
           s == buffer \o aCliente
<1>2. aCliente \in Seq(Bytes) /\ n \in 0 .. Len(aCliente) /\ buffer \in Seq(Bytes)
      /\ leidosC \in Seq(Seq(Bytes)) /\ mensajesS \in Seq(Longitudes)
      /\ Len(mensajesS) <= MaxMensajes /\ Len(leidosC) \in Nat
      /\ FRAME_SIZE \in Nat /\ Len(mensajesS) \in Nat /\ MaxMensajes \in Nat
  BY <1>1, LenProperties, Tamano, LimitesAssumption DEF Tipos
<1>3. p \in Seq(Bytes) /\ r \in Seq(Bytes)  BY <1>2, DePrefijo, DeResto
<1>4. p \o r = aCliente  BY <1>2, PartesDe
<1>5. b \in Seq(Bytes) /\ s \in Seq(Bytes) /\ Len(b) \in Nat
  BY <1>2, <1>3, ConcatProperties, LenProperties
<1>6. b \o r = s
  <2>1. (buffer \o p) \o r = buffer \o (p \o r)
    <3> HIDE DEF p, r
    <3> QED  BY <1>2, <1>3, Asocia, Zenon
  <2> QED  BY <1>4, <2>1
<1>7. aCliente' = r  BY <1>1
<1>8. CASE Len(b) < FRAME_SIZE
  <2>1. buffer' = b /\ leidosC' = leidosC  BY <1>1, <1>8
  <2> QED  BY <1>6, <1>7, <2>1
<1>9. CASE ~ (Len(b) < FRAME_SIZE)
  <2>1. buffer' = <<>> /\ leidosC' = Append(leidosC, Cadena(b)) /\ Len(b) <= FRAME_SIZE
    BY <1>1, <1>9
  <2> DEFINE l == Len(leidosC)
  <2> HIDE DEF b, r, s, p
  <2>2. Len(b) = FRAME_SIZE  BY <1>2, <1>5, <1>9, <2>1
  <2>3. Prefijo(s, FRAME_SIZE) = b /\ Resto(s, FRAME_SIZE) = r
    BY <1>3, <1>5, <1>6, <2>2, PartesDeUnion
  <2>4. Len(s) >= FRAME_SIZE
    <3>1. Len(r) \in Nat /\ Len(b \o r) = Len(b) + Len(r)
      BY <1>3, <1>5, ConcatProperties, LenProperties
    <3> QED  BY <1>2, <1>6, <2>2, <3>1
  <2>5. Flujo(s, mensajesS, l)  BY DEF ClienteInv, s
  <2>6. l + 1 \in 1 .. Len(mensajesS) /\ Prefijo(s, FRAME_SIZE) = Trama(l + 1, mensajesS[l + 1])
    BY <1>2, <1>5, <2>4, <2>5, FlujoTrama
  <2>7. Cadena(b) = Texto(l + 1, Cabe(mensajesS[l + 1]))
    <3>1. l + 1 \in 1 .. MaxMensajes /\ mensajesS[l + 1] \in Longitudes
      BY <1>2, <2>6, ElementOfSeq
    <3> QED  BY <2>3, <2>6, <3>1, CadenaDeTrama
  <2>8. buffer' \o aCliente' = r  BY <1>3, <1>7, <2>1, VacioConcat
  <2> QED  BY <2>1, <2>3, <2>4, <2>6, <2>7, <2>8 DEF s
<1> QED  BY <1>8, <1>9

LEMMA ClientePaso == Tipos /\ ClienteInv /\ [Next]_vars => ClienteInv'
<1> SUFFICES ASSUME Tipos, ClienteInv, [Next]_vars PROVE ClienteInv'  OBVIOUS
<1> DEFINE s == buffer \o aCliente  l == Len(leidosC)
<1>0. buffer \in Seq(Bytes) /\ aCliente \in Seq(Bytes) /\ mensajesS \in Seq(Longitudes)
      /\ leidosC \in Seq(Seq(Bytes)) /\ Len(mensajesS) <= MaxMensajes
  BY DEF Tipos
<1>a. s \in Seq(Bytes) /\ l \in Nat /\ Len(s) \in Nat
      /\ Len(buffer) \in Nat /\ Len(aCliente) \in Nat
      /\ Len(s) = Len(buffer) + Len(aCliente)
      /\ \A i \in 1 .. Len(buffer) + Len(aCliente) :
           s[i] = IF i <= Len(buffer) THEN buffer[i] ELSE aCliente[i - Len(buffer)]
  BY <1>0, LenProperties, ConcatProperties
<1>b. Flujo(s, mensajesS, l)  BY DEF ClienteInv
<1>1. CASE UNCHANGED <<enlace, buffer, aCliente, mensajesS, leidosC>>
  BY <1>1 DEF ClienteInv
<1>2. CASE EnviaServidor
  <2>1. PICK x \in Longitudes :
          /\ mensajesS' = Append(mensajesS, x)
          /\ aCliente' = IF enlace = "vivo" THEN aCliente \o Trama(Len(mensajesS'), x)
                                            ELSE aCliente
    BY <1>2 DEF EnviaServidor
  <2>2. UNCHANGED <<enlace, buffer, leidosC>> /\ Len(mensajesS) < MaxMensajes
    BY <1>2 DEF EnviaServidor
  <2>3. Len(mensajesS') = Len(mensajesS) + 1 /\ Trama(Len(mensajesS) + 1, x) \in Seq(Bytes)
    BY <1>0, <2>1, <2>2, MensajeMas
  <2>4. CASE enlace = "vivo"
    <3>1. Entero(s, mensajesS, l)  BY <2>4 DEF ClienteInv
    <3> DEFINE t == Trama(Len(mensajesS) + 1, x)
    <3>a. buffer' \o aCliente' = buffer \o (aCliente \o t)  BY <2>1, <2>2, <2>3, <2>4
    <3>b. (buffer \o aCliente) \o t = buffer \o (aCliente \o t)
      <4> HIDE DEF t
      <4>1. t \in Seq(Bytes)  BY <2>3 DEF t
      <4> QED  BY <1>0, <4>1, Asocia, Zenon
    <3>2. buffer' \o aCliente' = s \o t  BY <3>a, <3>b
    <3>3. Entero(s \o Trama(Len(mensajesS) + 1, x), Append(mensajesS, x), l)
      <4> HIDE DEF s, l
      <4> QED  BY <1>0, <1>a, <2>2, <3>1, EnteroMas
    <3>4. Entero(buffer' \o aCliente', mensajesS', Len(leidosC'))  BY <2>1, <2>2, <3>2, <3>3
    <3> QED  BY <3>4 DEF ClienteInv, Entero
  <2>5. CASE enlace # "vivo"
    <3>1. Flujo(s, Append(mensajesS, x), l)
      <4> HIDE DEF s, l
      <4> QED  BY <1>0, <1>a, <1>b, FlujoCrece
    <3>2. Flujo(buffer' \o aCliente', mensajesS', Len(leidosC'))  BY <2>1, <2>2, <2>5, <3>1
    <3> QED  BY <2>2, <2>5, <3>2 DEF ClienteInv
  <2> QED  BY <2>4, <2>5
<1>3. CASE recibir
  <2>1. buffer = <<>>  BY <1>3 DEF recibir, Tipos
  <2> QED  BY <1>1, <1>3, <2>1 DEF recibir
<1>4. CASE RecibeTrozo
  <2>1. UNCHANGED <<enlace, mensajesS>>  BY <1>4 DEF RecibeTrozo
  <2>2. CASE buffer' \o aCliente' = s /\ leidosC' = leidosC
    BY <2>1, <2>2 DEF ClienteInv
  <2>3. CASE /\ Len(s) >= FRAME_SIZE
             /\ buffer' \o aCliente' = Resto(s, FRAME_SIZE)
             /\ leidosC' = Append(leidosC, Texto(l + 1, Cabe(mensajesS[l + 1])))
    <3>1. Len(leidosC') = l + 1
      <4>1. leidosC' \in Seq(Seq(Bytes))  BY TiposPaso DEF Tipos
      <4> QED  BY <1>0, <2>3
    <3>2. /\ Flujo(Resto(s, FRAME_SIZE), mensajesS, l + 1)
          /\ Entero(s, mensajesS, l) => Entero(Resto(s, FRAME_SIZE), mensajesS, l + 1)
      <4>1. Len(s) >= FRAME_SIZE  BY <2>3
      <4> HIDE DEF s, l
      <4> QED  BY <1>0, <1>a, <1>b, <4>1, FlujoTrama
    <3>3. enlace = "vivo" => Entero(s, mensajesS, l)  BY DEF ClienteInv
    <3> QED  BY <2>1, <2>3, <3>1, <3>2, <3>3 DEF ClienteInv
  <2> QED  BY <1>4, <2>2, <2>3, TrozoDelCliente
<1>5. CASE ReciboFallido
  <2>1. buffer' = <<>> /\ aCliente' = <<>> /\ enlace' # "vivo" /\ UNCHANGED <<mensajesS, leidosC>>
    BY <1>5 DEF ReciboFallido
  <2>2. buffer' \o aCliente' = <<>>  BY <2>1, VacioConcat, Vacio
  <2>3. <<>> \in Seq(Bytes) /\ Len(<<>>) <= Len(s) /\ 1 .. Len(<<>>) = {}  BY <1>a, Vacio
  <2>4. Flujo(<<>>, mensajesS, l)
    <3> HIDE DEF s, l
    <3> QED  BY <1>0, <1>a, <1>b, <2>3, FlujoMenor
  <2> QED  BY <2>1, <2>2, <2>4 DEF ClienteInv
<1>6. CASE Corta
  <2>1. PICK m \in 0 .. Len(aCliente) : aCliente' = Prefijo(aCliente, m)  BY <1>6 DEF Corta
  <2>2. UNCHANGED <<buffer, mensajesS, leidosC>> /\ enlace' # "vivo"  BY <1>6 DEF Corta
  <2>3. aCliente' \in Seq(Bytes) /\ Len(aCliente') = m
        /\ \A i \in 1 .. m : aCliente'[i] = aCliente[i]
    BY <1>0, <2>1, DePrefijo
  <2> DEFINE t == buffer \o aCliente'
  <2>4. t \in Seq(Bytes) /\ Len(t) = Len(buffer) + m
        /\ \A i \in 1 .. Len(buffer) + m :
             t[i] = IF i <= Len(buffer) THEN buffer[i] ELSE aCliente'[i - Len(buffer)]
    BY <1>0, <2>3, ConcatProperties
  <2>5. Len(t) <= Len(s)
    <3> HIDE DEF s, t
    <3> QED  BY <1>a, <2>1, <2>4
  <2>6. \A i \in 1 .. Len(t) : t[i] = s[i]
    <3> HIDE DEF s, t
    <3>1. \A i \in 1 .. Len(t) : i \in 1 .. Len(buffer) + m /\ i \in 1 .. Len(buffer) + Len(aCliente)
      BY <1>a, <2>1, <2>4
    <3>2. \A i \in 1 .. Len(t) : ~ (i <= Len(buffer)) => i - Len(buffer) \in 1 .. m
      BY <1>a, <2>1, <2>4
    <3> QED  BY <1>a, <2>3, <2>4, <3>1, <3>2
  <2>7. Flujo(t, mensajesS, l)
    <3> HIDE DEF s, t, l
    <3> QED  BY <1>0, <1>a, <1>b, <2>4, <2>5, <2>6, FlujoMenor
  <2> QED  BY <2>2, <2>7 DEF ClienteInv
<1> QED
  BY <1>1, <1>2, <1>3, <1>4, <1>5, <1>6
     DEF Next, Ida, Vuelta, vars, vuelta, enviar, EnviaTrozo, EnvioFallido, RecibeServidor,
         ServidorTermina

-----------------------------------------------------------------------------
(* The refinement of Canal                                                  *)

LEMMA DeTextos ==
  ASSUME NEW ms \in Seq(Longitudes), Len(ms) <= MaxMensajes
  PROVE  /\ Textos(ms) \in Seq(Seq(Bytes)) /\ Len(Textos(ms)) = Len(ms)
         /\ \A k \in 1 .. Len(ms) : Textos(ms)[k] = Texto(k, Cabe(ms[k]))
<1>1. Len(ms) \in Nat /\ DOMAIN ms = 1 .. Len(ms) /\ MaxMensajes \in Nat
  BY LenProperties, LimitesAssumption
<1>2. ASSUME NEW k \in 1 .. Len(ms) PROVE Texto(k, Cabe(ms[k])) \in Seq(Bytes)
  <2>1. ms[k] \in Longitudes  BY ElementOfSeq
  <2>2. Cabe(ms[k]) \in Nat /\ Cabe(ms[k]) <= FRAME_SIZE  BY <2>1, CabeAlguno, Tamano
  <2>3. k \in 1 .. MaxMensajes  BY <1>1
  <2> QED  BY <2>2, <2>3, DeTexto
<1>3. Textos(ms) = [k \in 1 .. Len(ms) |-> Texto(k, Cabe(ms[k]))]  BY <1>1, Zenon DEF Textos
<1>4. Textos(ms) \in [1 .. Len(ms) -> Seq(Bytes)]  BY <1>2, <1>3, Zenon
<1>5. \A k \in 1 .. Len(ms) : Textos(ms)[k] = Texto(k, Cabe(ms[k]))  BY <1>3, Zenon
<1> QED  BY <1>1, <1>4, <1>5, FuncionEsSecuencia, Zenon

LEMMA TextosMas ==
  ASSUME NEW ms \in Seq(Longitudes), Len(ms) < MaxMensajes, NEW x \in Longitudes
  PROVE  Textos(Append(ms, x)) = Append(Textos(ms), Texto(Len(ms) + 1, Cabe(x)))
<1> DEFINE ns == Append(ms, x)  t == Texto(Len(ms) + 1, Cabe(x))  a == Append(Textos(ms), t)
<1>1. Len(ms) \in Nat /\ MaxMensajes \in Nat  BY LenProperties, LimitesAssumption
<1>2. ns \in Seq(Longitudes) /\ Len(ns) = Len(ms) + 1 /\ Len(ms) + 1 \in 1 .. MaxMensajes
      /\ (\A k \in 1 .. Len(ms) : ns[k] = ms[k]) /\ ns[Len(ms) + 1] = x
  BY MensajeMas
<1> HIDE DEF ns
<1>3. Len(ns) <= MaxMensajes /\ Len(ms) <= MaxMensajes  BY <1>1, <1>2
<1>4. /\ Textos(ms) \in Seq(Seq(Bytes)) /\ Len(Textos(ms)) = Len(ms)
      /\ \A k \in 1 .. Len(ms) : Textos(ms)[k] = Texto(k, Cabe(ms[k]))
  BY <1>3, DeTextos
<1>5. /\ Textos(ns) \in Seq(Seq(Bytes)) /\ Len(Textos(ns)) = Len(ns)
      /\ \A k \in 1 .. Len(ns) : Textos(ns)[k] = Texto(k, Cabe(ns[k]))
  BY <1>2, <1>3, DeTextos
<1>6. t \in Seq(Bytes)
  <2>1. Cabe(x) \in Nat /\ Cabe(x) <= FRAME_SIZE  BY CabeAlguno, Tamano
  <2> QED  BY <1>2, <2>1, DeTexto
<1> HIDE DEF t
<1>7. a \in Seq(Seq(Bytes)) /\ Len(a) = Len(ms) + 1
      /\ (\A k \in 1 .. Len(ms) : a[k] = Textos(ms)[k]) /\ a[Len(ms) + 1] = t
  BY <1>4, <1>6, AppendProperties
<1> HIDE DEF a
<1>8. ASSUME NEW k \in 1 .. Len(ns) PROVE Textos(ns)[k] = a[k]
  <2>1. CASE k \in 1 .. Len(ms)  BY <1>2, <1>4, <1>5, <1>7, <2>1, Zenon
  <2>2. CASE k = Len(ms) + 1  BY <1>2, <1>5, <1>7, <2>2, Zenon DEF t
  <2> QED  BY <1>1, <1>2, <2>1, <2>2
<1>9. Len(Textos(ns)) = Len(a)  BY <1>2, <1>5, <1>7, Zenon
<1>10. \A k \in 1 .. Len(Textos(ns)) : Textos(ns)[k] = a[k]  BY <1>5, <1>8
<1>11. Textos(ns) = a  BY <1>5, <1>7, <1>9, <1>10, SeqEqual
<1> QED  BY <1>11 DEF ns, a, t

LEMMA CanalInit == Init => Cliente!Init
<1> SUFFICES ASSUME Init PROVE Cliente!Init  OBVIOUS
<1>1. <<>> \in Seq(Longitudes) /\ Len(<<>>) = 0 /\ 0 <= MaxMensajes
  BY Vacio, LimitesAssumption
<1>2. Textos(<<>>) \in Seq(Seq(Bytes)) /\ Len(Textos(<<>>)) = 0
  BY <1>1, DeTextos
<1>3. Textos(<<>>) = <<>>  BY <1>2, EmptySeq
<1> QED  BY <1>3 DEF Init, Cliente!Init

\* EnviaServidor is Envia, the turn of recibir that completes a frame is Entrega, and
\* all the other steps change nothing that Canal sees.
LEMMA CanalPaso ==
  Tipos /\ ClienteInv /\ [Next]_vars => [Cliente!Next]_<<Textos(mensajesS), leidosC>>
<1> SUFFICES ASSUME Tipos, ClienteInv, [Next]_vars
             PROVE  \/ Cliente!Envia \/ Cliente!Entrega
                    \/ UNCHANGED <<Textos(mensajesS), leidosC>>
  BY DEF Cliente!Next
<1>0. mensajesS \in Seq(Longitudes) /\ Len(mensajesS) <= MaxMensajes
  BY DEF Tipos
<1>1. CASE UNCHANGED <<mensajesS, leidosC>>
  BY <1>1
<1>2. CASE EnviaServidor
  <2>1. PICK x \in Longitudes : mensajesS' = Append(mensajesS, x)  BY <1>2 DEF EnviaServidor
  <2>2. leidosC' = leidosC /\ Len(mensajesS) < MaxMensajes  BY <1>2 DEF EnviaServidor
  <2> DEFINE t == Texto(Len(mensajesS) + 1, Cabe(x))
  <2>3. Textos(mensajesS)' = Append(Textos(mensajesS), t)
    <3>1. Textos(mensajesS)' = Textos(mensajesS')  OBVIOUS
    <3>2. Textos(Append(mensajesS, x)) = Append(Textos(mensajesS), t)  BY <1>0, <2>2, TextosMas
    <3> QED  BY <2>1, <3>1, <3>2
  <2>4. t \in {Texto(k, Cabe(l)) : k \in 1 .. MaxMensajes, l \in Longitudes}
    <3>1. Len(mensajesS) + 1 \in 1 .. MaxMensajes  BY <1>0, <2>2, MensajeMas
    <3> QED  BY <3>1
  <2>5. Cliente!Envia
    <3> HIDE DEF t
    <3> DEFINE M == {Texto(k, Cabe(l)) : k \in 1 .. MaxMensajes, l \in Longitudes}
    <3>1. t \in M  BY <2>4
    <3> HIDE DEF M
    <3>2. \E m \in M : Textos(mensajesS)' = Append(Textos(mensajesS), m) /\ UNCHANGED leidosC
      BY <2>2, <2>3, <3>1, Zenon
    <3> QED  BY <3>2 DEF Cliente!Envia, M
  <2> QED  BY <2>5
<1>3. CASE RecibeTrozo
  <2> DEFINE l == Len(leidosC)
  <2>1. mensajesS' = mensajesS  BY <1>3 DEF RecibeTrozo
  <2>2. CASE leidosC' = leidosC  BY <1>1, <2>1, <2>2
  <2>3. CASE l + 1 \in 1 .. Len(mensajesS)
             /\ leidosC' = Append(leidosC, Texto(l + 1, Cabe(mensajesS[l + 1])))
    <3>1. Len(Textos(mensajesS)) = Len(mensajesS)
          /\ Textos(mensajesS)[l + 1] = Texto(l + 1, Cabe(mensajesS[l + 1]))
      BY <1>0, <2>3, DeTextos
    <3>2. l \in Nat /\ Len(mensajesS) \in Nat  BY <1>0, LenProperties DEF Tipos
    <3>3. l < Len(Textos(mensajesS))  BY <2>3, <3>1, <3>2
    <3>4. leidosC' = Append(leidosC, Textos(mensajesS)[l + 1])  BY <2>3, <3>1
    <3>5. Textos(mensajesS)' = Textos(mensajesS)  BY <2>1
    <3> QED  BY <3>3, <3>4, <3>5, Zenon DEF Cliente!Entrega
  <2> QED  BY <1>3, <2>2, <2>3, TrozoDelCliente, Zenon
<1> QED
  BY <1>1, <1>2, <1>3
     DEF Next, Ida, Vuelta, vars, vuelta, enviar, EnviaTrozo, EnvioFallido, RecibeServidor,
         ServidorTermina, recibir, ReciboFallido, Corta

\* Tramas implements Canal: recibir returns the messages of the server whole, in order
\* and each once, for frames of any size, however recv splits them and wherever the
\* connection is cut.
THEOREM RecibirEnOrden == Spec => ClienteEnFase
<1>1. Init => Tipos /\ ClienteInv /\ Cliente!Init  BY TiposInit, ClienteInit, CanalInit
<1>2. Tipos /\ ClienteInv /\ [Next]_vars
        => (Tipos /\ ClienteInv)' /\ [Cliente!Next]_<<Textos(mensajesS), leidosC>>
  BY TiposPaso, ClientePaso, CanalPaso
<1> QED  BY <1>1, <1>2, PTL DEF Spec, ClienteEnFase, Cliente!Spec

-----------------------------------------------------------------------------
(* From the client to the server: in phase while every recv returns a frame  *)

LEMMA FlujoTope ==
  ASSUME NEW s \in Seq(Bytes), NEW ms \in Seq(Longitudes), NEW l \in Nat, Flujo(s, ms, l)
  PROVE  l <= Len(ms)
<1>1. Len(s) \in Nat /\ Len(ms) \in Nat /\ Len(s) <= (Len(ms) - l) * FRAME_SIZE
  BY LenProperties DEF Flujo, Falta
<1>2. Len(ms) - l \in Int /\ (Len(ms) - l) * FRAME_SIZE \in Int  BY <1>1, PorTamano
<1>3. 0 <= (Len(ms) - l) * FRAME_SIZE  BY <1>1, <1>2
<1>4. 0 <= Len(ms) - l  BY <1>2, <1>3, PorTamano
<1> QED  BY <1>1, <1>4

LEMMA ServidorInit == Init => ServidorInv
<1> SUFFICES ASSUME Init PROVE ServidorInv  OBVIOUS
<1>1. <<>> \o <<>> = <<>>  BY VacioConcat, Vacio
<1>2. aServidor \o porEnviar = <<>> /\ aServidor = <<>> /\ mensajesC = <<>> /\ Len(leidosS) = 0
  BY <1>1, Vacio DEF Init
<1>3. Leidos
  <2>1. 1 .. Len(leidosS) = {}  BY <1>2
  <2> QED  BY <2>1 DEF Leidos
<1>4. Entero(aServidor, mensajesC, Len(leidosS)) /\ Entero(aServidor \o porEnviar, mensajesC, Len(leidosS))
  BY <1>2, FlujoVacio
<1> QED  BY <1>3, <1>4 DEF ServidorInv, Entero

\* A turn of the loop of enviar only moves bytes from porEnviar to the way.
LEMMA TrozoEnviado ==
  ASSUME Tipos, EnviaTrozo
  PROVE  /\ aServidor' \o porEnviar' = aServidor \o porEnviar
         /\ enlace' = enlace /\ enlace = "vivo"
         /\ Len(aServidor') <= Len(aServidor \o porEnviar)
         /\ \A i \in 1 .. Len(aServidor') : aServidor'[i] = (aServidor \o porEnviar)[i]
<1>1. PICK n \in 1 .. Len(porEnviar) : /\ aServidor' = aServidor \o Prefijo(porEnviar, n)
                                       /\ porEnviar' = Resto(porEnviar, n)
  BY DEF EnviaTrozo
<1> DEFINE p == Prefijo(porEnviar, n)  r == Resto(porEnviar, n)  w == aServidor \o p
<1>2. aServidor \in Seq(Bytes) /\ porEnviar \in Seq(Bytes) /\ n \in 0 .. Len(porEnviar)
  BY <1>1, LenProperties DEF Tipos
<1>3. p \in Seq(Bytes) /\ r \in Seq(Bytes) /\ p \o r = porEnviar  BY <1>2, DePrefijo, DeResto, PartesDe
<1>4. w \in Seq(Bytes)  BY <1>2, <1>3, ConcatProperties
<1>5. w \o r = aServidor \o porEnviar
  <2>1. (aServidor \o p) \o r = aServidor \o (p \o r)
    <3> HIDE DEF p, r
    <3> QED  BY <1>2, <1>3, Asocia, Zenon
  <2> QED  BY <1>3, <2>1
<1> HIDE DEF w, r
<1>6. Len(w) <= Len(w \o r) /\ \A i \in 1 .. Len(w) : (w \o r)[i] = w[i]
  <2>1. Len(w) \in Nat /\ Len(r) \in Nat /\ Len(w \o r) = Len(w) + Len(r)
        /\ \A i \in 1 .. Len(w) + Len(r) : (w \o r)[i] = IF i <= Len(w) THEN w[i] ELSE r[i - Len(w)]
    BY <1>3, <1>4, ConcatProperties, LenProperties
  <2> QED  BY <2>1
<1>7. enlace' = enlace /\ enlace = "vivo"  BY DEF EnviaTrozo
<1>8. aServidor' = w /\ porEnviar' = r  BY <1>1 DEF w, r
<1> QED  BY <1>5, <1>6, <1>7, <1>8, Zenon

LEMMA ServidorPaso == Tipos /\ ServidorInv /\ [Next]_vars => ServidorInv'
<1> SUFFICES ASSUME Tipos, ServidorInv, [Next]_vars, ~troceada' PROVE
       (/\ Leidos
        /\ Flujo(aServidor, mensajesC, Len(leidosS))
        /\ enlace = "vivo" => Entero(aServidor \o porEnviar, mensajesC, Len(leidosS)))'
  BY DEF ServidorInv
<1> DEFINE s == aServidor \o porEnviar  l == Len(leidosS)
<1>0. aServidor \in Seq(Bytes) /\ porEnviar \in Seq(Bytes) /\ mensajesC \in Seq(Longitudes)
      /\ leidosS \in Seq(Seq(Bytes)) /\ Len(mensajesC) <= MaxMensajes
  BY DEF Tipos
<1>00. s \in Seq(Bytes) /\ l \in Nat /\ Len(mensajesC) \in Nat
  BY <1>0, LenProperties, ConcatProperties
<1>t. ~troceada
  BY DEF Next, Ida, Vuelta, vars, ida, vuelta, enviar, EnviaTrozo, EnvioFallido, RecibeServidor,
         ServidorTermina, EnviaServidor, recibir, RecibeTrozo, ReciboFallido, Corta
<1>a. Leidos /\ Flujo(aServidor, mensajesC, l)  BY <1>t DEF ServidorInv
<1>b. enlace = "vivo" => Entero(s, mensajesC, l)  BY <1>t DEF ServidorInv
<1>c. l <= Len(mensajesC)
  <2> HIDE DEF l
  <2> QED  BY <1>0, <1>00, <1>a, FlujoTope
<1>1. CASE UNCHANGED <<enlace, mensajesC, porEnviar, aServidor, leidosS>>
  BY <1>1, <1>a, <1>b DEF Leidos
<1>2. CASE enviar
  <2>1. PICK x \in Longitudes : /\ mensajesC' = Append(mensajesC, x)
                                /\ porEnviar' = Trama(Len(mensajesC'), x)
    BY <1>2 DEF enviar
  <2>2. UNCHANGED <<enlace, aServidor, leidosS>> /\ porEnviar = <<>> /\ Len(mensajesC) < MaxMensajes
    BY <1>2 DEF enviar
  <2>3. /\ Len(mensajesC') = Len(mensajesC) + 1
        /\ \A k \in 1 .. Len(mensajesC) : mensajesC'[k] = mensajesC[k]
    BY <1>0, <2>1, <2>2, MensajeMas
  <2>4. Leidos'
    <3> SUFFICES ASSUME NEW k \in 1 .. l PROVE leidosS[k] = Texto(k, Cabe(mensajesC'[k]))
      BY <2>2 DEF Leidos
    <3>1. k \in 1 .. Len(mensajesC)  BY <1>00, <1>c
    <3> QED  BY <1>a, <2>3, <3>1 DEF Leidos
  <2>5. Flujo(aServidor', mensajesC', Len(leidosS'))
    <3>1. Flujo(aServidor, Append(mensajesC, x), l)
      <4> HIDE DEF l
      <4> QED  BY <1>0, <1>00, <1>a, FlujoCrece
    <3> QED  BY <2>1, <2>2, <3>1
  <2>6. ASSUME enlace = "vivo"
        PROVE  Entero(aServidor' \o porEnviar', mensajesC', Len(leidosS'))
    <3>1. s = aServidor  BY <1>0, <2>2, VacioConcat
    <3>2. Entero(aServidor, mensajesC, l)  BY <1>b, <2>6, <3>1
    <3>3. Entero(aServidor \o Trama(Len(mensajesC) + 1, x), Append(mensajesC, x), l)
      <4> HIDE DEF l
      <4> QED  BY <1>0, <1>00, <2>2, <3>2, EnteroMas
    <3> QED  BY <2>1, <2>2, <2>3, <3>3
  <2> QED  BY <2>2, <2>4, <2>5, <2>6
<1>3. CASE EnviaTrozo
  <2>1. UNCHANGED <<mensajesC, leidosS>>  BY <1>3 DEF EnviaTrozo
  <2>2. /\ aServidor' \o porEnviar' = s /\ enlace' = enlace /\ enlace = "vivo"
        /\ Len(aServidor') <= Len(s)
        /\ \A i \in 1 .. Len(aServidor') : aServidor'[i] = s[i]
    BY <1>3, TrozoEnviado
  <2>3. Entero(s, mensajesC, l)  BY <1>b, <2>2
  <2>4. aServidor' \in Seq(Bytes)  BY TiposPaso DEF Tipos
  <2>5. Flujo(aServidor', mensajesC, l)
    <3>1. Flujo(s, mensajesC, l)  BY <2>3 DEF Entero
    <3> HIDE DEF s, l
    <3> QED  BY <1>0, <1>00, <2>2, <2>4, <3>1, FlujoMenor
  <2> QED  BY <1>a, <2>1, <2>2, <2>3, <2>5 DEF Leidos
<1>4. CASE EnvioFallido
  <2>1. enlace' # "vivo" /\ UNCHANGED <<mensajesC, aServidor, leidosS>>
    BY <1>4 DEF EnvioFallido
  <2> QED  BY <1>a, <2>1 DEF Leidos
<1>5. CASE RecibeServidor
  <2>1. PICK n \in 1 .. Len(aServidor) :
          /\ leidosS' = Append(leidosS, Cadena(Prefijo(aServidor, n)))
          /\ aServidor' = Resto(aServidor, n)
          /\ troceada' = (troceada \/ n # FRAME_SIZE)
    BY <1>5 DEF RecibeServidor
  <2>2. UNCHANGED <<enlace, mensajesC, porEnviar>>  BY <1>5 DEF RecibeServidor
  <2>3. n = FRAME_SIZE  BY <2>1
  <2> DEFINE p == Prefijo(aServidor, FRAME_SIZE)  r == Resto(aServidor, FRAME_SIZE)
  <2>4. Len(aServidor) \in Nat /\ Len(aServidor) >= FRAME_SIZE /\ FRAME_SIZE \in 0 .. Len(aServidor)
        /\ FRAME_SIZE \in Nat /\ MaxMensajes \in Nat
    BY <1>0, <2>1, <2>3, Tamano, LenProperties, LimitesAssumption
  <2>5. /\ l + 1 \in 1 .. Len(mensajesC)
        /\ p = Trama(l + 1, mensajesC[l + 1])
        /\ Flujo(r, mensajesC, l + 1)
    <3> HIDE DEF l
    <3> QED  BY <1>0, <1>00, <1>a, <2>4, FlujoTrama
  <2>6. Cadena(p) = Texto(l + 1, Cabe(mensajesC[l + 1]))
    <3>1. l + 1 \in 1 .. MaxMensajes /\ mensajesC[l + 1] \in Longitudes
      <4> HIDE DEF l
      <4> QED  BY <1>0, <1>00, <2>4, <2>5, ElementOfSeq
    <3> QED  BY <2>5, <3>1, CadenaDeTrama
  <2>7. p \in Seq(Bytes) /\ Len(p) = FRAME_SIZE /\ r \in Seq(Bytes) /\ p \o r = aServidor
    BY <1>0, <2>4, DePrefijo, DeResto, PartesDe
  <2>8. leidosS' = Append(leidosS, Cadena(p)) /\ aServidor' = r  BY <2>1, <2>3
  <2>9. Cadena(p) \in Seq(Bytes)  BY <2>7, TipoCadena
  <2>10. Len(leidosS') = l + 1 /\ (\A k \in 1 .. l : leidosS'[k] = leidosS[k])
         /\ leidosS'[l + 1] = Cadena(p)
    <3> HIDE DEF p
    <3> QED  BY <1>0, <2>8, <2>9, AppendProperties
  <2>11. Leidos'
    <3> SUFFICES ASSUME NEW k \in 1 .. l + 1 PROVE leidosS'[k] = Texto(k, Cabe(mensajesC[k]))
      BY <2>2, <2>10 DEF Leidos
    <3>1. CASE k \in 1 .. l  BY <1>a, <2>10, <3>1 DEF Leidos
    <3>2. CASE k = l + 1  BY <2>6, <2>10, <3>2
    <3> QED  BY <1>00, <3>1, <3>2
  <2>12. ASSUME enlace = "vivo"
         PROVE  Entero(aServidor' \o porEnviar', mensajesC', Len(leidosS'))
    <3>1. s = p \o (r \o porEnviar)
      <4> HIDE DEF p, r
      <4> QED  BY <1>0, <2>7, Asocia, Zenon
    <3>2. r \o porEnviar \in Seq(Bytes)  BY <1>0, <2>7, ConcatProperties
    <3>3. Resto(s, FRAME_SIZE) = r \o porEnviar
      <4> HIDE DEF p, r, s
      <4> QED  BY <2>7, <3>1, <3>2, PartesDeUnion
    <3>4. Len(s) >= FRAME_SIZE
      <4> HIDE DEF p, r, s
      <4>1. Len(r \o porEnviar) \in Nat  BY <3>2, LenProperties
      <4>2. Len(s) = Len(p) + Len(r \o porEnviar)  BY <2>7, <3>1, <3>2, ConcatProperties
      <4> QED  BY <2>4, <2>7, <4>1, <4>2
    <3>5. Entero(s, mensajesC, l)  BY <1>b, <2>12
    <3>6. Entero(Resto(s, FRAME_SIZE), mensajesC, l + 1)
      <4>1. Flujo(s, mensajesC, l)  BY <3>5 DEF Entero
      <4> HIDE DEF l, s
      <4> QED  BY <1>0, <1>00, <3>4, <3>5, <4>1, FlujoTrama
    <3> QED  BY <2>2, <2>8, <2>10, <3>3, <3>6
  <2> QED  BY <2>2, <2>5, <2>8, <2>10, <2>11, <2>12
<1>6. CASE Corta
  <2>1. PICK n \in 0 .. Len(aServidor) : aServidor' = Prefijo(aServidor, n)  BY <1>6 DEF Corta
  <2>2. UNCHANGED <<mensajesC, leidosS>> /\ enlace' # "vivo"  BY <1>6 DEF Corta
  <2>3. /\ aServidor' \in Seq(Bytes) /\ Len(aServidor') = n
        /\ \A i \in 1 .. n : aServidor'[i] = aServidor[i]
    BY <1>0, <2>1, DePrefijo
  <2>4. Len(aServidor') <= Len(aServidor) /\ \A i \in 1 .. Len(aServidor') : aServidor'[i] = aServidor[i]
    <3>1. Len(aServidor) \in Nat  BY <1>0, LenProperties
    <3> QED  BY <2>1, <2>3, <3>1
  <2>5. Flujo(aServidor', mensajesC, l)
    <3> HIDE DEF l
    <3> QED  BY <1>0, <1>00, <1>a, <2>3, <2>4, FlujoMenor
  <2> QED  BY <1>a, <2>2, <2>5 DEF Leidos
<1> QED
  BY <1>1, <1>2, <1>3, <1>4, <1>5, <1>6
     DEF Next, Ida, Vuelta, vars, ida, ServidorTermina, EnviaServidor, recibir, RecibeTrozo,
         ReciboFallido

LEMMA ServidorImplica == Tipos /\ ServidorInv => ServidorEnFase
<1> SUFFICES ASSUME Tipos, ServidorInv, ~troceada PROVE IsPrefix(leidosS, Textos(mensajesC))
  BY DEF ServidorEnFase
<1> DEFINE l == Len(leidosS)  t == Textos(mensajesC)
<1>1. aServidor \in Seq(Bytes) /\ mensajesC \in Seq(Longitudes) /\ leidosS \in Seq(Seq(Bytes))
      /\ Len(mensajesC) <= MaxMensajes /\ l \in Nat /\ Len(mensajesC) \in Nat
  BY LenProperties DEF Tipos
<1>2. l <= Len(mensajesC)
  <2>1. Flujo(aServidor, mensajesC, l)  BY DEF ServidorInv
  <2> HIDE DEF l
  <2> QED  BY <1>1, <2>1, FlujoTope
<1>3. t \in Seq(Seq(Bytes)) /\ Len(t) = Len(mensajesC)
      /\ \A k \in 1 .. Len(mensajesC) : t[k] = Texto(k, Cabe(mensajesC[k]))
  BY <1>1, DeTextos
<1> HIDE DEF t
<1>4. \A k \in 1 .. l : leidosS[k] = t[k]
  <2> SUFFICES ASSUME NEW k \in 1 .. l PROVE leidosS[k] = t[k]  OBVIOUS
  <2>1. k \in 1 .. Len(mensajesC)  BY <1>1, <1>2
  <2>2. leidosS[k] = Texto(k, Cabe(mensajesC[k]))  BY DEF ServidorInv, Leidos
  <2> QED  BY <1>3, <2>1, <2>2
<1>5. Prefijo(t, l) \in Seq(Seq(Bytes)) /\ Len(Prefijo(t, l)) = l
      /\ \A i \in 1 .. l : Prefijo(t, l)[i] = t[i]
  <2>1. l \in 0 .. Len(t)  BY <1>1, <1>2, <1>3
  <2> HIDE DEF l
  <2> QED  BY <1>3, <2>1, DePrefijo
<1>6. leidosS = Prefijo(t, l)  BY <1>1, <1>4, <1>5, SeqEqual
<1>7. SubSeq(leidosS, 1, l) = leidosS  BY <1>1, SubSeqFull
<1>8. Len(leidosS) <= Len(t)  BY <1>1, <1>2, <1>3
<1> QED  BY <1>6, <1>7, <1>8 DEF IsPrefix, Prefijo, t

\* While every recv of the server returns a frame, what it has read is the messages of
\* the client, one by one (ServidorEnFase), in however many pieces enviar sent them and
\* wherever the connection is cut.
THEOREM RecvPorTramas == Spec => []ServidorEnFase
<1>1. Init => Tipos /\ ServidorInv  BY TiposInit, ServidorInit
<1>2. Tipos /\ ServidorInv /\ [Next]_vars => (Tipos /\ ServidorInv)'  BY TiposPaso, ServidorPaso
<1>3. Tipos /\ ServidorInv => ServidorEnFase  BY ServidorImplica
<1> QED  BY <1>1, <1>2, <1>3, PTL DEF Spec

-----------------------------------------------------------------------------
(* From the client to the server: never a mixture                           *)

\* Any window of the bytes.
LEMMA SueltaParte ==
  ASSUME NEW s \in Seq(Bytes), NEW t \in Seq(Bytes), NEW ms \in Seq(Longitudes), NEW o \in Nat,
         o + Len(t) <= Len(s), \A i \in 1 .. Len(t) : t[i] = s[o + i], Suelta(s, ms)
  PROVE  Suelta(t, ms)
<1>1. Len(s) \in Nat /\ Len(t) \in Nat  BY LenProperties
<1>2. \A i \in 1 .. Len(t) : o + i \in 1 .. Len(s)  BY <1>1
<1>3. Corrida(t)
  <2> SUFFICES ASSUME NEW m \in 1 .. Len(t), NEW n \in 1 .. Len(t), m <= n,
                      \A i \in m .. n : t[i] # Cero
               PROVE  t[n] = [mensaje |-> t[m].mensaje, pos |-> t[m].pos + (n - m)]
    BY DEF Corrida
  <2>1. ASSUME NEW i \in o + m .. o + n PROVE s[i] # Cero
    <3>1. i - o \in m .. n /\ i - o \in 1 .. Len(t) /\ o + (i - o) = i  BY <1>1
    <3> QED  BY <3>1
  <2>2. o + m \in 1 .. Len(s) /\ o + n \in 1 .. Len(s) /\ o + m <= o + n
        /\ (o + n) - (o + m) = n - m
    BY <1>1
  <2>3. s[o + n] = [mensaje |-> s[o + m].mensaje, pos |-> s[o + m].pos + ((o + n) - (o + m))]
    BY <2>1, <2>2 DEF Suelta, Corrida
  <2>4. t[m] = s[o + m] /\ t[n] = s[o + n]  OBVIOUS
  <2> QED  BY <2>2, <2>3, <2>4
<1>4. DeMensajes(t, ms)  BY <1>2 DEF Suelta, DeMensajes
<1>5. t # <<>> => ms # <<>>
  <2> SUFFICES ASSUME t # <<>> PROVE s # <<>>  BY DEF Suelta
  <2>1. Len(t) # 0 /\ Len(<<>>) = 0  BY EmptySeq
  <2> QED  BY <1>1, <2>1
<1> QED  BY <1>3, <1>4, <1>5 DEF Suelta

\* The zero at the end of the first keeps the two apart.
LEMMA SueltaUnion ==
  ASSUME NEW s \in Seq(Bytes), NEW t \in Seq(Bytes), NEW ms \in Seq(Longitudes),
         Suelta(s, ms), Suelta(t, ms), AcabaEnCero(s)
  PROVE  Suelta(s \o t, ms)
<1> DEFINE u == s \o t
<1>1. Len(s) \in Nat /\ Len(t) \in Nat  BY LenProperties
<1>2. u \in Seq(Bytes) /\ Len(u) = Len(s) + Len(t)
      /\ \A i \in 1 .. Len(s) + Len(t) : u[i] = IF i <= Len(s) THEN s[i] ELSE t[i - Len(s)]
  BY ConcatProperties
<1> HIDE DEF u
<1>3. \A i \in 1 .. Len(u) : i <= Len(s) => i \in 1 .. Len(s) /\ u[i] = s[i]  BY <1>1, <1>2
<1>4. \A i \in 1 .. Len(u) : ~ (i <= Len(s)) => i - Len(s) \in 1 .. Len(t) /\ u[i] = t[i - Len(s)]
  BY <1>1, <1>2
<1>5. Corrida(u)
  <2> SUFFICES ASSUME NEW m \in 1 .. Len(u), NEW n \in 1 .. Len(u), m <= n,
                      \A i \in m .. n : u[i] # Cero
               PROVE  u[n] = [mensaje |-> u[m].mensaje, pos |-> u[m].pos + (n - m)]
    BY DEF Corrida
  <2>1. CASE n <= Len(s)
    <3>1. m <= Len(s) /\ m \in 1 .. Len(s) /\ n \in 1 .. Len(s)  BY <1>1, <2>1
    <3>2. \A i \in m .. n : s[i] # Cero
      <4> SUFFICES ASSUME NEW i \in m .. n PROVE s[i] # Cero  OBVIOUS
      <4>1. i \in 1 .. Len(u) /\ i <= Len(s)  BY <1>1, <1>2, <2>1
      <4> QED  BY <1>3, <4>1
    <3>3. s[n] = [mensaje |-> s[m].mensaje, pos |-> s[m].pos + (n - m)]
      BY <3>1, <3>2 DEF Suelta, Corrida
    <3>4. u[n] = s[n] /\ u[m] = s[m]  BY <1>3, <2>1, <3>1
    <3> QED  BY <3>3, <3>4
  <2>2. CASE ~ (m <= Len(s))
    <3>1. ~ (n <= Len(s))  BY <1>1, <2>2
    <3> DEFINE a == m - Len(s)  b == n - Len(s)
    <3>2. a \in 1 .. Len(t) /\ b \in 1 .. Len(t) /\ u[m] = t[a] /\ u[n] = t[b]
      BY <1>4, <2>2, <3>1
    <3>3. a <= b /\ b - a = n - m  BY <1>1
    <3>4. \A i \in a .. b : t[i] # Cero
      <4> SUFFICES ASSUME NEW i \in a .. b PROVE t[i] # Cero  OBVIOUS
      <4> HIDE DEF a, b
      <4>1. a = m - Len(s) /\ b = n - Len(s)  BY DEF a, b
      <4>2. i + Len(s) \in m .. n /\ i + Len(s) \in 1 .. Len(u) /\ ~ (i + Len(s) <= Len(s))
            /\ (i + Len(s)) - Len(s) = i
        BY <1>1, <1>2, <2>2, <3>2, <4>1
      <4>3. u[i + Len(s)] = t[i]  BY <1>4, <4>2, Zenon
      <4> QED  BY <4>2, <4>3
    <3> HIDE DEF a, b
    <3>5. t[b] = [mensaje |-> t[a].mensaje, pos |-> t[a].pos + (b - a)]
      BY <3>2, <3>3, <3>4 DEF Suelta, Corrida
    <3> QED  BY <3>2, <3>3, <3>5
  <2>3. CASE m <= Len(s) /\ ~ (n <= Len(s))
    <3>1. Len(s) \in m .. n /\ Len(s) \in 1 .. Len(u) /\ Len(s) # 0 /\ Len(s) <= Len(s)
      BY <1>1, <1>2, <2>3
    <3>2. s # <<>>  BY <3>1, Vacio
    <3>3. s[Len(s)] = Cero  BY <3>2 DEF AcabaEnCero
    <3>4. u[Len(s)] = s[Len(s)]  BY <1>3, <3>1
    <3> QED  BY <3>1, <3>3, <3>4
  <2> QED  BY <2>1, <2>2, <2>3
<1>6. DeMensajes(u, ms)
  <2> SUFFICES ASSUME NEW n \in 1 .. Len(u), u[n] # Cero
               PROVE  u[n].mensaje \in 1 .. Len(ms) /\ u[n].pos \in 1 .. Cabe(ms[u[n].mensaje])
    BY DEF DeMensajes
  <2>1. CASE n <= Len(s)
    <3>1. n \in 1 .. Len(s) /\ u[n] = s[n]  BY <1>3, <2>1
    <3> QED  BY <3>1 DEF Suelta, DeMensajes
  <2>2. CASE ~ (n <= Len(s))
    <3>1. n - Len(s) \in 1 .. Len(t) /\ u[n] = t[n - Len(s)]  BY <1>4, <2>2
    <3> QED  BY <3>1 DEF Suelta, DeMensajes
  <2> QED  BY <2>1, <2>2
<1>7. u # <<>> => ms # <<>>
  <2>1. s = <<>> /\ t = <<>> => u = <<>>  BY VacioConcat, Vacio DEF u
  <2> QED  BY <2>1 DEF Suelta
<1> QED  BY <1>5, <1>6, <1>7 DEF Suelta, u

LEMMA SueltaCrece ==
  ASSUME NEW s \in Seq(Bytes), NEW ms \in Seq(Longitudes), Len(ms) < MaxMensajes,
         NEW x \in Longitudes, Suelta(s, ms)
  PROVE  Suelta(s, Append(ms, x))
<1> DEFINE ns == Append(ms, x)
<1>1. ns \in Seq(Longitudes) /\ Len(ns) = Len(ms) + 1 /\ Len(ms) \in Nat
      /\ \A k \in 1 .. Len(ms) : ns[k] = ms[k]
  BY MensajeMas, LenProperties
<1> HIDE DEF ns
<1>2. DeMensajes(s, ns)
  <2> SUFFICES ASSUME NEW n \in 1 .. Len(s), s[n] # Cero
               PROVE  s[n].mensaje \in 1 .. Len(ns) /\ s[n].pos \in 1 .. Cabe(ns[s[n].mensaje])
    BY DEF DeMensajes
  <2>1. s[n].mensaje \in 1 .. Len(ms) /\ s[n].pos \in 1 .. Cabe(ms[s[n].mensaje])
    BY DEF Suelta, DeMensajes
  <2>2. s[n].mensaje \in 1 .. Len(ns)  BY <1>1, <2>1
  <2> QED  BY <1>1, <2>1, <2>2
<1>3. ns # <<>>
  <2>1. Len(ns) # 0  BY <1>1
  <2> QED  BY <2>1, Vacio
<1> QED  BY <1>2, <1>3 DEF Suelta, ns

LEMMA SueltaTrama ==
  ASSUME NEW ms \in Seq(Longitudes), Len(ms) < MaxMensajes, NEW x \in Longitudes
  PROVE  /\ Suelta(Trama(Len(ms) + 1, x), Append(ms, x))
         /\ Trama(Len(ms) + 1, x)[FRAME_SIZE] = Cero
<1> DEFINE ns == Append(ms, x)  k == Len(ms) + 1  t == Trama(k, x)  c == Cabe(x)
<1>1. ns \in Seq(Longitudes) /\ Len(ns) = k /\ k \in 1 .. MaxMensajes /\ ns[k] = x
      /\ Len(ms) \in Nat /\ MaxMensajes \in Nat
  BY MensajeMas, LenProperties, LimitesAssumption
<1>2. t \in Seq(Bytes) /\ Len(t) = FRAME_SIZE
      /\ \A i \in 1 .. FRAME_SIZE : t[i] = IF i <= c THEN [mensaje |-> k, pos |-> i] ELSE Cero
  BY <1>1, DeTrama, Zenon
<1>3. c \in Nat /\ c > 0 /\ c < FRAME_SIZE /\ FRAME_SIZE \in Nat  BY CabeAlguno, Tamano
<1>k. k \in Nat /\ k \in 1 .. k /\ k # 0  BY <1>1
<1> HIDE DEF ns, t, c, k
<1>4. \A i \in 1 .. FRAME_SIZE : t[i] # Cero => i <= c /\ t[i] = [mensaje |-> k, pos |-> i]
  BY <1>2
<1>5. Corrida(t)
  <2> SUFFICES ASSUME NEW m \in 1 .. Len(t), NEW n \in 1 .. Len(t), m <= n,
                      \A i \in m .. n : t[i] # Cero
               PROVE  t[n] = [mensaje |-> t[m].mensaje, pos |-> t[m].pos + (n - m)]
    BY DEF Corrida
  <2>1. m \in m .. n /\ n \in m .. n /\ m \in 1 .. FRAME_SIZE /\ n \in 1 .. FRAME_SIZE
        /\ m + (n - m) = n
    BY <1>2, <1>3
  <2>2. t[m] = [mensaje |-> k, pos |-> m] /\ t[n] = [mensaje |-> k, pos |-> n]
    BY <1>4, <2>1
  <2> QED  BY <2>1, <2>2
<1>6. DeMensajes(t, ns)
  <2> SUFFICES ASSUME NEW n \in 1 .. Len(t), t[n] # Cero
               PROVE  t[n].mensaje \in 1 .. Len(ns) /\ t[n].pos \in 1 .. Cabe(ns[t[n].mensaje])
    BY DEF DeMensajes
  <2>1. n \in 1 .. FRAME_SIZE /\ n <= c /\ t[n] = [mensaje |-> k, pos |-> n]  BY <1>2, <1>4
  <2>2. t[n].mensaje = k /\ t[n].pos = n  BY <2>1
  <2>3. n \in 1 .. c  BY <1>3, <2>1
  <2> QED  BY <1>1, <1>k, <2>2, <2>3 DEF c
<1>7. ns # <<>>  BY <1>1, <1>k, Vacio
<1>8. t[FRAME_SIZE] = Cero
  <2>1. FRAME_SIZE \in 1 .. FRAME_SIZE /\ ~ (FRAME_SIZE <= c)  BY <1>3
  <2> QED  BY <1>2, <2>1
<1> QED  BY <1>5, <1>6, <1>7, <1>8 DEF Suelta, t, ns, k

\* The string in a buffer is a part of one message.
LEMMA CadenaDeUno ==
  ASSUME NEW p \in Seq(Bytes), p # <<>>, NEW ms \in Seq(Longitudes), Len(ms) <= MaxMensajes,
         Suelta(p, ms)
  PROVE  \E j \in DOMAIN ms : LET t == Texto(j, Cabe(ms[j])) IN
           \E a \in 1 .. Len(t) + 1, b \in 0 .. Len(t) : Cadena(p) = SubSeq(t, a, b)
<1>0. Len(p) \in Nat /\ Len(ms) \in Nat /\ DOMAIN ms = 1 .. Len(ms) /\ ms # <<>>
      /\ MaxMensajes \in Nat /\ FRAME_SIZE \in Nat
  BY LenProperties, LimitesAssumption, Tamano DEF Suelta
<1>1. PICK m \in 0 .. Len(p) : Cadena(p) = Prefijo(p, m) /\ \A i \in 1 .. m : p[i] # Cero
  BY DeCadena
<1>2. Prefijo(p, m) \in Seq(Bytes) /\ Len(Prefijo(p, m)) = m
      /\ \A i \in 1 .. m : Prefijo(p, m)[i] = p[i]
  BY DePrefijo
<1>3. ASSUME NEW j \in 1 .. Len(ms)
      PROVE  LET t == Texto(j, Cabe(ms[j])) IN
             /\ Cabe(ms[j]) \in Nat /\ t \in Seq(Bytes) /\ Len(t) = Cabe(ms[j])
             /\ \A i \in 1 .. Cabe(ms[j]) : t[i] = [mensaje |-> j, pos |-> i]
  <2>1. ms[j] \in Longitudes  BY ElementOfSeq
  <2>2. Cabe(ms[j]) \in Nat /\ Cabe(ms[j]) <= FRAME_SIZE  BY <2>1, CabeAlguno, <1>0
  <2>3. j \in 1 .. MaxMensajes  BY <1>0
  <2> QED  BY <2>2, <2>3, DeTexto
<1>4. CASE m = 0
  <2>1. 1 \in 1 .. Len(ms)
    <3>1. Len(ms) # 0  BY <1>0, EmptySeq
    <3> QED  BY <1>0, <3>1
  <2> DEFINE t == Texto(1, Cabe(ms[1]))
  <2>2. t \in Seq(Bytes) /\ Len(t) \in Nat  BY <1>3, <2>1
  <2> HIDE DEF t
  <2>3. SubSeq(t, 1, 0) = <<>>  BY SubSeqEmpty
  <2>4. Cadena(p) = <<>>  BY <1>1, <1>2, <1>4, EmptySeq
  <2>5. 1 \in 1 .. Len(t) + 1 /\ 0 \in 0 .. Len(t)  BY <2>2
  <2>6. \E a \in 1 .. Len(t) + 1, b \in 0 .. Len(t) : Cadena(p) = SubSeq(t, a, b)
    BY <2>3, <2>4, <2>5
  <2> QED  BY <1>0, <2>1, <2>6 DEF t
<1>5. CASE m # 0
  <2> DEFINE j == p[1].mensaje  a == p[1].pos  b == a + (m - 1)  t == Texto(j, Cabe(ms[j]))
  <2>1. m \in Nat /\ m >= 1 /\ 1 \in 1 .. Len(p) /\ m \in 1 .. Len(p) /\ 1 \in 1 .. m /\ m \in 1 .. m
    BY <1>0, <1>5
  <2>2. j \in 1 .. Len(ms) /\ a \in 1 .. Cabe(ms[j])
    BY <1>1, <2>1 DEF Suelta, DeMensajes
  <2>3. ASSUME NEW i \in 1 .. m PROVE p[i] = [mensaje |-> j, pos |-> a + (i - 1)]
    <3>1. i \in 1 .. Len(p) /\ 1 <= i /\ 1 .. i \subseteq 1 .. m  BY <1>0, <2>1
    <3>2. \A q \in 1 .. i : p[q] # Cero  BY <1>1, <3>1
    <3> QED  BY <2>1, <3>1, <3>2 DEF Suelta, Corrida
  <2>4. /\ Cabe(ms[j]) \in Nat /\ t \in Seq(Bytes) /\ Len(t) = Cabe(ms[j])
        /\ \A i \in 1 .. Cabe(ms[j]) : t[i] = [mensaje |-> j, pos |-> i]
    BY <1>3, <2>2
  <2>5. b \in 1 .. Cabe(ms[j])
    <3>1. p[m] = [mensaje |-> j, pos |-> b]  BY <2>1, <2>3
    <3>2. p[m].mensaje = j /\ p[m].pos = b /\ p[m] # Cero  BY <1>1, <2>1, <3>1
    <3>3. p[m].pos \in 1 .. Cabe(ms[p[m].mensaje])  BY <2>1, <3>2 DEF Suelta, DeMensajes
    <3> QED  BY <3>2, <3>3
  <2> HIDE DEF t
  <2>6. a \in 1 .. Len(t) + 1 /\ b \in 0 .. Len(t) /\ b - a + 1 = m /\ a <= b /\ a \in Int /\ b \in Int
    <3> HIDE DEF j, a
    <3> QED  BY <2>1, <2>2, <2>4, <2>5
  <2>7. \A i \in a .. b : t[i] \in Bytes
    <3> SUFFICES ASSUME NEW i \in a .. b PROVE t[i] \in Bytes  OBVIOUS
    <3>1. i \in 1 .. Len(t)
      <4> HIDE DEF j, a, b
      <4> QED  BY <2>2, <2>4, <2>5, <2>6
    <3> QED  BY <2>4, <3>1, ElementOfSeq
  <2>8. SubSeq(t, a, b) \in Seq(Bytes) /\ Len(SubSeq(t, a, b)) = m
        /\ \A i \in 1 .. m : SubSeq(t, a, b)[i] = t[a + i - 1]
    <3> HIDE DEF j, a, b
    <3>1. /\ SubSeq(t, a, b) \in Seq(Bytes)
          /\ Len(SubSeq(t, a, b)) = IF a <= b THEN b - a + 1 ELSE 0
          /\ \A i \in 1 .. b - a + 1 : SubSeq(t, a, b)[i] = t[a + i - 1]
      BY <2>6, <2>7, SubSeqProperties
    <3> QED  BY <2>6, <3>1
  <2>9. ASSUME NEW i \in 1 .. m PROVE SubSeq(t, a, b)[i] = Prefijo(p, m)[i]
    <3>1. a + i - 1 \in 1 .. Cabe(ms[j]) /\ a + i - 1 = a + (i - 1)
      <4>1. a \in Int /\ a >= 1 /\ a + (m - 1) <= Cabe(ms[j])
        <5> HIDE DEF j, a
        <5> QED  BY <2>2, <2>4, <2>5
      <4> HIDE DEF j, a, b
      <4> QED  BY <2>1, <2>4, <4>1
    <3>2. t[a + i - 1] = [mensaje |-> j, pos |-> a + i - 1]
      <4> HIDE DEF j, a, b
      <4> QED  BY <2>4, <3>1, Zenon
    <3>3. t[a + i - 1] = p[i]  BY <2>3, <3>1, <3>2
    <3> QED  BY <1>2, <2>8, <3>3
  <2>10. SubSeq(t, a, b) = Prefijo(p, m)
    <3> HIDE DEF j, a, b
    <3> QED  BY <1>2, <2>8, <2>9, SeqEqual
  <2>11. Cadena(p) = SubSeq(t, a, b)  BY <1>1, <2>10
  <2>12. \E x \in 1 .. Len(t) + 1, y \in 0 .. Len(t) : Cadena(p) = SubSeq(t, x, y)
    <3> HIDE DEF j, a, b
    <3> QED  BY <2>6, <2>11, Zenon
  <2> QED  BY <1>0, <2>2, <2>12 DEF t
<1> QED  BY <1>4, <1>5

LEMMA RachaInit == Init => RachaInv /\ SinMezcla
<1> SUFFICES ASSUME Init PROVE RachaInv /\ SinMezcla  OBVIOUS
<1>1. <<>> \o <<>> = <<>> /\ 1 .. Len(<<>>) = {}  BY VacioConcat, Vacio
<1>2. Suelta(<<>>, <<>>)  BY <1>1 DEF Suelta, Corrida, DeMensajes
<1>3. DOMAIN leidosS = {}  BY DEF Init
<1> QED  BY <1>1, <1>2, <1>3 DEF Init, RachaInv, AcabaEnCero, SinMezcla

LEMMA RachaPaso == Tipos /\ RachaInv /\ [Next]_vars => RachaInv'
<1> SUFFICES ASSUME Tipos, RachaInv, [Next]_vars PROVE RachaInv'  OBVIOUS
<1> DEFINE s == aServidor \o porEnviar
<1>0. aServidor \in Seq(Bytes) /\ porEnviar \in Seq(Bytes) /\ mensajesC \in Seq(Longitudes)
  BY DEF Tipos
<1>00. s \in Seq(Bytes) /\ Len(s) \in Nat /\ Len(aServidor) \in Nat /\ Len(porEnviar) \in Nat
       /\ Len(s) = Len(aServidor) + Len(porEnviar)
       /\ \A i \in 1 .. Len(aServidor) + Len(porEnviar) :
            s[i] = IF i <= Len(aServidor) THEN aServidor[i] ELSE porEnviar[i - Len(aServidor)]
  BY <1>0, LenProperties, ConcatProperties
<1>a. Suelta(aServidor, mensajesC)  BY DEF RachaInv
<1>b. enlace = "vivo" => Suelta(s, mensajesC) /\ AcabaEnCero(s)  BY DEF RachaInv
<1>1. CASE UNCHANGED <<enlace, mensajesC, porEnviar, aServidor>>
  BY <1>1 DEF RachaInv
<1>2. CASE enviar
  <2>1. PICK x \in Longitudes : /\ mensajesC' = Append(mensajesC, x)
                                /\ porEnviar' = Trama(Len(mensajesC'), x)
    BY <1>2 DEF enviar
  <2>2. UNCHANGED <<enlace, aServidor>> /\ porEnviar = <<>> /\ Len(mensajesC) < MaxMensajes
    BY <1>2 DEF enviar
  <2> DEFINE t == Trama(Len(mensajesC) + 1, x)
  <2>3. /\ mensajesC' \in Seq(Longitudes) /\ Len(mensajesC') = Len(mensajesC) + 1
        /\ t \in Seq(Bytes) /\ Len(t) = FRAME_SIZE
    BY <1>0, <2>1, <2>2, MensajeMas
  <2>4. porEnviar' = t  BY <2>1, <2>3
  <2>5. Suelta(aServidor, mensajesC')  BY <1>0, <1>a, <2>1, <2>2, SueltaCrece
  <2>6. Suelta(t, mensajesC') /\ t[FRAME_SIZE] = Cero  BY <1>0, <2>1, <2>2, SueltaTrama
  <2> HIDE DEF t
  <2>7. ASSUME enlace = "vivo"
        PROVE  Suelta(aServidor \o t, mensajesC') /\ AcabaEnCero(aServidor \o t)
    <3>1. s = aServidor  BY <1>0, <2>2, VacioConcat
    <3>2. AcabaEnCero(aServidor)  BY <1>b, <2>7, <3>1
    <3>3. Suelta(aServidor \o t, mensajesC')  BY <1>0, <2>3, <2>5, <2>6, <3>2, SueltaUnion
    <3> DEFINE u == aServidor \o t
    <3>4. Len(u) = Len(aServidor) + Len(t)
          /\ \A i \in 1 .. Len(aServidor) + Len(t) :
               u[i] = IF i <= Len(aServidor) THEN aServidor[i] ELSE t[i - Len(aServidor)]
      BY <1>0, <2>3, ConcatProperties
    <3> HIDE DEF u
    <3>5. Len(u) \in 1 .. Len(aServidor) + Len(t) /\ ~ (Len(u) <= Len(aServidor))
          /\ Len(u) - Len(aServidor) = FRAME_SIZE
      BY <1>00, <2>3, <3>4, Tamano
    <3>6. u[Len(u)] = Cero  BY <2>6, <3>4, <3>5, Zenon
    <3> QED  BY <3>3, <3>6 DEF AcabaEnCero, u
  <2> QED  BY <2>2, <2>4, <2>5, <2>7 DEF RachaInv
<1>3. CASE EnviaTrozo
  <2>1. UNCHANGED mensajesC  BY <1>3 DEF EnviaTrozo
  <2>2. /\ aServidor' \o porEnviar' = s /\ enlace' = enlace /\ enlace = "vivo"
        /\ Len(aServidor') <= Len(s)
        /\ \A i \in 1 .. Len(aServidor') : aServidor'[i] = s[i]
    BY <1>3, TrozoEnviado
  <2>3. aServidor' \in Seq(Bytes) /\ Len(aServidor') \in Nat  BY TiposPaso, LenProperties DEF Tipos
  <2>4. Suelta(s, mensajesC)  BY <1>b, <2>2
  <2>5. Suelta(aServidor', mensajesC)
    <3> HIDE DEF s
    <3>1. 0 + Len(aServidor') <= Len(s) /\ \A i \in 1 .. Len(aServidor') : aServidor'[i] = s[0 + i]
      BY <1>00, <2>2, <2>3
    <3> QED  BY <1>0, <1>00, <2>3, <2>4, <3>1, SueltaParte
  <2> QED  BY <1>b, <2>1, <2>2, <2>5 DEF RachaInv
<1>4. CASE EnvioFallido
  <2>1. enlace' # "vivo" /\ UNCHANGED <<mensajesC, aServidor>>  BY <1>4 DEF EnvioFallido
  <2> QED  BY <1>a, <2>1 DEF RachaInv
<1>5. CASE RecibeServidor
  <2>1. PICK n \in 1 .. Len(aServidor) : aServidor' = Resto(aServidor, n)
    BY <1>5 DEF RecibeServidor
  <2>2. UNCHANGED <<enlace, mensajesC, porEnviar>>  BY <1>5 DEF RecibeServidor
  <2> DEFINE r == Resto(aServidor, n)  u == r \o porEnviar
  <2>3. n \in Nat /\ n \in 0 .. Len(aServidor)  BY <1>00, <2>1
  <2>4. r \in Seq(Bytes) /\ Len(r) = Len(aServidor) - n
        /\ \A i \in 1 .. Len(aServidor) - n : r[i] = aServidor[n + i]
    BY <1>0, <2>3, DeResto
  <2> HIDE DEF r
  <2>5. u \in Seq(Bytes) /\ Len(u) = Len(r) + Len(porEnviar)
        /\ \A i \in 1 .. Len(r) + Len(porEnviar) :
             u[i] = IF i <= Len(r) THEN r[i] ELSE porEnviar[i - Len(r)]
    BY <1>0, <2>4, ConcatProperties
  <2> HIDE DEF u, s
  <2>6. Suelta(r, mensajesC)
    <3>1. n + Len(r) <= Len(aServidor) /\ \A i \in 1 .. Len(r) : r[i] = aServidor[n + i]
      BY <1>00, <2>3, <2>4
    <3> QED  BY <1>0, <1>a, <2>3, <2>4, <3>1, SueltaParte
  <2>7. n + Len(u) = Len(s)  BY <1>00, <2>3, <2>4, <2>5
  <2>8. ASSUME NEW i \in 1 .. Len(u) PROVE u[i] = s[n + i]
    <3>1. n + i \in 1 .. Len(aServidor) + Len(porEnviar) /\ i \in 1 .. Len(r) + Len(porEnviar)
          /\ (i <= Len(r) <=> n + i <= Len(aServidor))
          /\ (n + i) - Len(aServidor) = i - Len(r)
      BY <1>00, <2>3, <2>4, <2>5
    <3>2. s[n + i] = IF n + i <= Len(aServidor) THEN aServidor[n + i] ELSE porEnviar[i - Len(r)]
      BY <1>00, <3>1, Zenon
    <3>3. u[i] = IF i <= Len(r) THEN r[i] ELSE porEnviar[i - Len(r)]  BY <2>5, <3>1, Zenon
    <3>4. i <= Len(r) => r[i] = aServidor[n + i]  BY <1>00, <2>3, <2>4
    <3>5. CASE i <= Len(r)  BY <3>1, <3>2, <3>3, <3>4, <3>5
    <3>6. CASE ~ (i <= Len(r))  BY <3>1, <3>2, <3>3, <3>6
    <3> QED  BY <3>5, <3>6
  <2>9. ASSUME enlace = "vivo"
        PROVE  Suelta(u, mensajesC) /\ AcabaEnCero(u)
    <3>1. Suelta(s, mensajesC) /\ AcabaEnCero(s)  BY <1>b, <2>9 DEF s
    <3>2. n + Len(u) <= Len(s)  BY <1>00, <2>7
    <3>3. Suelta(u, mensajesC)
      BY <1>0, <1>00, <2>3, <2>5, <2>8, <3>1, <3>2, SueltaParte
    <3>4. ASSUME u # <<>> PROVE u[Len(u)] = Cero
      <4>1. Len(u) \in Nat /\ Len(u) # 0  BY <2>5, <3>4, EmptySeq
      <4>2. Len(u) \in 1 .. Len(u)  BY <4>1
      <4>3. u[Len(u)] = s[Len(s)]  BY <2>7, <2>8, <4>2, Zenon
      <4>4. s # <<>>
        <5>1. Len(s) # 0  BY <1>00, <2>3, <2>7, <4>1
        <5> QED  BY <5>1, Vacio
      <4> QED  BY <3>1, <4>3, <4>4 DEF AcabaEnCero
    <3> QED  BY <3>3, <3>4 DEF AcabaEnCero
  <2>10. aServidor' = r /\ aServidor' \o porEnviar' = u  BY <2>1, <2>2 DEF r, u
  <2> QED  BY <2>2, <2>6, <2>9, <2>10 DEF RachaInv
<1>6. CASE Corta
  <2>1. PICK n \in 0 .. Len(aServidor) : aServidor' = Prefijo(aServidor, n)  BY <1>6 DEF Corta
  <2>2. UNCHANGED mensajesC /\ enlace' # "vivo"  BY <1>6 DEF Corta
  <2>3. /\ aServidor' \in Seq(Bytes) /\ Len(aServidor') = n
        /\ \A i \in 1 .. n : aServidor'[i] = aServidor[i]
    BY <1>0, <2>1, DePrefijo
  <2>4. 0 + Len(aServidor') <= Len(aServidor)
        /\ \A i \in 1 .. Len(aServidor') : aServidor'[i] = aServidor[0 + i]
    BY <1>00, <2>1, <2>3
  <2>5. Suelta(aServidor', mensajesC)  BY <1>0, <1>a, <2>3, <2>4, SueltaParte
  <2> QED  BY <2>2, <2>5 DEF RachaInv
<1> QED
  BY <1>1, <1>2, <1>3, <1>4, <1>5, <1>6
     DEF Next, Ida, Vuelta, vars, ida, ServidorTermina, EnviaServidor, recibir, RecibeTrozo,
         ReciboFallido

\* What SinMezcla says of one string.
EsParte(c, ms) ==
  \E j \in DOMAIN ms : LET t == Texto(j, Cabe(ms[j])) IN
    \E a \in 1 .. Len(t) + 1, b \in 0 .. Len(t) : c = SubSeq(t, a, b)

LEMMA MezclaPaso == Tipos /\ RachaInv /\ SinMezcla /\ [Next]_vars => SinMezcla'
<1> SUFFICES ASSUME Tipos, RachaInv, SinMezcla, [Next]_vars PROVE SinMezcla'  OBVIOUS
<1>0. aServidor \in Seq(Bytes) /\ mensajesC \in Seq(Longitudes) /\ leidosS \in Seq(Seq(Bytes))
      /\ Len(mensajesC) <= MaxMensajes
  BY DEF Tipos
<1>a. \A k \in DOMAIN leidosS : EsParte(leidosS[k], mensajesC)  BY Zenon DEF SinMezcla, EsParte
<1>b. (\A k \in DOMAIN leidosS : EsParte(leidosS[k], mensajesC))' => SinMezcla'
  BY Zenon DEF SinMezcla, EsParte
<1>1. CASE UNCHANGED <<mensajesC, leidosS>>
  BY <1>1, <1>a, <1>b
<1>2. CASE enviar
  <2>1. PICK x \in Longitudes : mensajesC' = Append(mensajesC, x)  BY <1>2 DEF enviar
  <2>2. leidosS' = leidosS /\ Len(mensajesC) < MaxMensajes  BY <1>2 DEF enviar
  <2>3. mensajesC' \in Seq(Longitudes) /\ Len(mensajesC') = Len(mensajesC) + 1
        /\ \A k \in 1 .. Len(mensajesC) : mensajesC'[k] = mensajesC[k]
    BY <1>0, <2>1, <2>2, MensajeMas
  <2>4. DOMAIN mensajesC = 1 .. Len(mensajesC) /\ DOMAIN mensajesC' = 1 .. Len(mensajesC')
        /\ Len(mensajesC) \in Nat
    BY <1>0, <2>3, LenProperties
  <2>5. \A j \in DOMAIN mensajesC : j \in DOMAIN mensajesC' /\ mensajesC'[j] = mensajesC[j]
    BY <2>3, <2>4
  <2>6. ASSUME NEW k \in DOMAIN leidosS PROVE EsParte(leidosS[k], mensajesC')
    <3>1. EsParte(leidosS[k], mensajesC)  BY <1>a
    <3> QED  BY <2>5, <3>1, Zenon DEF EsParte
  <2> QED  BY <1>b, <2>2, <2>6
<1>3. CASE RecibeServidor
  <2>1. PICK n \in 1 .. Len(aServidor) : leidosS' = Append(leidosS, Cadena(Prefijo(aServidor, n)))
    BY <1>3 DEF RecibeServidor
  <2>2. mensajesC' = mensajesC  BY <1>3 DEF RecibeServidor
  <2> DEFINE p == Prefijo(aServidor, n)
  <2>3. Len(aServidor) \in Nat /\ n \in 0 .. Len(aServidor) /\ n # 0 /\ n \in Nat
    BY <1>0, <2>1, LenProperties
  <2>4. p \in Seq(Bytes) /\ Len(p) = n /\ \A i \in 1 .. n : p[i] = aServidor[i]
    BY <1>0, <2>3, DePrefijo
  <2> HIDE DEF p
  <2>5. p # <<>>  BY <2>3, <2>4, Vacio
  <2>6. Suelta(p, mensajesC)
    <3>1. 0 + Len(p) <= Len(aServidor) /\ \A i \in 1 .. Len(p) : p[i] = aServidor[0 + i]
      BY <2>3, <2>4
    <3>2. Suelta(aServidor, mensajesC)  BY DEF RachaInv
    <3> QED  BY <1>0, <2>4, <3>1, <3>2, SueltaParte
  <2>7. EsParte(Cadena(p), mensajesC)
    BY <1>0, <2>4, <2>5, <2>6, CadenaDeUno, Zenon DEF EsParte
  <2>8. Cadena(p) \in Seq(Bytes)  BY <2>4, TipoCadena
  <2>9. leidosS' = Append(leidosS, Cadena(p))  BY <2>1 DEF p
  <2>10. leidosS' \in Seq(Seq(Bytes)) /\ Len(leidosS') = Len(leidosS) + 1
         /\ (\A k \in 1 .. Len(leidosS) : leidosS'[k] = leidosS[k])
         /\ leidosS'[Len(leidosS) + 1] = Cadena(p)
    BY <1>0, <2>8, <2>9, AppendProperties
  <2>11. DOMAIN leidosS' = 1 .. Len(leidosS) + 1 /\ DOMAIN leidosS = 1 .. Len(leidosS)
         /\ Len(leidosS) \in Nat
    BY <1>0, <2>10, LenProperties
  <2>12. ASSUME NEW k \in 1 .. Len(leidosS) + 1 PROVE EsParte(leidosS'[k], mensajesC)
    <3>1. CASE k \in 1 .. Len(leidosS)  BY <1>a, <2>10, <2>11, <3>1, Zenon
    <3>2. CASE k = Len(leidosS) + 1  BY <2>7, <2>10, <3>2, Zenon
    <3> QED  BY <2>11, <3>1, <3>2
  <2> QED  BY <1>b, <2>2, <2>11, <2>12
<1> QED
  BY <1>1, <1>2, <1>3
     DEF Next, Ida, Vuelta, vars, ida, EnviaTrozo, EnvioFallido, ServidorTermina, EnviaServidor,
         recibir, RecibeTrozo, ReciboFallido, Corta

\* Whatever part of the bytes a recv of the server returns, the string it reads is a part
\* of one message (SinMezcla): the zeros at the end of each frame keep the messages apart.
THEOREM NadaSeMezcla == Spec => []SinMezcla
<1>1. Init => Tipos /\ RachaInv /\ SinMezcla  BY TiposInit, RachaInit
<1>2. Tipos /\ RachaInv /\ SinMezcla /\ [Next]_vars => (Tipos /\ RachaInv /\ SinMezcla)'
  BY TiposPaso, RachaPaso, MezclaPaso
<1> QED  BY <1>1, <1>2, PTL DEF Spec
=============================================================================
