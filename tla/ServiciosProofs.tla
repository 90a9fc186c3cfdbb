-------------------------- MODULE ServiciosProofs --------------------------
(***************************************************************************)
(* Theorems about Servicios, for any forms, masks and bounds.              *)
(***************************************************************************)
EXTENDS Servicios, TLAPS, SequenceTheorems, FiniteSetTheorems, WellFoundedInduction

-----------------------------------------------------------------------------
(* The inductive invariant                                                  *)

Listas == {"GET_SERVICIOS", "FILTER_SERVICIOS"}

\* What a field may say; the provers do not know that a literal is a STRING.
Palabras == STRING \cup {"(cortada)", "(liberada)"}

Campos == [num : Int] \cup [txt : Palabras] \cup [dias : SUBSET Semana]

Filas == [nombre : Nombres, municipio : {f.municipio : f \in Formularios},
          apertura : {f.apertura : f \in Formularios}, cierre : {f.cierre : f \in Formularios},
          fecha : 0 .. 127, tipo : Tipos, capacidad : Nat \ {0},
          descripcion : {f.descripcion : f \in Formularios}]

\* The types, by program.
TipoAdmin ==
  /\ seqServicio \in 0 .. MaxServicio /\ DOMAIN servicio \subseteq 1 .. seqServicio
  /\ servicio \in [DOMAIN servicio -> Filas] /\ tecleado \in [DOMAIN servicio -> Formularios]
  /\ pcA \in {"menu", "escribe", "confirma", "bitacora", "anota"}
  /\ edicion \in {Vacia} \cup Ediciones
  /\ pcA \in {"escribe", "confirma"} => edicion \in Ediciones
  /\ pcA \in {"escribe", "confirma"} /\ edicion.op = "ALTA" => seqServicio < MaxServicio

TipoServidor ==
  /\ DOMAIN foto \subseteq 1 .. MaxServicio /\ foto \in [DOMAIN foto -> Formularios]
  /\ pcS \in {"espera", "abre", "filas", "enviada"} /\ peticion \in {Vacia} \cup Peticiones
  /\ pcS # "espera" => peticion \in Peticiones
  /\ ultimo \in 0 .. MaxServicio /\ ocupada \in BOOLEAN
  /\ trama \in Seq(Seq(Campos)) /\ Len(trama) <= MaxServicio
  /\ pcS = "filas" => Len(trama) <= ultimo

TipoCliente == pcC \in {"menu", "recibe", "muerto"} /\ Len(negocios) <= MaxServicio

\* Whose turn it is.
Turno ==
  /\ pcS \in {"abre", "filas"} => pcC = "recibe"
  /\ pcC = "muerto" => pcS = "enviada"
  /\ pcS = "abre" => trama = <<>> /\ ultimo = 0

\* A row is the last form typed for it, but for its description.
Copia(n, f) ==
  /\ n.nombre = f.nombre /\ n.municipio = f.municipio
  /\ n.apertura = f.apertura /\ n.cierre = f.cierre
  /\ n.fecha = convertirDiasInt(f.dias) /\ n.tipo = f.tipo
  /\ n.capacidad = CapacidadMinima(f.capacidad)

Tabla == \A i \in DOMAIN servicio : Copia(servicio[i], tecleado[i])

\* An open cursor keeps the table as it was at the first step.
Cursor ==
  pcS = "filas" => /\ ~Escribiendo /\ foto = tecleado /\ ~ocupada
                   /\ peticion.op \in Listas

\* The first fields of the line of a form without a '|', and those of any line.
Escrita(i, f) ==
  <<Num(i), Txt(f.nombre[1]), Txt(f.municipio[1]), Txt(f.apertura[1]), Txt(f.cierre[1]),
    Dias(DiasDe(f)), Txt(f.tipo[1]), Num(CapacidadMinima(f.capacidad))>>

Linea(c, i, f) ==
  /\ c[1] = Num(i)
  /\ SinBarra(f) => \A k \in 1 .. 8 : c[k] = Escrita(i, f)[k]

Id(k) == trama[k][1].num

Lineas ==
  /\ \A k \in 1 .. Len(trama) : Id(k) \in DOMAIN foto /\ Linea(trama[k], Id(k), foto[Id(k)])
  /\ \A j, k \in 1 .. Len(trama) : j < k => Id(j) < Id(k)
  /\ pcS = "filas" => \A k \in 1 .. Len(trama) : Id(k) <= ultimo

\* What the handlers' WHERE says of a form.
Pedido(p, f) ==
  /\ FiltroTipo(p) = "TODOS" \/ f.tipo = <<FiltroTipo(p)>>
  /\ \/ FiltroFecha(p) = 0
     \/ \E d \in DiasDe(f) : EnMascara(FiltroFecha(p), d)

\* The lines are the rows asked for, those up to n.
Exacta(n) ==
  /\ \A k \in 1 .. Len(trama) : Pedido(peticion, foto[Id(k)])
  /\ \A i \in DOMAIN foto : i <= n /\ Pedido(peticion, foto[i]) => \E k \in 1 .. Len(trama) : Id(k) = i

ListaInv ==
  /\ pcS = "filas" => Exacta(ultimo)
  /\ pcS = "enviada" /\ peticion.op \in Listas =>
       IF ocupada THEN trama = <<>> ELSE Exacta(MaxServicio)

\* What the client keeps is the parsed lines.
Ficha == Cargada => negocios = [k \in DOMAIN trama |-> crear(parseServicio(trama[k]))]

Tipado == TipoAdmin /\ TipoServidor /\ TipoCliente

IInv == /\ Tipado /\ Turno /\ Tabla /\ Cursor /\ Lineas /\ ListaInv /\ Ficha
        /\ MuereSoloPorSeparador

-----------------------------------------------------------------------------
(* The mask of days.  A fold has no induction to offer here; but the mask   *)
(* of a set of days can be written down, and the fold can only be that.     *)

Bit(b, v) == IF b THEN v ELSE 0

Mascara(D) ==
  Bit(0 \in D, 1) + Bit(1 \in D, 2) + Bit(2 \in D, 4) + Bit(3 \in D, 8) + Bit(4 \in D, 16)
    + Bit(5 \in D, 32) + Bit(6 \in D, 64)

LEMMA Potencias ==
  2^0 = 1 /\ 2^1 = 2 /\ 2^2 = 4 /\ 2^3 = 8 /\ 2^4 = 16 /\ 2^5 = 32 /\ 2^6 = 64
OBVIOUS

LEMMA LosDias == ASSUME NEW d \in Semana
                 PROVE d = 0 \/ d = 1 \/ d = 2 \/ d = 3 \/ d = 4 \/ d = 5 \/ d = 6
BY DEF Semana

\* A number of seven binary digits, and each of them.
LEMMA Digitos ==
  ASSUME NEW a \in 0 .. 1, NEW b \in 0 .. 1, NEW c \in 0 .. 1, NEW d \in 0 .. 1, NEW e \in 0 .. 1,
         NEW f \in 0 .. 1, NEW g \in 0 .. 1
  PROVE  LET m == a + 2 * b + 4 * c + 8 * d + 16 * e + 32 * f + 64 * g IN
         /\ m \in 0 .. 127
         /\ (m \div 1) % 2 = a /\ (m \div 2) % 2 = b /\ (m \div 4) % 2 = c
         /\ (m \div 8) % 2 = d /\ (m \div 16) % 2 = e /\ (m \div 32) % 2 = f
         /\ (m \div 64) % 2 = g
<1> DEFINE m == a + 2 * b + 4 * c + 8 * d + 16 * e + 32 * f + 64 * g
<1>0. m \in 0 .. 127  OBVIOUS
<1>1. (m \div 1) % 2 = a  OBVIOUS
<1>2. (m \div 2) % 2 = b  OBVIOUS
<1>3. (m \div 4) % 2 = c  OBVIOUS
<1>4. (m \div 8) % 2 = d  OBVIOUS
<1>5. (m \div 16) % 2 = e  OBVIOUS
<1>6. (m \div 32) % 2 = f  OBVIOUS
<1>7. (m \div 64) % 2 = g  OBVIOUS
<1> QED  BY <1>0, <1>1, <1>2, <1>3, <1>4, <1>5, <1>6, <1>7

LEMMA DeMascara ==
  ASSUME NEW D
  PROVE  Mascara(D) \in 0 .. 127 /\ \A d \in Semana : EnMascara(Mascara(D), d) <=> d \in D
<1> DEFINE B(i) == IF i \in D THEN 1 ELSE 0
           m == B(0) + 2 * B(1) + 4 * B(2) + 8 * B(3) + 16 * B(4) + 32 * B(5) + 64 * B(6)
<1>1. \A i : B(i) \in 0 .. 1 /\ (B(i) = 1 <=> i \in D)  OBVIOUS
<1>2. Mascara(D) = m  BY DEF Mascara, Bit
<1> HIDE DEF B
<1>3. /\ m \in 0 .. 127
      /\ (m \div 1) % 2 = B(0) /\ (m \div 2) % 2 = B(1) /\ (m \div 4) % 2 = B(2)
      /\ (m \div 8) % 2 = B(3) /\ (m \div 16) % 2 = B(4) /\ (m \div 32) % 2 = B(5)
      /\ (m \div 64) % 2 = B(6)
  BY <1>1, Digitos
<1> HIDE DEF m
<1>4. ASSUME NEW d \in Semana PROVE EnMascara(m, d) <=> d \in D
  <2>0. CASE d = 0  BY <1>1, <1>3, <2>0, Potencias DEF EnMascara
  <2>1. CASE d = 1  BY <1>1, <1>3, <2>1, Potencias DEF EnMascara
  <2>2. CASE d = 2  BY <1>1, <1>3, <2>2, Potencias DEF EnMascara
  <2>3. CASE d = 3  BY <1>1, <1>3, <2>3, Potencias DEF EnMascara
  <2>4. CASE d = 4  BY <1>1, <1>3, <2>4, Potencias DEF EnMascara
  <2>5. CASE d = 5  BY <1>1, <1>3, <2>5, Potencias DEF EnMascara
  <2>6. CASE d = 6  BY <1>1, <1>3, <2>6, Potencias DEF EnMascara
  <2> QED  BY <2>0, <2>1, <2>2, <2>3, <2>4, <2>5, <2>6, LosDias
<1> QED  BY <1>2, <1>3, <1>4

\* One turn of the loop over the words of a form.
Palabra(m, d) == IF d \in Semana /\ ~EnMascara(m, d) THEN m + 2^d ELSE m

LEMMA UnaPalabra ==
  ASSUME NEW D, NEW d
  PROVE  Palabra(Mascara(D), d) = Mascara(D \cup {d})
<1> DEFINE E == D \cup {d}
<1>1. \A i : i # d => (i \in E <=> i \in D)  OBVIOUS
<1>2. d \in E  OBVIOUS
<1>3. CASE d \notin Semana
  <2>1. \A i \in Semana : i \in E <=> i \in D  BY <1>1, <1>3
  <2>2. 0 \in Semana /\ 1 \in Semana /\ 2 \in Semana /\ 3 \in Semana /\ 4 \in Semana
        /\ 5 \in Semana /\ 6 \in Semana
    BY DEF Semana
  <2> HIDE DEF E
  <2>3. Mascara(E) = Mascara(D)  BY <2>1, <2>2 DEF Mascara
  <2> QED  BY <1>3, <2>3 DEF Palabra, E
<1>4. CASE d \in D
  <2>1. E = D  BY <1>4
  <2>2. d \in Semana => EnMascara(Mascara(D), d)  BY <1>4, DeMascara
  <2> QED  BY <2>1, <2>2 DEF Palabra
<1>5. CASE d \in Semana /\ d \notin D
  <2>1. ~EnMascara(Mascara(D), d)  BY <1>5, DeMascara
  <2>2. Palabra(Mascara(D), d) = Mascara(D) + 2^d  BY <1>5, <2>1 DEF Palabra
  <2> HIDE DEF E
  <2>3. Mascara(E) = Mascara(D) + 2^d
    <3>0. CASE d = 0  BY <1>1, <1>2, <1>5, <3>0, Potencias DEF Mascara, Bit
    <3>1. CASE d = 1  BY <1>1, <1>2, <1>5, <3>1, Potencias DEF Mascara, Bit
    <3>2. CASE d = 2  BY <1>1, <1>2, <1>5, <3>2, Potencias DEF Mascara, Bit
    <3>3. CASE d = 3  BY <1>1, <1>2, <1>5, <3>3, Potencias DEF Mascara, Bit
    <3>4. CASE d = 4  BY <1>1, <1>2, <1>5, <3>4, Potencias DEF Mascara, Bit
    <3>5. CASE d = 5  BY <1>1, <1>2, <1>5, <3>5, Potencias DEF Mascara, Bit
    <3>6. CASE d = 6  BY <1>1, <1>2, <1>5, <3>6, Potencias DEF Mascara, Bit
    <3> QED  BY <1>5, <3>0, <3>1, <3>2, <3>3, <3>4, <3>5, <3>6, LosDias
  <2> QED  BY <2>2, <2>3 DEF E
<1> QED  BY <1>3, <1>4, <1>5

\* A set of natural numbers has a least one, and one below a bound a greatest.
LEMMA Menor ==
  ASSUME NEW T, T \subseteq Nat, T # {}
  PROVE  \E x \in T : \A y \in T : x <= y
<1> DEFINE H == {h \in SUBSET Nat : \E x \in T : h = 0 .. x}
<1>1. H \subseteq FiniteSubsetsOf(Nat)
  <2> SUFFICES ASSUME NEW x \in T PROVE 0 .. x \in FiniteSubsetsOf(Nat)  OBVIOUS
  <2>1. x \in Int /\ 0 \in Int /\ 0 .. x \in SUBSET Nat  OBVIOUS
  <2>2. IsFiniteSet(0 .. x)  BY <2>1, FS_Interval
  <2> QED  BY <2>1, <2>2 DEF FiniteSubsetsOf
<1>2. H # {}
  <2>1. PICK x \in T : TRUE  OBVIOUS
  <2>2. 0 .. x \in H  BY <2>1
  <2> QED  BY <2>2
<1>3. PICK h \in H : \A g \in H : ~ (<<g, h>> \in StrictSubsetOrdering(Nat))
  <2> HIDE DEF H
  <2> QED  BY <1>1, <1>2, FS_StrictSubsetOrderingWellFounded, WFMin
<1>4. PICK x \in T : h = 0 .. x  BY <1>3
<1>5. ASSUME NEW y \in T, ~ (x <= y) PROVE FALSE
  <2>1. x \in Nat /\ y \in Nat /\ y < x  BY <1>5
  <2>2. 0 .. y \in H  BY <2>1
  <2>3. 0 .. y \subseteq 0 .. x /\ x \in 0 .. x /\ x \notin 0 .. y  BY <2>1
  <2>4. 0 .. y # 0 .. x  BY <2>3
  <2>5. <<0 .. y, h>> \in StrictSubsetOrdering(Nat)
    BY <1>3, <1>4, <2>2, <2>3, <2>4 DEF StrictSubsetOrdering
  <2> QED  BY <1>3, <2>2, <2>5
<1> QED  BY <1>5

LEMMA ElMayor ==
  ASSUME NEW n \in Nat, NEW s \in SUBSET (1 .. n), s # {}
  PROVE  Max(s) \in s
<1> DEFINE T == {n - x : x \in s}
<1>1. T \subseteq Nat /\ T # {}
  <2>1. \A x \in s : x \in Int /\ n - x \in Nat  OBVIOUS
  <2>2. PICK x \in s : TRUE  OBVIOUS
  <2>3. n - x \in T  OBVIOUS
  <2> QED  BY <2>1, <2>3
<1>2. PICK y \in T : \A z \in T : y <= z
  <2> HIDE DEF T
  <2> QED  BY <1>1, Menor
<1>3. PICK x \in s : y = n - x  BY <1>2
<1>4. \A w \in s : x >= w
  <2> SUFFICES ASSUME NEW w \in s PROVE x >= w  OBVIOUS
  <2>1. n - w \in T  OBVIOUS
  <2>2. n - x <= n - w  BY <1>2, <1>3, <2>1
  <2>3. x \in Int /\ w \in Int  OBVIOUS
  <2> QED  BY <2>2, <2>3
<1> QED  BY <1>3, <1>4 DEF Max

\* The function by which the fold is defined.
Recorrido(t, it) ==
  it = [s \in SUBSET DOMAIN t |-> IF s = {} THEN 0 ELSE Palabra(it[s \ {Max(s)}], t[Max(s)])]

LEMMA ElPliegue ==
  ASSUME NEW t, NEW it, Recorrido(t, it), \A jt : Recorrido(t, jt) => jt = it
  PROVE  convertirDiasInt(t) = it[DOMAIN t]
<1> DEFINE g == CHOOSE jt : Recorrido(t, jt)
<1>1. Recorrido(t, g)  BY Zenon
<1>2. convertirDiasInt(t) = g[DOMAIN t]
  BY DEF convertirDiasInt, FoldLeft, MapThenFoldSet, Recorrido, Palabra
<1> QED  BY <1>1, <1>2

\* The mask the administration program stores is the set of the days that were typed: in
\* any order, repeated, or among words that are none.
THEOREM MascaraExacta ==
  ASSUME NEW t \in Seq(Nat)
  PROVE  /\ convertirDiasInt(t) \in 0 .. 127
         /\ \A d \in Semana : EnMascara(convertirDiasInt(t), d) <=> d \in Range(t)
<1> DEFINE n == Len(t)  U == SUBSET (1 .. n)  En(s) == {t[i] : i \in s}
           it == [s \in U |-> Mascara(En(s))]
<1>0. n \in Nat /\ DOMAIN t = 1 .. n  BY LenProperties
<1>1. ASSUME NEW s \in U, s # {}
      PROVE  /\ Max(s) \in s /\ s \ {Max(s)} \in U
             /\ Mascara(En(s)) = Palabra(Mascara(En(s \ {Max(s)})), t[Max(s)])
  <2>1. Max(s) \in s  BY <1>0, <1>1, ElMayor
  <2>2. En(s) = En(s \ {Max(s)}) \cup {t[Max(s)]}
    <3> HIDE DEF n
    <3> QED  BY <2>1
  <2>3. Palabra(Mascara(En(s \ {Max(s)})), t[Max(s)]) = Mascara(En(s \ {Max(s)}) \cup {t[Max(s)]})
    <3> HIDE DEF En
    <3> QED  BY UnaPalabra
  <2> QED  BY <2>1, <2>2, <2>3
<1>2. Mascara(En({})) = 0
  <2>1. En({}) = {}  OBVIOUS
  <2> QED  BY <2>1 DEF Mascara, Bit
<1>3. Recorrido(t, it)
  <2>1. ASSUME NEW s \in U
        PROVE  it[s] = IF s = {} THEN 0 ELSE Palabra(it[s \ {Max(s)}], t[Max(s)])
    <3> HIDE DEF U, En
    <3>1. CASE s = {}  BY <1>2, <3>1
    <3>2. CASE s # {}  BY <1>1, <3>2
    <3> QED  BY <3>1, <3>2
  <2>2. it = [s \in U |-> IF s = {} THEN 0 ELSE Palabra(it[s \ {Max(s)}], t[Max(s)])]
    <3>1. it = [s \in U |-> it[s]]  OBVIOUS
    <3> HIDE DEF it, U
    <3> QED  BY <2>1, <3>1
  <2> HIDE DEF it
  <2> QED  BY <1>0, <2>2 DEF Recorrido
<1>4. ASSUME NEW jt, Recorrido(t, jt) PROVE jt = it
  <2>1. jt = [s \in U |-> IF s = {} THEN 0 ELSE Palabra(jt[s \ {Max(s)}], t[Max(s)])]
    BY <1>0, <1>4 DEF Recorrido
  <2> DEFINE Mal == {s \in U : jt[s] # it[s]}
  <2>2. Mal = {}
    <3> SUFFICES ASSUME Mal # {} PROVE FALSE  OBVIOUS
    <3>1. U \subseteq FiniteSubsetsOf(1 .. n)
      <4>1. 1 \in Int /\ n \in Int  BY <1>0
      <4>2. IsFiniteSet(1 .. n)  BY <4>1, FS_Interval
      <4> QED  BY <4>2, FS_Subset DEF FiniteSubsetsOf
    <3>2. PICK s \in Mal : \A r \in Mal : ~ (<<r, s>> \in StrictSubsetOrdering(1 .. n))
      <4>1. Mal \subseteq FiniteSubsetsOf(1 .. n)  BY <3>1
      <4> HIDE DEF Mal, U
      <4> QED  BY <4>1, FS_StrictSubsetOrderingWellFounded, WFMin
    <3>3. s # {}
      <4> SUFFICES ASSUME s = {} PROVE FALSE  OBVIOUS
      <4>1. {} \in U  OBVIOUS
      <4>2. jt[{}] = 0
        <5> HIDE DEF U
        <5> QED  BY <2>1, <4>1
      <4>3. it[{}] = 0  BY <1>2
      <4> QED  BY <3>2, <4>2, <4>3
    <3> DEFINE r == s \ {Max(s)}
    <3>4. s \in U /\ Max(s) \in s /\ r \in U /\ r # s  BY <1>1, <3>2, <3>3
    <3>5. r \notin Mal
      <4>1. <<r, s>> \in StrictSubsetOrdering(1 .. n)  BY <3>4 DEF StrictSubsetOrdering
      <4> HIDE DEF Mal
      <4> QED  BY <3>2, <4>1
    <3>6. jt[r] = it[r]  BY <3>4, <3>5
    <3>7. jt[s] = Palabra(jt[r], t[Max(s)])
      <4> HIDE DEF U
      <4> QED  BY <2>1, <3>3, <3>4
    <3>8. it[s] = Palabra(it[r], t[Max(s)])
      <4>1. it[s] = Mascara(En(s)) /\ it[r] = Mascara(En(r))
        <5> HIDE DEF U, En
        <5> QED  BY <3>4
      <4>2. Mascara(En(s)) = Palabra(Mascara(En(r)), t[Max(s)])
        <5> HIDE DEF U, En
        <5> QED  BY <1>1, <3>3, <3>4
      <4> QED  BY <4>1, <4>2, Zenon
    <3>9. jt[s] = it[s]  BY <3>6, <3>7, <3>8, Zenon
    <3> QED  BY <3>2, <3>9
  <2>3. \A s \in U : jt[s] = it[s]  BY <2>2
  <2>4. jt = [s \in U |-> jt[s]] /\ it = [s \in U |-> it[s]]
    <3> HIDE DEF U
    <3> QED  BY <2>1
  <2> HIDE DEF it, U
  <2> QED  BY <2>3, <2>4
<1>5. convertirDiasInt(t) = it[1 .. n]
  <2> HIDE DEF it
  <2> QED  BY <1>0, <1>3, <1>4, ElPliegue
<1>6. it[1 .. n] = Mascara(En(1 .. n))  OBVIOUS
<1>7. En(1 .. n) = Range(t)
  <2>1. ASSUME NEW x \in En(1 .. n) PROVE x \in Range(t)
    <3>1. PICK i \in DOMAIN t : x = t[i]  BY <1>0, <2>1
    <3> QED  BY <3>1 DEF Range
  <2>2. ASSUME NEW x \in Range(t) PROVE x \in En(1 .. n)
    <3>1. PICK i \in DOMAIN t : x = t[i]  BY <2>2 DEF Range
    <3> QED  BY <1>0, <3>1
  <2> QED  BY <2>1, <2>2
<1>8. convertirDiasInt(t) = Mascara(Range(t))  BY <1>5, <1>6, <1>7, Zenon
<1> HIDE DEF n, U, En, it
<1>9. /\ Mascara(Range(t)) \in 0 .. 127
      /\ \A d \in Semana : EnMascara(Mascara(Range(t)), d) <=> d \in Range(t)
  BY DeMascara, Zenon
<1> QED  BY <1>8, <1>9, Zenon

-----------------------------------------------------------------------------
(* A row and a line                                                         *)

LEMMA LaForma ==
  ASSUME NEW f \in Formularios
  PROVE  /\ f.nombre \in Nombres /\ f.nombre \in Seq(STRING) /\ f.nombre # <<>>
         /\ f.municipio \in Seq(STRING) /\ f.apertura \in Seq(STRING)
         /\ f.cierre \in Seq(STRING)
         /\ f.tipo \in Tipos /\ f.tipo \in Seq(STRING) /\ f.tipo # <<>>
         /\ f.dias \in Seq(Nat) /\ f.capacidad \in Int
         /\ f.descripcion \in Seq(STRING) /\ f.descripcion # <<>>
BY FormulariosAssumption DEF Nombres, Tipos

\* The days of the mask that is stored are those of the form.
LEMMA LosDiasDe ==
  ASSUME NEW f \in Formularios
  PROVE  /\ convertirDiasInt(f.dias) \in 0 .. 127
         /\ convertirIntDias(convertirDiasInt(f.dias)) = DiasDe(f)
         /\ \A d \in Semana : EnMascara(convertirDiasInt(f.dias), d) <=> d \in DiasDe(f)
<1> DEFINE m == convertirDiasInt(f.dias)
<1>1. f.dias \in Seq(Nat)  BY LaForma
<1>2. m \in 0 .. 127 /\ \A d \in Semana : EnMascara(m, d) <=> d \in Range(f.dias)
  BY <1>1, MascaraExacta
<1> HIDE DEF m
<1>3. convertirIntDias(m) = DiasDe(f)  BY <1>2, Zenon DEF convertirIntDias, DiasDe
<1>4. \A d \in Semana : EnMascara(m, d) <=> d \in DiasDe(f)  BY <1>2, Zenon DEF DiasDe
<1> QED  BY <1>2, <1>3, <1>4 DEF m

LEMMA LaFila ==
  ASSUME NEW f \in Formularios
  PROVE  Negocio(f) \in Filas /\ Copia(Negocio(f), f)
<1>1. CapacidadMinima(f.capacidad) \in Nat \ {0}  BY LaForma DEF CapacidadMinima
<1>2. convertirDiasInt(f.dias) \in 0 .. 127  BY LosDiasDe
<1>3. /\ f.descripcion \in {g.descripcion : g \in Formularios}
      /\ f.municipio \in {g.municipio : g \in Formularios}
      /\ f.apertura \in {g.apertura : g \in Formularios}
      /\ f.cierre \in {g.cierre : g \in Formularios}
  OBVIOUS
<1>4. Negocio(f) \in Filas  BY <1>1, <1>2, <1>3, LaForma DEF Negocio, Filas
<1>5. Copia(Negocio(f), f)  BY DEF Negocio, Copia
<1> QED  BY <1>4, <1>5

LEMMA LaDescripcion ==
  ASSUME NEW d \in {f.descripcion : f \in Formularios}
  PROVE  d \in Seq(Palabras) /\ d # <<>>
<1>1. PICK f \in Formularios : d = f.descripcion  OBVIOUS
<1>2. d \in Seq(STRING) /\ d # <<>>  BY <1>1, LaForma
<1>3. STRING \subseteq Palabras  BY DEF Palabras
<1> QED  BY <1>2, <1>3, SeqMonotonic

LEMMA Intervalos == \A a, b \in Nat : 1 .. a = 1 .. b => a = b
<1> SUFFICES ASSUME NEW a \in Nat, NEW b \in Nat, 1 .. a = 1 .. b, a # b PROVE FALSE
  OBVIOUS
<1>1. CASE a < b
  <2>1. b \in 1 .. b /\ b \notin 1 .. a  BY <1>1
  <2> QED  BY <2>1
<1>2. CASE b < a
  <2>1. a \in 1 .. a /\ a \notin 1 .. b  BY <1>2
  <2> QED  BY <2>1
<1> QED  BY <1>1, <1>2

\* A function on 1 .. n is a sequence of length n.
LEMMA FuncionEsSecuencia ==
  ASSUME NEW S, NEW n \in Nat, NEW f \in [1 .. n -> S]
  PROVE  f \in Seq(S) /\ Len(f) = n
<1>1. f \in Seq(S)  BY SeqDef
<1>2. Len(f) \in Nat /\ DOMAIN f = 1 .. Len(f)  BY <1>1, LenProperties
<1>3. 1 .. Len(f) = 1 .. n  BY <1>2
<1> QED  BY <1>1, <1>2, <1>3, Intervalos

LEMMA LosCampos ==
  /\ \A n \in Int : Num(n) \in Campos
  /\ \A t \in Palabras : Txt(t) \in Campos
  /\ \A ds \in SUBSET Semana : Dias(ds) \in Campos
BY DEF Campos, Num, Txt, Dias

LEMMA LasPartes ==
  ASSUME NEW t \in Seq(Palabras)
  PROVE  /\ Partes(t) \in Seq(Campos) /\ Len(Partes(t)) = Len(t)
         /\ \A k \in 1 .. Len(t) : Partes(t)[k] = Txt(t[k])
<1>1. Len(t) \in Nat /\ DOMAIN t = 1 .. Len(t)  BY LenProperties
<1>2. \A k \in 1 .. Len(t) : t[k] \in Palabras  BY ElementOfSeq
<1>3. \A k \in 1 .. Len(t) : Txt(t[k]) \in Campos  BY <1>2, LosCampos
<1>4. Partes(t) \in [1 .. Len(t) -> Campos]  BY <1>1, <1>3, Zenon DEF Partes
<1>5. \A k \in 1 .. Len(t) : Partes(t)[k] = Txt(t[k])  BY <1>1, Zenon DEF Partes
<1> QED  BY <1>1, <1>4, <1>5, FuncionEsSecuencia

LEMMA LoQueCabe ==
  ASSUME NEW d \in Seq(Palabras), d # <<>>
  PROVE  Cabe(d) \in Seq(Palabras)
<1>1. Len(d) \in Nat \ {0}  BY EmptySeq
<1>2. Len(d) \in 1 .. Len(d)  BY <1>1
<1>3. "(cortada)" \in Palabras  BY DEF Palabras
<1>4. [d EXCEPT ![Len(d)] = "(cortada)"] \in Seq(Palabras)  BY <1>2, <1>3, ExceptSeq
<1> QED  BY <1>4 DEF Cabe

LEMMA Junta ==
  ASSUME NEW s \in Seq(Campos), NEW t \in Seq(Campos)
  PROVE  /\ s \o t \in Seq(Campos) /\ Len(s) \in Nat /\ Len(t) \in Nat
         /\ Len(s \o t) = Len(s) + Len(t)
         /\ \A k \in 1 .. Len(s) : (s \o t)[k] = s[k]
         /\ Len(t) > 0 => (s \o t)[Len(s) + 1] = t[1]
<1> DEFINE u == s \o t
<1>1. Len(s) \in Nat /\ Len(t) \in Nat  BY LenProperties
<1>2. u \in Seq(Campos) /\ Len(u) = Len(s) + Len(t)  BY ConcatProperties
<1>3. \A k \in 1 .. Len(s) + Len(t) : u[k] = IF k <= Len(s) THEN s[k] ELSE t[k - Len(s)]
  BY ConcatProperties
<1> HIDE DEF u
<1>4. \A k \in 1 .. Len(s) : u[k] = s[k]  BY <1>1, <1>3
<1>5. Len(t) > 0 => u[Len(s) + 1] = t[1]
  <2> SUFFICES ASSUME Len(t) > 0 PROVE u[Len(s) + 1] = t[1]  OBVIOUS
  <2> DEFINE k == Len(s) + 1
  <2>1. k \in 1 .. Len(s) + Len(t) /\ ~ (k <= Len(s)) /\ k - Len(s) = 1  BY <1>1
  <2> HIDE DEF k
  <2>2. u[k] = t[k - Len(s)]  BY <1>3, <2>1
  <2> QED  BY <2>1, <2>2 DEF k
<1> QED  BY <1>1, <1>2, <1>4, <1>5 DEF u

\* The beginning of a line: its first field is that of w, and if b all its m fields are.
Empieza(s, m, w, b) ==
  /\ s \in Seq(Campos) /\ Len(s) > 0 /\ s[1] = w[1]
  /\ b => Len(s) = m /\ \A k \in 1 .. m : s[k] = w[k]

LEMMA Sigue ==
  ASSUME NEW s, NEW t \in Seq(Campos), NEW m \in Nat, NEW w, NEW b, Empieza(s, m, w, b),
         b => Len(t) = 1 /\ t[1] = w[m + 1]
  PROVE  Empieza(s \o t, m + 1, w, b)
<1> DEFINE u == s \o t
<1>1. s \in Seq(Campos) /\ Len(s) > 0 /\ s[1] = w[1]  BY DEF Empieza
<1>2. /\ u \in Seq(Campos) /\ Len(s) \in Nat /\ Len(t) \in Nat /\ Len(u) = Len(s) + Len(t)
      /\ \A k \in 1 .. Len(s) : u[k] = s[k]
      /\ Len(t) > 0 => u[Len(s) + 1] = t[1]
  BY <1>1, Junta
<1> HIDE DEF u
<1>3. 1 \in 1 .. Len(s)  BY <1>1, <1>2
<1>4. Len(u) > 0 /\ u[1] = w[1]  BY <1>1, <1>2, <1>3
<1>5. ASSUME b PROVE Len(u) = m + 1 /\ \A k \in 1 .. m + 1 : u[k] = w[k]
  <2>1. Len(s) = m /\ (\A k \in 1 .. m : s[k] = w[k]) /\ Len(t) = 1 /\ t[1] = w[m + 1]
    BY <1>5 DEF Empieza
  <2>2. \A k \in 1 .. m : u[k] = w[k]  BY <1>2, <2>1
  <2>3. u[m + 1] = w[m + 1]  BY <1>2, <2>1
  <2>4. \A k \in 1 .. m + 1 : k \in 1 .. m \/ k = m + 1  OBVIOUS
  <2> QED  BY <1>2, <2>1, <2>2, <2>3, <2>4
<1> QED  BY <1>2, <1>4, <1>5 DEF Empieza, u

\* A text of the form, in the line.
LEMMA ElTexto ==
  ASSUME NEW t \in Seq(STRING)
  PROVE  Partes(t) \in Seq(Campos) /\ (Len(t) = 1 => Len(Partes(t)) = 1 /\ Partes(t)[1] = Txt(t[1]))
<1>1. STRING \subseteq Palabras  BY DEF Palabras
<1>2. t \in Seq(Palabras)  BY <1>1, SeqMonotonic
<1> QED  BY <1>2, LasPartes

LEMMA LaLinea ==
  ASSUME NEW i \in Nat, NEW n \in Filas, NEW d \in Seq(Palabras), d # <<>>,
         NEW f \in Formularios, Copia(n, f)
  PROVE  /\ svc_format_negocio_con_id(i, n, d) \in Seq(Campos)
         /\ Len(svc_format_negocio_con_id(i, n, d)) > 0
         /\ Linea(svc_format_negocio_con_id(i, n, d), i, f)
<1> DEFINE a1 == <<Num(i)>>
           b2 == Partes(n.nombre)
           b3 == Partes(n.municipio)
           b4 == Partes(n.apertura)
           b5 == Partes(n.cierre)
           b6 == <<Dias(convertirIntDias(n.fecha))>>
           b7 == Partes(n.tipo)
           b8 == <<Num(n.capacidad)>>
           b9 == Partes(Cabe(d))
           a2 == a1 \o b2
           a3 == a2 \o b3
           a4 == a3 \o b4
           a5 == a4 \o b5
           a6 == a5 \o b6
           a7 == a6 \o b7
           a8 == a7 \o b8
           a9 == a8 \o b9
           w == Escrita(i, f)
           b == SinBarra(f)
<1>1. svc_format_negocio_con_id(i, n, d) = a9  BY DEF svc_format_negocio_con_id
<1>2. /\ w[1] = Num(i) /\ w[2] = Txt(f.nombre[1]) /\ w[3] = Txt(f.municipio[1])
      /\ w[4] = Txt(f.apertura[1]) /\ w[5] = Txt(f.cierre[1]) /\ w[6] = Dias(DiasDe(f))
      /\ w[7] = Txt(f.tipo[1]) /\ w[8] = Num(CapacidadMinima(f.capacidad))
  BY DEF Escrita
<1>3. b => /\ Len(f.nombre) = 1 /\ Len(f.municipio) = 1 /\ Len(f.apertura) = 1
           /\ Len(f.cierre) = 1 /\ Len(f.tipo) = 1
  BY DEF SinBarra
<1> HIDE DEF w, b
<1>4. a1 \in Seq(Campos) /\ Len(a1) = 1 /\ a1[1] = Num(i)
  <2>1. Num(i) \in Campos  BY LosCampos
  <2> QED  BY <2>1
<1>5. b2 \in Seq(Campos) /\ (b => Len(b2) = 1 /\ b2[1] = w[2])
  BY <1>2, <1>3, LaForma, ElTexto DEF Copia
<1>6. b3 \in Seq(Campos) /\ (b => Len(b3) = 1 /\ b3[1] = w[3])
  BY <1>2, <1>3, LaForma, ElTexto DEF Copia
<1>7. b4 \in Seq(Campos) /\ (b => Len(b4) = 1 /\ b4[1] = w[4])
  BY <1>2, <1>3, LaForma, ElTexto DEF Copia
<1>8. b5 \in Seq(Campos) /\ (b => Len(b5) = 1 /\ b5[1] = w[5])
  BY <1>2, <1>3, LaForma, ElTexto DEF Copia
<1>9. b6 \in Seq(Campos) /\ (b => Len(b6) = 1 /\ b6[1] = w[6])
  <2>1. convertirIntDias(n.fecha) = DiasDe(f)  BY LosDiasDe DEF Copia
  <2>2. DiasDe(f) \in SUBSET Semana  BY DEF DiasDe
  <2>3. Dias(DiasDe(f)) \in Campos  BY <2>2, LosCampos
  <2> QED  BY <1>2, <2>1, <2>3
<1>10. b7 \in Seq(Campos) /\ (b => Len(b7) = 1 /\ b7[1] = w[7])
  BY <1>2, <1>3, LaForma, ElTexto DEF Copia
<1>11. b8 \in Seq(Campos) /\ (b => Len(b8) = 1 /\ b8[1] = w[8])
  <2>1. n.capacidad \in Int /\ n.capacidad = CapacidadMinima(f.capacidad)  BY DEF Filas, Copia
  <2>2. Num(n.capacidad) \in Campos  BY <2>1, LosCampos
  <2> QED  BY <1>2, <2>1, <2>2
<1>12. b9 \in Seq(Campos)  BY LoQueCabe, LasPartes
<1> HIDE DEF a1, b2, b3, b4, b5, b6, b7, b8, b9
<1>13. Empieza(a1, 1, w, b)
  <2>1. \A k \in 1 .. 1 : k = 1  OBVIOUS
  <2> QED  BY <1>2, <1>4, <2>1 DEF Empieza
<1>14. 1 + 1 = 2 /\ 2 + 1 = 3 /\ 3 + 1 = 4 /\ 4 + 1 = 5 /\ 5 + 1 = 6 /\ 6 + 1 = 7 /\ 7 + 1 = 8
  OBVIOUS
<1>15. Empieza(a2, 2, w, b)  BY <1>5, <1>13, <1>14, Sigue
<1>16. Empieza(a3, 3, w, b)  BY <1>6, <1>14, <1>15, Sigue
<1>17. Empieza(a4, 4, w, b)  BY <1>7, <1>14, <1>16, Sigue
<1>18. Empieza(a5, 5, w, b)  BY <1>8, <1>14, <1>17, Sigue
<1>19. Empieza(a6, 6, w, b)  BY <1>9, <1>14, <1>18, Sigue
<1>20. Empieza(a7, 7, w, b)  BY <1>10, <1>14, <1>19, Sigue
<1>21. Empieza(a8, 8, w, b)  BY <1>11, <1>14, <1>20, Sigue
<1> HIDE DEF a8
<1>22. a8 \in Seq(Campos) /\ Len(a8) > 0 /\ a8[1] = w[1]
       /\ (b => Len(a8) = 8 /\ \A k \in 1 .. 8 : a8[k] = w[k])
  BY <1>21 DEF Empieza
<1>23. /\ a9 \in Seq(Campos) /\ Len(a8) \in Nat /\ Len(b9) \in Nat /\ Len(a9) = Len(a8) + Len(b9)
       /\ \A k \in 1 .. Len(a8) : a9[k] = a8[k]
  BY <1>12, <1>22, Junta
<1> HIDE DEF a9
<1>24. 1 \in 1 .. Len(a8)  BY <1>22, <1>23
<1>25. Len(a9) > 0 /\ a9[1] = Num(i)  BY <1>2, <1>22, <1>23, <1>24
<1>26. b => \A k \in 1 .. 8 : a9[k] = w[k]  BY <1>22, <1>23
<1>27. Linea(a9, i, f)  BY <1>25, <1>26 DEF Linea, w, b
<1> QED  BY <1>1, <1>23, <1>25, <1>27

-----------------------------------------------------------------------------
(* The administrator's steps                                                *)

LEMMA LaEdicion ==
  ASSUME NEW e \in Ediciones
  PROVE  e.op \in {"ALTA", "CAMBIO"} => e.formulario \in Formularios
BY DEF Ediciones

\* What leaves the tables alone.
LEMMA TipoQuieto ==
  ASSUME TipoAdmin, UNCHANGED <<servicio, seqServicio, edicion, tecleado>>,
         pcA' \in {"menu", "escribe", "confirma", "bitacora", "anota"},
         pcA' \in {"escribe", "confirma"} => pcA \in {"escribe", "confirma"}
  PROVE  TipoAdmin'
BY DEF TipoAdmin

LEMMA TablaQuieta ==
  ASSUME Tabla, UNCHANGED <<servicio, tecleado>>
  PROVE  Tabla'
BY DEF Tabla

LEMMA TipoTeclea ==
  ASSUME TipoAdmin, AdminTeclea
  PROVE  TipoAdmin'
<1>1. edicion' \in Ediciones /\ (edicion'.op = "ALTA" => seqServicio < MaxServicio)
      /\ pcA' = "escribe" /\ UNCHANGED <<servicio, seqServicio, tecleado>>
  BY DEF AdminTeclea, Paso
<1> QED  BY <1>1 DEF TipoAdmin

LEMMA TipoVuelve ==
  ASSUME TipoAdmin, AdminVuelve
  PROVE  TipoAdmin'
BY DEF TipoAdmin, AdminVuelve, Paso

LEMMA InsertaBien ==
  ASSUME TipoAdmin, Tabla, insert_negocio
  PROVE  TipoAdmin' /\ Tabla'
<1> DEFINE s == seqServicio'  f == edicion.formulario  D == DOMAIN servicio \cup {s}
<1>1. /\ pcA = "confirma" /\ pcA' = "bitacora" /\ edicion.op = "ALTA" /\ s = seqServicio + 1
      /\ UNCHANGED edicion
      /\ servicio' = [i \in D |-> IF i = s THEN Negocio(f) ELSE servicio[i]]
      /\ tecleado' = [i \in DOMAIN servicio' |-> IF i = s THEN f ELSE tecleado[i]]
  BY DEF insert_negocio, Paso
<1>2. edicion \in Ediciones /\ seqServicio < MaxServicio  BY <1>1 DEF TipoAdmin
<1>3. f \in Formularios  BY <1>1, <1>2, LaEdicion
<1>4. Negocio(f) \in Filas  BY <1>3, LaFila
<1>5. DOMAIN servicio' = D  BY <1>1
<1>6. tecleado' = [i \in D |-> IF i = s THEN f ELSE tecleado[i]]  BY <1>1, <1>5
<1>7. \A i \in DOMAIN servicio : servicio[i] \in Filas /\ tecleado[i] \in Formularios
  BY DEF TipoAdmin
<1>8. seqServicio \in Nat /\ DOMAIN servicio \subseteq 1 .. seqServicio
  BY DEF TipoAdmin
<1>9. s \in 0 .. MaxServicio /\ D \subseteq 1 .. s /\ s \notin DOMAIN servicio
  BY <1>1, <1>2, <1>8, NumerosAssumption
<1>10. servicio' \in [D -> Filas] /\ tecleado' \in [D -> Formularios]
  <2> HIDE DEF D, f, s
  <2> QED  BY <1>1, <1>3, <1>4, <1>6, <1>7 DEF D
<1>11. TipoAdmin'
  <2> HIDE DEF D, f
  <2> QED  BY <1>1, <1>2, <1>5, <1>9, <1>10 DEF TipoAdmin
<1>12. Tabla'
  <2> SUFFICES ASSUME NEW i \in D
               PROVE  Copia(servicio'[i], tecleado'[i])
    BY <1>5, Zenon DEF Tabla
  <2>1. CASE i = s
    <3>1. servicio'[i] = Negocio(f) /\ tecleado'[i] = f  BY <1>1, <1>6, <2>1
    <3> QED  BY <1>3, <3>1, LaFila, Zenon
  <2>2. CASE i # s
    <3>1. i \in DOMAIN servicio  BY <2>2
    <3>2. servicio'[i] = servicio[i] /\ tecleado'[i] = tecleado[i]  BY <1>1, <1>6, <2>2
    <3> QED  BY <3>1, <3>2, Zenon DEF Tabla
  <2> QED  BY <2>1, <2>2
<1> QED  BY <1>11, <1>12

LEMMA BorraBien ==
  ASSUME TipoAdmin, Tabla, delete_negocio
  PROVE  TipoAdmin' /\ Tabla'
<1> DEFINE D == DOMAIN servicio \ ConNombre(edicion.nombre)
<1>1. /\ pcA = "confirma" /\ pcA' = "bitacora" /\ UNCHANGED <<seqServicio, edicion>>
      /\ servicio' = [i \in D |-> servicio[i]]
      /\ tecleado' = [i \in DOMAIN servicio' |-> tecleado[i]]
  BY DEF delete_negocio, Paso, Restrict
<1>2. DOMAIN servicio' = D  BY <1>1
<1>3. tecleado' = [i \in D |-> tecleado[i]]  BY <1>1, <1>2
<1>4. D \subseteq DOMAIN servicio  OBVIOUS
<1>5. \A i \in D : servicio[i] \in Filas /\ tecleado[i] \in Formularios
  BY <1>4 DEF TipoAdmin
<1> HIDE DEF D
<1>6. servicio' \in [D -> Filas] /\ tecleado' \in [D -> Formularios]  BY <1>1, <1>3, <1>5
<1>7. TipoAdmin'  BY <1>1, <1>2, <1>4, <1>6 DEF TipoAdmin
<1>8. \A i \in D : servicio'[i] = servicio[i] /\ tecleado'[i] = tecleado[i]  BY <1>1, <1>3
<1>9. Tabla'  BY <1>2, <1>4, <1>8 DEF Tabla
<1> QED  BY <1>7, <1>9

LEMMA CambiaBien ==
  ASSUME TipoAdmin, Tabla, update_negocio
  PROVE  TipoAdmin' /\ Tabla'
<1> DEFINE f == edicion.formulario  n == Negocio(f)  C == ConNombre(edicion.nombre)
           D == DOMAIN servicio  m(i) == [n EXCEPT !.descripcion = servicio[i].descripcion]
<1>1. /\ pcA = "confirma" /\ pcA' = "bitacora" /\ edicion.op = "CAMBIO"
      /\ UNCHANGED <<seqServicio, edicion>>
      /\ servicio' = [i \in D |-> IF i \in C THEN m(i) ELSE servicio[i]]
      /\ tecleado' = [i \in D |-> IF i \in C THEN f ELSE tecleado[i]]
  BY DEF update_negocio, Paso
<1>2. edicion \in Ediciones  BY <1>1 DEF TipoAdmin
<1>3. f \in Formularios  BY <1>1, <1>2, LaEdicion
<1>4. n \in Filas  BY <1>3, LaFila
<1>5. \A i \in D : servicio[i] \in Filas /\ tecleado[i] \in Formularios  BY DEF TipoAdmin
<1>6. ASSUME NEW i \in D
      PROVE  m(i) \in Filas /\ (Copia(n, f) => Copia(m(i), f))
  <2> HIDE DEF n, f
  <2>1. m(i) \in Filas  BY <1>4, <1>5 DEF Filas
  <2>2. /\ m(i).nombre = n.nombre /\ m(i).municipio = n.municipio
        /\ m(i).apertura = n.apertura /\ m(i).cierre = n.cierre
        /\ m(i).fecha = n.fecha /\ m(i).tipo = n.tipo /\ m(i).capacidad = n.capacidad
    BY <1>4 DEF Filas
  <2> HIDE DEF m
  <2> QED  BY <2>1, <2>2 DEF Copia
<1> HIDE DEF m
<1>7. servicio' \in [D -> Filas] /\ tecleado' \in [D -> Formularios]
  <2> HIDE DEF f, C, D, n
  <2> QED  BY <1>1, <1>3, <1>5, <1>6
<1>8. DOMAIN servicio' = D  BY <1>1
<1>9. TipoAdmin'  BY <1>1, <1>7, <1>8 DEF TipoAdmin
<1>10. Tabla'
  <2> SUFFICES ASSUME NEW i \in D
               PROVE  Copia(servicio'[i], tecleado'[i])
    BY <1>8, Zenon DEF Tabla
  <2>1. CASE i \in C
    <3>1. servicio'[i] = m(i) /\ tecleado'[i] = f
      <4> HIDE DEF f, C, D
      <4> QED  BY <1>1, <2>1
    <3> QED  BY <1>3, <1>6, <3>1, LaFila, Zenon
  <2>2. CASE i \notin C
    <3>1. servicio'[i] = servicio[i] /\ tecleado'[i] = tecleado[i]
      <4> HIDE DEF f, C, D
      <4> QED  BY <1>1, <2>2
    <3> QED  BY <3>1, Zenon DEF Tabla
  <2> QED  BY <2>1, <2>2
<1> QED  BY <1>9, <1>10

LEMMA PasosDelAdmin ==
  ASSUME TipoAdmin, Tabla, Cursor, Admin
  PROVE  /\ TipoAdmin' /\ Tabla' /\ Cursor' /\ UNCHANGED <<servidor, cliente>>
<1>1. CASE AdminTeclea
  <2>1. /\ UNCHANGED <<servicio, tecleado, servidor, cliente>> /\ pcA' = "escribe"
    BY <1>1 DEF AdminTeclea, Paso
  <2> QED  BY <1>1, <2>1, TipoTeclea, TablaQuieta DEF Cursor, Escribiendo, servidor
<1>2. CASE AdminBloquea
  <2>1. /\ UNCHANGED <<servicio, seqServicio, edicion, tecleado, servidor, cliente>>
        /\ pcA = "escribe" /\ pcA' = "confirma" /\ pcS # "filas"
    BY <1>2 DEF AdminBloquea, Paso, Bloqueada, Leyendo
  <2> QED  BY <2>1, TipoQuieto, TablaQuieta DEF Cursor, servidor
<1>3. CASE AdminFalla
  <2>1. /\ UNCHANGED <<servicio, seqServicio, edicion, tecleado, servidor, cliente>>
        /\ pcA' = "bitacora"
    BY <1>3 DEF AdminFalla, Paso
  <2> QED  BY <2>1, TipoQuieto, TablaQuieta DEF Cursor, Escribiendo, servidor
<1>4. CASE insert_negocio
  <2>1. pcA = "confirma" /\ UNCHANGED <<servidor, cliente>>  BY <1>4 DEF insert_negocio, Paso
  <2> QED  BY <1>4, <2>1, InsertaBien DEF Cursor, Escribiendo, servidor
<1>5. CASE delete_negocio
  <2>1. pcA = "confirma" /\ UNCHANGED <<servidor, cliente>>  BY <1>5 DEF delete_negocio, Paso
  <2> QED  BY <1>5, <2>1, BorraBien DEF Cursor, Escribiendo, servidor
<1>6. CASE update_negocio
  <2>1. pcA = "confirma" /\ UNCHANGED <<servidor, cliente>>  BY <1>6 DEF update_negocio, Paso
  <2> QED  BY <1>6, <2>1, CambiaBien DEF Cursor, Escribiendo, servidor
<1>7. CASE AdminBloqueaLog
  <2>1. /\ UNCHANGED <<servicio, seqServicio, edicion, tecleado, servidor, cliente>>
        /\ pcA = "bitacora" /\ pcA' = "anota" /\ pcS # "filas"
    BY <1>7 DEF AdminBloqueaLog, Paso, Bloqueada, Leyendo
  <2> QED  BY <2>1, TipoQuieto, TablaQuieta DEF Cursor, servidor
<1>8. CASE AdminVuelve
  <2>1. UNCHANGED <<servicio, tecleado, servidor, cliente>> /\ pcA' = "menu"
    BY <1>8 DEF AdminVuelve, Paso
  <2> QED  BY <1>8, <2>1, TipoVuelve, TablaQuieta DEF Cursor, Escribiendo, servidor
<1> QED  BY <1>1, <1>2, <1>3, <1>4, <1>5, <1>6, <1>7, <1>8 DEF Admin

-----------------------------------------------------------------------------
(* The server's steps                                                       *)

LEMMA ElMenor ==
  ASSUME NEW T, T \subseteq Nat, T # {}
  PROVE  Min(T) \in T /\ \A y \in T : Min(T) <= y
<1>1. PICK x \in T : \A y \in T : x <= y  BY Menor
<1> QED  BY <1>1 DEF Min

\* The WHERE of a row is what was asked of its form.
LEMMA FilaPedida ==
  ASSUME TipoAdmin, Tabla, NEW i \in DOMAIN servicio, NEW p
  PROVE  Cumple(p, servicio[i]) <=> Pedido(p, tecleado[i])
<1> DEFINE f == tecleado[i]
<1>1. f \in Formularios  BY DEF TipoAdmin
<1>2. servicio[i].tipo = f.tipo /\ servicio[i].fecha = convertirDiasInt(f.dias)  BY DEF Tabla, Copia
<1>3. \A d \in Semana : EnMascara(servicio[i].fecha, d) <=> d \in DiasDe(f)
  BY <1>1, <1>2, LosDiasDe
<1>4. DiasDe(f) \subseteq Semana  BY DEF DiasDe
<1> HIDE DEF f
<1>5. (\E d \in Semana : EnMascara(servicio[i].fecha, d) /\ EnMascara(FiltroFecha(p), d))
        <=> \E d \in DiasDe(f) : EnMascara(FiltroFecha(p), d)
  BY <1>3, <1>4, Zenon
<1>6. Cumple(p, servicio[i]) <=> Pedido(p, f)  BY <1>2, <1>5, Zenon DEF Cumple, Pedido
<1> QED  BY <1>6 DEF f

\* The line of a row, with any text for its description.
LEMMA LineaDeFila ==
  ASSUME TipoAdmin, Tabla, NEW i \in DOMAIN servicio, NEW d \in Seq(Palabras), d # <<>>
  PROVE  /\ i \in 1 .. MaxServicio
         /\ svc_format_negocio_con_id(i, servicio[i], d) \in Seq(Campos)
         /\ Linea(svc_format_negocio_con_id(i, servicio[i], d), i, tecleado[i])
<1>1. i \in 1 .. MaxServicio /\ i \in Nat  BY NumerosAssumption DEF TipoAdmin
<1>2. servicio[i] \in Filas /\ tecleado[i] \in Formularios  BY DEF TipoAdmin
<1> QED  BY <1>1, <1>2, LaLinea DEF Tabla

LEMMA DescripcionDeFila ==
  ASSUME TipoAdmin, NEW i \in DOMAIN servicio
  PROVE  servicio[i].descripcion \in Seq(Palabras) /\ servicio[i].descripcion # <<>>
<1>1. servicio[i] \in Filas  BY DEF TipoAdmin
<1>2. servicio[i].descripcion \in {f.descripcion : f \in Formularios}  BY <1>1 DEF Filas
<1> QED  BY <1>2, LaDescripcion

Servida == /\ TipoServidor /\ TipoCliente /\ Turno /\ Cursor /\ Lineas /\ ListaInv /\ Ficha
           /\ MuereSoloPorSeparador

LEMMA AbreBien ==
  ASSUME Tipado, Turno, AbreLista
  PROVE  Servida'
<1>1. /\ pcS = "abre" /\ peticion.op \in Listas /\ foto' = tecleado /\ ocupada' = Escribiendo
      /\ pcS' = (IF Escribiendo THEN "enviada" ELSE "filas")
      /\ UNCHANGED <<admin, peticion, ultimo, trama, cliente>>
  BY DEF AbreLista, Ejecuta, Listas
<1>2. pcC = "recibe" /\ pcC' = "recibe" /\ trama = <<>> /\ ultimo = 0 /\ trama' = <<>> /\ ultimo' = 0
  BY <1>1 DEF Turno, cliente
<1>3. TipoServidor'
  <2>1. DOMAIN tecleado \subseteq 1 .. MaxServicio /\ tecleado \in [DOMAIN tecleado -> Formularios]
    BY NumerosAssumption DEF Tipado, TipoAdmin
  <2>2. Escribiendo \in BOOLEAN  BY DEF Escribiendo
  <2>3. <<>> \in Seq(Seq(Campos)) /\ Len(<<>>) = 0  OBVIOUS
  <2>4. 0 <= MaxServicio  BY NumerosAssumption
  <2> QED  BY <1>1, <1>2, <2>1, <2>2, <2>3, <2>4 DEF Tipado, TipoServidor
<1>4. TipoCliente' /\ Turno'  BY <1>1, <1>2 DEF Tipado, TipoCliente, Turno, cliente
<1>5. Cursor'  BY <1>1 DEF Cursor, Escribiendo, admin
<1>6. Lineas'  BY <1>2 DEF Lineas
<1>7. ListaInv'
  <2>1. \A i \in DOMAIN foto' : i >= 1
    BY <1>3 DEF TipoServidor
  <2>2. Exacta(ultimo)'  BY <1>2, <2>1 DEF Exacta
  <2>3. pcS' = "enviada" => ocupada'  BY <1>1
  <2> QED  BY <1>2, <2>2, <2>3 DEF ListaInv
<1>8. Ficha' /\ MuereSoloPorSeparador'
  BY <1>2 DEF Ficha, Cargada, MuereSoloPorSeparador
<1> QED  BY <1>3, <1>4, <1>5, <1>6, <1>7, <1>8 DEF Servida

LEMMA EnviaBien ==
  ASSUME Tipado, Turno, Tabla, Cursor, Lineas, ListaInv, EnviaFila
  PROVE  Servida'
<1> DEFINE i == Min(Siguientes)  n == Len(trama)
           l == svc_format_negocio_con_id(i, servicio[i], servicio[i].descripcion)
<1>1. /\ pcS = "filas" /\ Siguientes # {} /\ ultimo' = i /\ trama' = Append(trama, l)
      /\ UNCHANGED <<admin, pcS, peticion, foto, ocupada, cliente>>
  BY DEF EnviaFila
<1>2. pcC = "recibe" /\ pcC' = "recibe" /\ foto = tecleado /\ ~ocupada /\ peticion.op \in Listas
  BY <1>1 DEF Turno, Cursor, cliente
<1>3. DOMAIN servicio \subseteq Nat  BY DEF Tipado, TipoAdmin
<1>4. i \in Siguientes /\ \A j \in Siguientes : i <= j
  <2>1. Siguientes \subseteq Nat  BY <1>3 DEF Siguientes
  <2> QED  BY <1>1, <2>1, ElMenor
<1> HIDE DEF i
<1>5. i \in DOMAIN servicio /\ i > ultimo /\ Cumple(peticion, servicio[i])
  BY <1>4 DEF Siguientes
<1>6. i \in 1 .. MaxServicio /\ l \in Seq(Campos) /\ Linea(l, i, tecleado[i])
  BY <1>5, LineaDeFila, DescripcionDeFila DEF Tipado
<1> HIDE DEF l
<1>7. trama \in Seq(Seq(Campos)) /\ n \in Nat /\ n <= ultimo /\ ultimo \in 0 .. MaxServicio
  BY <1>1, LenProperties DEF Tipado, TipoServidor
<1>8. /\ trama' \in Seq(Seq(Campos)) /\ Len(trama') = n + 1
      /\ (\A k \in 1 .. n : trama'[k] = trama[k]) /\ trama'[n + 1] = l
  BY <1>1, <1>6, <1>7, AppendProperties
<1> HIDE DEF n
<1>9. TipoServidor'
  <2>1. n + 1 <= i /\ i <= MaxServicio /\ i \in 0 .. MaxServicio  BY <1>5, <1>6, <1>7
  <2>2. ultimo' = i /\ Len(trama') <= i /\ Len(trama') <= MaxServicio
    BY <1>1, <1>6, <1>7, <1>8, <2>1, NumerosAssumption
  <2>3. /\ UNCHANGED <<pcS, peticion, foto, ocupada>> /\ TipoServidor  BY <1>1 DEF Tipado
  <2> QED  BY <1>8, <2>1, <2>2, <2>3, Zenon DEF TipoServidor
<1>10. TipoCliente' /\ Turno' /\ Cursor' /\ Ficha' /\ MuereSoloPorSeparador'
  BY <1>1, <1>2 DEF Tipado, TipoCliente, Turno, Cursor, Ficha, Cargada, MuereSoloPorSeparador,
                    cliente, admin, Escribiendo
<1>11. i \in DOMAIN foto /\ tecleado[i] = foto[i]  BY <1>2, <1>5 DEF Tipado, TipoAdmin
<1>12. l[1].num = i  BY <1>6 DEF Linea, Num
<1> DEFINE J(k) == trama'[k][1].num
<1>13. (\A k \in 1 .. n : J(k) = Id(k)) /\ J(n + 1) = i  BY <1>8, <1>12 DEF Id
<1>14. \A k \in 1 .. Len(trama') : k \in 1 .. n \/ k = n + 1  BY <1>7, <1>8
<1>15. \A k \in 1 .. n : Id(k) \in DOMAIN foto /\ Linea(trama[k], Id(k), foto[Id(k)])
                         /\ Id(k) <= ultimo
  BY <1>1 DEF Lineas, n
<1>16. Lineas'
  <2>1. ASSUME NEW k \in 1 .. Len(trama')
        PROVE  J(k) \in DOMAIN foto /\ Linea(trama'[k], J(k), foto[J(k)]) /\ J(k) <= i
    <3>1. CASE k \in 1 .. n
      <4>1. J(k) = Id(k) /\ trama'[k] = trama[k]  BY <1>8, <1>13, <3>1
      <4>2. Id(k) \in Int  BY <1>3, <1>2, <1>15, <3>1 DEF Tipado, TipoAdmin
      <4>3. Id(k) <= i  BY <1>5, <1>6, <1>7, <1>15, <3>1, <4>2
      <4> QED  BY <1>15, <3>1, <4>1, <4>3
    <3>2. CASE k = n + 1
      <4>1. J(k) = i /\ trama'[k] = l  BY <1>8, <1>13, <3>2
      <4>2. i <= i  BY <1>6
      <4> QED  BY <1>6, <1>11, <4>1, <4>2
    <3> QED  BY <1>14, <3>1, <3>2
  <2>2. ASSUME NEW j \in 1 .. Len(trama'), NEW k \in 1 .. Len(trama'), j < k
        PROVE  J(j) < J(k)
    <3>1. j \in 1 .. n  BY <1>7, <1>8, <2>2
    <3>2. J(j) = Id(j) /\ Id(j) \in Int /\ Id(j) <= ultimo
      BY <1>3, <1>2, <1>13, <1>15, <3>1 DEF Tipado, TipoAdmin
    <3>3. CASE k \in 1 .. n  BY <1>13, <2>2, <3>1, <3>3 DEF Lineas, n
    <3>4. CASE k = n + 1
      <4>1. J(k) = i  BY <1>13, <3>4
      <4> QED  BY <1>5, <1>6, <1>7, <3>2, <4>1
    <3> QED  BY <1>14, <3>3, <3>4
  <2>3. foto' = foto /\ ultimo' = i  BY <1>1
  <2> QED  BY <2>1, <2>2, <2>3 DEF Lineas, Id
<1>17. ListaInv'
  <2>1. Exacta(ultimo)  BY <1>1 DEF ListaInv
  <2>2. ASSUME NEW k \in 1 .. Len(trama') PROVE Pedido(peticion, foto[J(k)])
    <3>1. CASE k \in 1 .. n  BY <1>13, <2>1, <3>1 DEF Exacta, n
    <3>2. CASE k = n + 1
      <4>1. Pedido(peticion, tecleado[i])  BY <1>5, FilaPedida DEF Tipado
      <4> QED  BY <1>11, <1>13, <3>2, <4>1
    <3> QED  BY <1>14, <3>1, <3>2
  <2>3. ASSUME NEW j \in DOMAIN foto, j <= i, Pedido(peticion, foto[j])
        PROVE  \E k \in 1 .. Len(trama') : J(k) = j
    <3>1. j \in DOMAIN servicio /\ foto[j] = tecleado[j] /\ j \in Nat
      BY <1>2, <1>3 DEF Tipado, TipoAdmin
    <3>2. CASE j <= ultimo
      <4>1. PICK k \in 1 .. n : Id(k) = j  BY <2>1, <2>3, <3>2 DEF Exacta, n
      <4>2. k \in 1 .. Len(trama')  BY <1>7, <1>8
      <4> QED  BY <1>13, <4>1, <4>2
    <3>3. CASE ~ (j <= ultimo)
      <4>1. Cumple(peticion, servicio[j])  BY <2>3, <3>1, FilaPedida DEF Tipado
      <4>2. j > ultimo  BY <1>7, <3>1, <3>3
      <4>3. j \in Siguientes  BY <3>1, <4>1, <4>2 DEF Siguientes
      <4>4. j = i  BY <1>4, <1>6, <2>3, <3>1, <4>3
      <4>5. n + 1 \in 1 .. Len(trama')  BY <1>7, <1>8
      <4> QED  BY <1>13, <4>4, <4>5
    <3> QED  BY <3>2, <3>3
  <2>4. foto' = foto /\ ultimo' = i /\ peticion' = peticion /\ pcS' = "filas"  BY <1>1
  <2>5. Exacta(ultimo)'  BY <2>2, <2>3, <2>4 DEF Exacta, Id
  <2> QED  BY <2>4, <2>5 DEF ListaInv
<1> QED  BY <1>9, <1>10, <1>16, <1>17 DEF Servida

LEMMA CierraBien ==
  ASSUME Tipado, Turno, Tabla, Cursor, Lineas, ListaInv, CierraLista
  PROVE  Servida'
<1>1. /\ pcS = "filas" /\ Siguientes = {} /\ pcS' = "enviada"
      /\ UNCHANGED <<admin, peticion, ultimo, trama, foto, ocupada, cliente>>
  BY DEF CierraLista
<1>2. pcC = "recibe" /\ pcC' = "recibe" /\ foto = tecleado /\ ~ocupada
  BY <1>1 DEF Turno, Cursor, cliente
<1>3. TipoServidor' /\ TipoCliente' /\ Turno' /\ Cursor' /\ Lineas' /\ Ficha'
      /\ MuereSoloPorSeparador'
  BY <1>1, <1>2 DEF Tipado, TipoServidor, TipoCliente, Turno, Cursor, Lineas, Id, Ficha, Cargada,
                    MuereSoloPorSeparador, cliente
<1>4. Exacta(ultimo)  BY <1>1 DEF ListaInv
<1>5. ASSUME NEW i \in DOMAIN foto, Pedido(peticion, foto[i])
      PROVE  i <= ultimo
  <2>1. i \in DOMAIN servicio /\ i \in Int /\ foto[i] = tecleado[i]
    BY <1>2 DEF Tipado, TipoAdmin
  <2>2. Cumple(peticion, servicio[i])  BY <1>5, <2>1, FilaPedida DEF Tipado
  <2>3. ~ (i > ultimo)  BY <1>1, <2>1, <2>2 DEF Siguientes
  <2> QED  BY <2>1, <2>3 DEF Tipado, TipoServidor
<1>6. Exacta(MaxServicio)  BY <1>4, <1>5 DEF Exacta
<1>7. ListaInv'  BY <1>1, <1>2, <1>6 DEF ListaInv, Exacta, Id
<1> QED  BY <1>3, <1>7 DEF Servida

LEMMA DaUnoBien ==
  ASSUME Tipado, Turno, Tabla, Cursor, handler_servicios_get_one
  PROVE  Servida'
<1>1. /\ pcS = "abre" /\ peticion.op = "GET_SERVICIO" /\ pcS' = "enviada" /\ foto' = tecleado
      /\ ocupada' = Escribiendo
      /\ UNCHANGED <<admin, peticion, ultimo, cliente>>
  BY DEF handler_servicios_get_one, Ejecuta
<1>2. pcC = "recibe" /\ pcC' = "recibe" /\ trama = <<>>
  BY <1>1 DEF Turno, cliente
<1>3. DOMAIN tecleado \subseteq 1 .. MaxServicio /\ tecleado \in [DOMAIN tecleado -> Formularios]
      /\ DOMAIN tecleado = DOMAIN servicio
  BY NumerosAssumption DEF Tipado, TipoAdmin
<1>4. /\ trama' \in Seq(Seq(Campos)) /\ Len(trama') <= MaxServicio
      /\ Lineas'
  <2>1. CASE trama' = <<>>
    <3>1. <<>> \in Seq(Seq(Campos)) /\ Len(<<>>) = 0  OBVIOUS
    <3>2. 0 <= MaxServicio  BY NumerosAssumption
    <3> QED  BY <2>1, <3>1, <3>2 DEF Lineas
  <2>2. CASE trama' # <<>>
    <3> DEFINE i == peticion.id
    <3>1. PICK d \in {servicio[i].descripcion, <<"(liberada)">>} :
            i \in DOMAIN servicio /\ trama' = <<svc_format_negocio_con_id(i, servicio[i], d)>>
      BY <1>2, <2>2, Zenon DEF handler_servicios_get_one
    <3>2. d \in Seq(Palabras) /\ d # <<>>
      <4>1. CASE d = servicio[i].descripcion
        BY <3>1, <4>1, DescripcionDeFila DEF Tipado
      <4>2. CASE d = <<"(liberada)">>
        <5>1. "(liberada)" \in Palabras  BY DEF Palabras
        <5> QED  BY <4>2, <5>1
      <4> QED  BY <4>1, <4>2
    <3> DEFINE l == svc_format_negocio_con_id(i, servicio[i], d)
    <3>3. i \in 1 .. MaxServicio /\ l \in Seq(Campos) /\ Linea(l, i, tecleado[i])
      BY <3>1, <3>2, LineaDeFila DEF Tipado
    <3> HIDE DEF i, l
    <3>4. trama' = <<l>>  BY <3>1 DEF l, i
    <3>5. trama' \in Seq(Seq(Campos)) /\ Len(trama') = 1 /\ trama'[1] = l  BY <3>3, <3>4
    <3>6. l[1].num = i  BY <3>3 DEF Linea, Num
    <3>7. \A k \in 1 .. Len(trama') : k = 1  BY <3>5
    <3>8. Lineas'
      <4>1. i \in DOMAIN foto' /\ foto'[i] = tecleado[i]  BY <1>1, <1>3, <3>1 DEF i
      <4>2. \A k \in 1 .. Len(trama') : trama'[k] = l /\ trama'[k][1].num = i
        BY <3>5, <3>6, <3>7
      <4>3. \A j, k \in 1 .. Len(trama') : ~ (j < k)  BY <3>5
      <4> QED  BY <1>1, <3>3, <4>1, <4>2, <4>3 DEF Lineas, Id
    <3>9. 1 <= MaxServicio  BY <3>3, NumerosAssumption
    <3> QED  BY <3>5, <3>8, <3>9
  <2> QED  BY <2>1, <2>2
<1>5. TipoServidor'
  <2>1. Escribiendo \in BOOLEAN  BY DEF Escribiendo
  <2> QED  BY <1>1, <1>3, <1>4, <2>1 DEF Tipado, TipoServidor
<1>6. TipoCliente' /\ Turno' /\ Cursor' /\ ListaInv' /\ Ficha' /\ MuereSoloPorSeparador'
  BY <1>1, <1>2 DEF Tipado, TipoCliente, Turno, Cursor, ListaInv, Listas, Ficha, Cargada,
                    MuereSoloPorSeparador, cliente
<1> QED  BY <1>4, <1>5, <1>6 DEF Servida

-----------------------------------------------------------------------------
(* The client's steps                                                       *)

LEMMA PideBien ==
  ASSUME Tipado, Cursor, Pide
  PROVE  Servida'
<1>1. /\ pcC' = "recibe" /\ negocios' = <<>> /\ pcS' = "abre" /\ peticion' \in Peticiones
      /\ ultimo' = 0 /\ trama' = <<>> /\ foto' = Vacia /\ ocupada' = FALSE
      /\ UNCHANGED admin
  BY DEF Pide
<1>2. DOMAIN Vacia = {} /\ Vacia \in [DOMAIN Vacia -> Formularios]  BY DEF Vacia
<1>3. <<>> \in Seq(Seq(Campos)) /\ Len(<<>>) = 0 /\ 0 <= MaxServicio /\ 0 \in 0 .. MaxServicio
  BY NumerosAssumption
<1>4. TipoServidor' /\ TipoCliente'  BY <1>1, <1>2, <1>3 DEF TipoServidor, TipoCliente
<1>5. Turno' /\ Cursor' /\ ListaInv' /\ Ficha' /\ MuereSoloPorSeparador'
  BY <1>1 DEF Turno, Cursor, ListaInv, Ficha, Cargada, MuereSoloPorSeparador
<1>6. Lineas'  BY <1>1, <1>3 DEF Lineas
<1> QED  BY <1>4, <1>5, <1>6 DEF Servida

LEMMA ReiniciaBien ==
  ASSUME Tipado, Reinicia
  PROVE  Servida'
<1>1. /\ pcC' = "menu" /\ negocios' = negocios /\ pcS' = "espera" /\ peticion' = Vacia
      /\ ultimo' = 0 /\ trama' = <<>> /\ foto' = Vacia /\ ocupada' = FALSE
      /\ UNCHANGED admin
  BY DEF Reinicia
<1>2. DOMAIN Vacia = {} /\ Vacia \in [DOMAIN Vacia -> Formularios]  BY DEF Vacia
<1>3. <<>> \in Seq(Seq(Campos)) /\ Len(<<>>) = 0 /\ 0 <= MaxServicio /\ 0 \in 0 .. MaxServicio
  BY NumerosAssumption
<1>4. TipoServidor' /\ TipoCliente'
  BY <1>1, <1>2, <1>3 DEF Tipado, TipoServidor, TipoCliente
<1>5. Turno' /\ Cursor' /\ ListaInv' /\ Ficha' /\ MuereSoloPorSeparador'
  BY <1>1 DEF Turno, Cursor, ListaInv, Ficha, Cargada, MuereSoloPorSeparador
<1>6. Lineas'  BY <1>1, <1>3 DEF Lineas
<1> QED  BY <1>4, <1>5, <1>6 DEF Servida

\* std::stoi finds its digits in every field that is a number.
LEMMA LosNumeros == \A n : EsNumero(Num(n)) /\ Num(n).num = n /\ DOMAIN Num(n) = {"num"}
<1> SUFFICES ASSUME NEW n
             PROVE  EsNumero(Num(n)) /\ Num(n).num = n /\ DOMAIN Num(n) = {"num"}
  OBVIOUS
<1>1. DOMAIN Num(n) = {"num"}  BY DEF Num
<1> QED  BY <1>1 DEF EsNumero, Num

\* What the client reads in the line of a form.
Leida(p, f) ==
  /\ p.nombre = Txt(f.nombre[1]) /\ p.municipio = Txt(f.municipio[1])
  /\ p.apertura = Txt(f.apertura[1]) /\ p.cierre = Txt(f.cierre[1])
  /\ p.dias = Dias(DiasDe(f)) /\ p.tipo = Txt(f.tipo[1])
  /\ p.capacidad = Num(CapacidadMinima(f.capacidad))

LEMMA LoQueLee ==
  ASSUME NEW c, NEW i, NEW f, Linea(c, i, f)
  PROVE  parseServicio(c).id = Num(i) /\ (SinBarra(f) => Leida(parseServicio(c), f))
<1>1. DOMAIN c[1] = {"num"} /\ c[1] = Num(i)  BY LosNumeros DEF Linea
<1>2. /\ parseServicio(c).id = c[1] /\ parseServicio(c).nombre = c[1 + 1]
      /\ parseServicio(c).municipio = c[1 + 2] /\ parseServicio(c).apertura = c[1 + 3]
      /\ parseServicio(c).cierre = c[1 + 4]
      /\ parseServicio(c).dias = c[1 + 5] /\ parseServicio(c).tipo = c[1 + 6]
      /\ parseServicio(c).capacidad = c[1 + 7]
  BY <1>1 DEF parseServicio
<1>3. /\ 1 + 1 = 2 /\ 1 + 2 = 3 /\ 1 + 3 = 4 /\ 1 + 4 = 5 /\ 1 + 5 = 6 /\ 1 + 6 = 7 /\ 1 + 7 = 8
      /\ 2 \in 1 .. 8 /\ 3 \in 1 .. 8 /\ 4 \in 1 .. 8 /\ 5 \in 1 .. 8 /\ 6 \in 1 .. 8
      /\ 7 \in 1 .. 8 /\ 8 \in 1 .. 8
  OBVIOUS
<1>4. SinBarra(f) => /\ c[2] = Txt(f.nombre[1]) /\ c[3] = Txt(f.municipio[1])
                     /\ c[4] = Txt(f.apertura[1]) /\ c[5] = Txt(f.cierre[1])
                     /\ c[6] = Dias(DiasDe(f)) /\ c[7] = Txt(f.tipo[1])
                     /\ c[8] = Num(CapacidadMinima(f.capacidad))
  BY <1>3 DEF Linea, Escrita
<1> QED  BY <1>1, <1>2, <1>3, <1>4 DEF Leida

LEMMA RecibeBien ==
  ASSUME Tipado, Turno, Lineas, ListaInv, RecibeLista
  PROVE  Servida'
<1> DEFINE parsed == [k \in DOMAIN trama |-> parseServicio(trama[k])]
<1>1. /\ pcC = "recibe" /\ pcS = "enviada" /\ UNCHANGED <<admin, servidor>>
      /\ IF \A k \in DOMAIN parsed : EsNumero(parsed[k].capacidad)
         THEN pcC' = "menu" /\ negocios' = [k \in DOMAIN parsed |-> crear(parsed[k])]
         ELSE pcC' = "muerto" /\ UNCHANGED negocios
  BY DEF RecibeLista
<1>2. trama \in Seq(Seq(Campos)) /\ Len(trama) \in Nat /\ DOMAIN trama = 1 .. Len(trama)
      /\ Len(trama) <= MaxServicio
  BY LenProperties DEF Tipado, TipoServidor
<1>3. UNCHANGED <<pcS, peticion, ultimo, trama, foto, ocupada>>  BY <1>1 DEF servidor
<1>4. TipoServidor' /\ Cursor' /\ Lineas' /\ ListaInv'
  BY <1>1, <1>3 DEF Tipado, TipoServidor, Cursor, Lineas, ListaInv, Exacta, Id
<1>5. Turno'  BY <1>1, <1>3 DEF Turno
<1>6. DOMAIN parsed = 1 .. Len(trama)  BY <1>2
<1>7. CASE \A k \in DOMAIN parsed : EsNumero(parsed[k].capacidad)
  <2>1. pcC' = "menu" /\ negocios' = [k \in DOMAIN parsed |-> crear(parsed[k])]  BY <1>1, <1>7
  <2>2. negocios' = [k \in DOMAIN trama |-> crear(parseServicio(trama[k]))]
    <3>1. \A k \in DOMAIN parsed : crear(parsed[k]) = crear(parseServicio(trama[k]))  OBVIOUS
    <3> HIDE DEF parsed
    <3> QED  BY <1>2, <1>6, <2>1, <3>1
  <2>3. Len(negocios') = Len(trama)
    <3> DEFINE S == {crear(parseServicio(trama[k])) : k \in 1 .. Len(trama)}
    <3>1. negocios' \in [1 .. Len(trama) -> S]  BY <1>2, <2>2, Zenon
    <3> QED  BY <1>2, <3>1, FuncionEsSecuencia, Zenon
  <2>4. TipoCliente'  BY <1>2, <2>1, <2>3 DEF TipoCliente
  <2>5. Ficha'  BY <1>3, <2>2 DEF Ficha
  <2>6. MuereSoloPorSeparador'  BY <2>1 DEF MuereSoloPorSeparador
  <2> QED  BY <1>4, <1>5, <2>4, <2>5, <2>6 DEF Servida
<1>8. CASE ~ \A k \in DOMAIN parsed : EsNumero(parsed[k].capacidad)
  <2>1. pcC' = "muerto" /\ UNCHANGED negocios  BY <1>1, <1>8
  <2>2. TipoCliente' /\ Ficha'  BY <2>1 DEF Tipado, TipoCliente, Ficha, Cargada
  <2>3. PICK k \in 1 .. Len(trama) : ~EsNumero(parseServicio(trama[k]).capacidad)
    BY <1>6, <1>8
  <2>4. Id(k) \in DOMAIN foto /\ Linea(trama[k], Id(k), foto[Id(k)])  BY DEF Lineas
  <2>5. ~SinBarra(foto[Id(k)])  BY <2>3, <2>4, LoQueLee, LosNumeros DEF Leida
  <2>6. MuereSoloPorSeparador'  BY <1>3, <2>4, <2>5 DEF MuereSoloPorSeparador
  <2> QED  BY <1>4, <1>5, <2>2, <2>6 DEF Servida
<1> QED  BY <1>7, <1>8

-----------------------------------------------------------------------------
(* The invariant and the theorems                                           *)

LEMMA AlEmpezar == Init => IInv
<1> SUFFICES ASSUME Init PROVE IInv  OBVIOUS
<1>1. DOMAIN Vacia = {} /\ (\A S : Vacia \in [DOMAIN Vacia -> S])  BY DEF Vacia
<1>2. <<>> \in Seq(Seq(Campos)) /\ Len(<<>>) = 0 /\ 0 <= MaxServicio /\ 0 \in 0 .. MaxServicio
  BY NumerosAssumption
<1>3. TipoAdmin  BY <1>1, <1>2 DEF Init, TipoAdmin
<1>4. TipoServidor /\ TipoCliente  BY <1>1, <1>2 DEF Init, TipoServidor, TipoCliente
<1>5. Turno /\ Tabla /\ Cursor  BY <1>1 DEF Init, Turno, Tabla, Cursor
<1>6. Lineas  BY <1>2 DEF Init, Lineas
<1>7. ListaInv /\ Ficha /\ MuereSoloPorSeparador
  BY DEF Init, ListaInv, Ficha, Cargada, MuereSoloPorSeparador
<1> QED  BY <1>3, <1>4, <1>5, <1>6, <1>7 DEF IInv, Tipado

LEMMA EnCadaPaso == IInv /\ [Next]_vars => IInv'
<1> SUFFICES ASSUME IInv, [Next]_vars PROVE IInv'  OBVIOUS
<1>0. Tipado /\ TipoAdmin /\ Turno /\ Tabla /\ Cursor /\ Lineas /\ ListaInv  BY DEF IInv, Tipado
<1>1. CASE Admin
  <2>1. TipoAdmin' /\ Tabla' /\ Cursor' /\ UNCHANGED <<servidor, cliente>>
    BY <1>0, <1>1, PasosDelAdmin
  <2>2. UNCHANGED <<pcS, peticion, ultimo, trama, foto, ocupada, pcC, negocios>>
    BY <2>1 DEF servidor, cliente
  <2>3. TipoServidor' /\ TipoCliente'
    BY <2>2 DEF IInv, Tipado, TipoServidor, TipoCliente
  <2>4. Turno' /\ Lineas'  BY <2>2 DEF IInv, Turno, Lineas, Id
  <2>5. ListaInv'  BY <2>2 DEF IInv, ListaInv, Exacta, Id
  <2>6. Ficha' /\ MuereSoloPorSeparador'
    BY <2>2 DEF IInv, Ficha, Cargada, MuereSoloPorSeparador
  <2> QED  BY <2>1, <2>3, <2>4, <2>5, <2>6 DEF IInv, Tipado
<1>2. CASE Servidor \/ Cliente
  <2>1. Servida'
    BY <1>0, <1>2, AbreBien, EnviaBien, CierraBien, DaUnoBien, PideBien, RecibeBien, ReiniciaBien
    DEF Servidor, Cliente
  <2>2. UNCHANGED admin
    BY <1>2 DEF Servidor, Cliente, AbreLista, EnviaFila, CierraLista, handler_servicios_get_one,
                Pide, RecibeLista, Reinicia
  <2>3. TipoAdmin' /\ Tabla'  BY <1>0, <2>2 DEF admin, TipoAdmin, Tabla
  <2> QED  BY <2>1, <2>3 DEF Servida, IInv, Tipado
<1>3. CASE UNCHANGED vars
  <2>1. UNCHANGED <<servicio, seqServicio, pcA, edicion, tecleado, pcS, peticion, ultimo, trama,
                    foto, ocupada, pcC, negocios>>
    BY <1>3 DEF vars, admin, servidor, cliente
  <2>2. Tipado'  BY <1>0, <2>1 DEF Tipado, TipoAdmin, TipoServidor, TipoCliente
  <2>3. Turno' /\ Tabla' /\ Cursor' /\ Lineas'
    BY <1>0, <2>1 DEF Turno, Tabla, Cursor, Escribiendo, Lineas, Id
  <2>4. ListaInv'  BY <1>0, <2>1 DEF ListaInv, Exacta, Id
  <2>5. Ficha' /\ MuereSoloPorSeparador'
    BY <2>1 DEF IInv, Ficha, Cargada, MuereSoloPorSeparador
  <2> QED  BY <2>2, <2>3, <2>4, <2>5 DEF IInv
<1> QED  BY <1>1, <1>2, <1>3 DEF Next

LEMMA Siempre == Spec => []IInv
<1> QED  BY AlEmpezar, EnCadaPaso, PTL DEF Spec

\* Every variable has its type; a stored capacity is at least 1 and a mask is one of the
\* seven days, whatever number or word is typed.
THEOREM ServiciosTipos == Spec => []TypeOK
<1>1. IInv => TypeOK
  <2> SUFFICES ASSUME TipoAdmin, TipoServidor, TipoCliente PROVE TypeOK  BY DEF IInv, Tipado
  <2> QED  BY DEF TipoAdmin, TipoServidor, TipoCliente, TypeOK, Filas
<1> QED  BY <1>1, Siempre, PTL

\* The exception that ends the client while it reads a list comes only from a '|' typed in
\* a text before the capacity: the name, the municipality, an hour or the type.
THEOREM MuerePorSeparador == Spec => []MuereSoloPorSeparador
<1>1. IInv => MuereSoloPorSeparador  BY DEF IInv
<1> QED  BY <1>1, Siempre, PTL

\* The services sent are those asked for, and each has a line of its own.
LEMMA LoEnviado ==
  ASSUME IInv, pcS = "enviada", peticion.op \in Listas
  PROVE  /\ Enviados = IF ocupada THEN {} ELSE {i \in DOMAIN foto : Pedido(peticion, foto[i])}
         /\ Len(trama) = Cardinality(Enviados)
<1> DEFINE n == Len(trama)
<1>1. n \in Nat /\ DOMAIN trama = 1 .. n /\ n <= MaxServicio
  BY LenProperties DEF IInv, Tipado, TipoServidor
<1>2. /\ \A k \in 1 .. n : Id(k) \in DOMAIN foto /\ Id(k) \in Int
      /\ \A j, k \in 1 .. n : j < k => Id(j) < Id(k)
  BY DEF IInv, Lineas, Tipado, TipoServidor
<1>3. Enviados = {Id(k) : k \in 1 .. n}  BY <1>1 DEF Enviados, Id
<1>4. IF ocupada THEN trama = <<>> ELSE Exacta(MaxServicio)  BY DEF IInv, ListaInv
<1>5. CASE ocupada
  <2>1. n = 0  BY <1>4, <1>5
  <2>2. 1 .. n = {}  BY <2>1
  <2> HIDE DEF n
  <2>3. Enviados = {}  BY <1>3, <2>2
  <2> QED  BY <1>5, <2>1, <2>3, FS_EmptySet DEF n
<1>6. CASE ~ocupada
  <2>1. Exacta(MaxServicio)  BY <1>4, <1>6
  <2>2. ASSUME NEW i \in Enviados PROVE i \in DOMAIN foto /\ Pedido(peticion, foto[i])
    BY <1>2, <1>3, <2>1, <2>2 DEF Exacta
  <2>3. ASSUME NEW i \in DOMAIN foto, Pedido(peticion, foto[i]) PROVE i \in Enviados
    <3>1. i <= MaxServicio  BY NumerosAssumption DEF IInv, Tipado, TipoServidor
    <3> QED  BY <1>3, <2>1, <2>3, <3>1 DEF Exacta
  <2>4. Enviados = {i \in DOMAIN foto : Pedido(peticion, foto[i])}  BY <2>2, <2>3
  <2>5. n = Cardinality(Enviados)
    <3> DEFINE g == [k \in 1 .. n |-> Id(k)]
    <3> HIDE DEF n
    <3>1. g \in Injection(1 .. n, Enviados)
      <4>1. g \in [1 .. n -> Enviados]  BY <1>3, Zenon
      <4>2. ASSUME NEW a \in 1 .. n, NEW b \in 1 .. n, g[a] = g[b] PROVE a = b
        <5>1. Id(a) = Id(b)  BY <4>2, Zenon
        <5>2. ~ (a < b) /\ ~ (b < a)  BY <1>2, <5>1
        <5> QED  BY <1>1, <5>2
      <4> HIDE DEF g
      <4> QED  BY <4>1, <4>2 DEF Injection, IsInjective
    <3>2. g \in Surjection(1 .. n, Enviados)
      <4>1. g \in [1 .. n -> Enviados]  BY <1>3, Zenon
      <4>2. \A y \in Enviados : \E k \in 1 .. n : g[k] = y  BY <1>3
      <4> QED  BY <4>1, <4>2, Zenon DEF Surjection
    <3>3. ExistsBijection(1 .. n, Enviados)
      <4> HIDE DEF g
      <4> QED  BY <3>1, <3>2, Zenon DEF ExistsBijection, Bijection
    <3>4. 1 \in Int /\ n \in Int  BY <1>1
    <3>5. IsFiniteSet(1 .. n) /\ Cardinality(1 .. n) = n  BY <1>1, <3>4, FS_Interval
    <3>6. Cardinality(Enviados) = Cardinality(1 .. n)  BY <3>3, <3>5, FS_Bijection
    <3> QED  BY <3>5, <3>6
  <2> QED  BY <1>6, <2>4, <2>5
<1> QED  BY <1>5, <1>6

\* GET_SERVICIOS: the rows are read one by one while the administrator works, and the list is
\* nevertheless the table at one moment, each service once; or it is empty, because the
\* administrator was writing at that moment.
THEOREM ListaDeUnInstante == Spec => []ListaInstantanea
<1>1. IInv => ListaInstantanea
  <2> SUFFICES ASSUME IInv, pcS = "enviada", peticion.op = "GET_SERVICIOS"
               PROVE  /\ Enviados = IF ocupada THEN {} ELSE DelTipo(peticion.tipo)
                      /\ Len(trama) = Cardinality(Enviados)
    BY DEF ListaInstantanea
  <2>1. /\ Enviados = IF ocupada THEN {} ELSE {i \in DOMAIN foto : Pedido(peticion, foto[i])}
        /\ Len(trama) = Cardinality(Enviados)
    BY LoEnviado DEF Listas
  <2>2. FiltroFecha(peticion) = 0  BY DEF FiltroFecha
  <2>3. FiltroTipo(peticion) = IF peticion.tipo # "" THEN peticion.tipo ELSE "TODOS"
    BY DEF FiltroTipo
  <2>4. \A f : Pedido(peticion, f) <=> peticion.tipo \in {"", "TODOS"} \/ f.tipo = <<peticion.tipo>>
    BY <2>2, <2>3 DEF Pedido
  <2>5. {i \in DOMAIN foto : Pedido(peticion, foto[i])} = DelTipo(peticion.tipo)
    BY <2>4, Zenon DEF DelTipo
  <2> QED  BY <2>1, <2>5
<1> QED  BY <1>1, Siempre, PTL

\* "(mascara)" stands for the digits of a mask, and no service has digits for its type: the
\* handler, which takes them for a type when the type is blank, would find it.
SinMascara == \A f \in Formularios : f.tipo # <<"(mascara)">>

\* FILTER_SERVICIOS answers with the services of the type that open on a day of the mask, by
\* what the administrator typed; mask 0 is every day, and a blank type is none.
THEOREM FiltroDelDia ==
  ASSUME SinMascara
  PROVE  Spec => []FiltroExacto
<1>1. IInv => FiltroExacto
  <2> DEFINE p == peticion  todos == {i \in DOMAIN foto : Pedido(p, foto[i])}
  <2> SUFFICES ASSUME IInv, pcS = "enviada", p.op = "FILTER_SERVICIOS"
               PROVE  Enviados = IF ocupada \/ p.tipo = "" THEN {}
                                 ELSE IF p.mascara = 0 THEN DelTipo(p.tipo)
                                 ELSE DelTipo(p.tipo) \cap AbiertosEn(p.mascara)
    BY DEF FiltroExacto
  <2>1. Enviados = IF ocupada THEN {} ELSE todos  BY LoEnviado DEF Listas
  <2>2. CASE p.tipo = ""
    <3>1. FiltroTipo(p) = "(mascara)"  BY <2>2 DEF FiltroTipo
    <3>2. \A i \in DOMAIN foto : foto[i].tipo # <<"(mascara)">>
      BY DEF IInv, Tipado, TipoServidor, SinMascara
    <3>3. "(mascara)" # "TODOS"  OBVIOUS
    <3>4. todos = {}  BY <3>1, <3>2, <3>3 DEF Pedido
    <3> HIDE DEF todos, p
    <3> QED  BY <2>1, <2>2, <3>4
  <2>3. CASE p.tipo # ""
    <3>1. FiltroTipo(p) = p.tipo /\ FiltroFecha(p) = p.mascara
      BY <2>3 DEF FiltroTipo, FiltroFecha
    <3>2. \A i \in DOMAIN foto : i \in DelTipo(p.tipo) <=> p.tipo = "TODOS" \/ foto[i].tipo = <<p.tipo>>
      BY <2>3 DEF DelTipo
    <3>3. DelTipo(p.tipo) \subseteq DOMAIN foto /\ AbiertosEn(p.mascara) \subseteq DOMAIN foto
      BY DEF DelTipo, AbiertosEn
    <3>4. CASE p.mascara = 0
      <4>1. \A i \in DOMAIN foto : Pedido(p, foto[i]) <=> i \in DelTipo(p.tipo)
        <5> HIDE DEF p
        <5> QED  BY <3>1, <3>2, <3>4, Zenon DEF Pedido
      <4>2. todos = DelTipo(p.tipo)  BY <3>3, <4>1
      <4> HIDE DEF todos, p
      <4> QED  BY <2>1, <2>3, <3>4, <4>2
    <3>5. CASE p.mascara # 0
      <4>1. \A i \in DOMAIN foto : i \in AbiertosEn(p.mascara) <=> \E d \in DiasDe(foto[i]) : EnMascara(p.mascara, d)
        BY Zenon DEF AbiertosEn
      <4>2. \A i \in DOMAIN foto :
              Pedido(p, foto[i]) <=> i \in DelTipo(p.tipo) /\ i \in AbiertosEn(p.mascara)
        <5> HIDE DEF p
        <5> QED  BY <3>1, <3>2, <3>5, <4>1, Zenon DEF Pedido
      <4>3. todos = DelTipo(p.tipo) \cap AbiertosEn(p.mascara)  BY <3>3, <4>2
      <4> HIDE DEF todos, p
      <4> QED  BY <2>1, <2>3, <3>5, <4>3
    <3> QED  BY <3>4, <3>5
  <2> QED  BY <2>2, <2>3
<1> QED  BY <1>1, Siempre, PTL

-----------------------------------------------------------------------------
(* What the client shows                                                    *)

\* NegocioFactory gives every service one of the three types of the menu.
LEMMA LaFabrica ==
  ASSUME NEW l
  PROVE  LET p == parseServicio(l)  n == crear(p) IN
         /\ n.id = p.id /\ n.nombre = p.nombre /\ n.capacidad = p.capacidad
         /\ n.municipio = p.municipio /\ n.apertura = p.apertura /\ n.cierre = p.cierre
         /\ n.tipo \in DOMAIN Grafias
         /\ n.tipo # "restaurante" => n.dias = p.dias
         /\ p.tipo \in UNION {Grafias[t] : t \in DOMAIN Grafias} => p.tipo \in Grafias[n.tipo]
<1> DEFINE p == parseServicio(l)  n == crear(p)  t == tipoDesdeString(p.tipo)
           G == DOMAIN Grafias
           R(a, b, m, h, k, c, d, e, f) ==
             [id |-> a, nombre |-> b, municipio |-> m, apertura |-> h, cierre |-> k, dias |-> c,
              tipo |-> d, capacidad |-> e, descripcion |-> f]
<1>1. PICK a, b, m, h, k, c, d, e, f : p = R(a, b, m, h, k, c, d, e, f)  BY DEF parseServicio
<1>2. n = R(a, b, m, h, k, IF t = "restaurante" THEN Dias({}) ELSE c,
            IF t = "desconocido" THEN "servicio" ELSE t, e, f)
  <2> HIDE DEF p, t
  <2>1. crear(p) = [p EXCEPT !.tipo = IF t = "desconocido" THEN "servicio" ELSE t,
                             !.dias = IF t = "restaurante" THEN Dias({}) ELSE p.dias]
    BY Zenon DEF crear, t
  <2> QED  BY <1>1, <2>1
<1>3. G = {"restaurante", "servicio", "actividad"}  BY DEF Grafias
<1>4. \/ t \in G /\ p.tipo \in Grafias[t]
      \/ t = "desconocido" /\ ~ \E u \in G : p.tipo \in Grafias[u]
  <2> HIDE DEF p, G
  <2>1. t = IF \E u \in G : p.tipo \in Grafias[u] THEN CHOOSE u \in G : p.tipo \in Grafias[u]
            ELSE "desconocido"
    BY Zenon DEF tipoDesdeString, G
  <2> HIDE DEF t
  <2> QED  BY <2>1
<1> HIDE DEF p, n, t, G
<1>5. n.tipo = IF t = "desconocido" THEN "servicio" ELSE t  BY <1>2
<1>6. n.tipo \in G /\ (n.tipo # "restaurante" => t # "restaurante")  BY <1>3, <1>4, <1>5
<1>7. p.tipo \in UNION {Grafias[u] : u \in G} => p.tipo \in Grafias[n.tipo]
  <2>1. "desconocido" \notin G  BY <1>3
  <2> QED  BY <1>4, <1>5, <2>1
<1>8. n.id = p.id /\ n.nombre = p.nombre /\ n.capacidad = p.capacidad
      /\ n.municipio = p.municipio /\ n.apertura = p.apertura /\ n.cierre = p.cierre
      /\ (t # "restaurante" => n.dias = p.dias)
  BY <1>1, <1>2
<1> QED  BY <1>6, <1>7, <1>8, Zenon DEF p, n, G

LEMMA LaCapacidad ==
  ASSUME NEW c \in Int
  PROVE  CapacidadMinima(c) = Max({1, c})
<1>1. \E x \in {1, c} : \A y \in {1, c} : x >= y
  <2>1. CASE c > 1  BY <2>1
  <2>2. CASE ~ (c > 1)  BY <2>2
  <2> QED  BY <2>1, <2>2
<1>2. Max({1, c}) \in {1, c} /\ \A y \in {1, c} : Max({1, c}) >= y  BY <1>1, Zenon DEF Max
<1>3. Max({1, c}) \in Int /\ Max({1, c}) >= 1 /\ Max({1, c}) >= c  BY <1>2
<1> QED  BY <1>2, <1>3 DEF CapacidadMinima

\* Each object of the cache is that of a line sent, with the id of its row.
LEMMA LoGuardado ==
  ASSUME IInv, Cargada
  PROVE  /\ Len(negocios) = Len(trama) /\ DOMAIN negocios = 1 .. Len(trama)
         /\ \A k \in 1 .. Len(trama) :
              /\ negocios[k] = crear(parseServicio(trama[k])) /\ negocios[k].id = Num(Id(k))
              /\ negocios[k].tipo \in DOMAIN Grafias
              /\ Id(k) \in DOMAIN foto /\ Linea(trama[k], Id(k), foto[Id(k)])
<1> DEFINE S == {crear(parseServicio(trama[k])) : k \in 1 .. Len(trama)}
<1>1. Len(trama) \in Nat /\ DOMAIN trama = 1 .. Len(trama)
  BY LenProperties DEF IInv, Tipado, TipoServidor
<1>2. negocios = [k \in 1 .. Len(trama) |-> crear(parseServicio(trama[k]))]
  BY <1>1 DEF IInv, Ficha
<1>3. negocios \in [1 .. Len(trama) -> S]  BY <1>2, Zenon
<1>4. Len(negocios) = Len(trama)  BY <1>1, <1>3, FuncionEsSecuencia, Zenon
<1>5. ASSUME NEW k \in 1 .. Len(trama)
      PROVE  /\ negocios[k] = crear(parseServicio(trama[k])) /\ negocios[k].id = Num(Id(k))
             /\ negocios[k].tipo \in DOMAIN Grafias
             /\ Id(k) \in DOMAIN foto /\ Linea(trama[k], Id(k), foto[Id(k)])
  <2>1. Id(k) \in DOMAIN foto /\ Linea(trama[k], Id(k), foto[Id(k)])  BY DEF IInv, Lineas
  <2>2. negocios[k] = crear(parseServicio(trama[k]))  BY <1>2, Zenon
  <2>3. parseServicio(trama[k]).id = Num(Id(k))  BY <2>1, LoQueLee, Zenon
  <2> QED  BY <2>1, <2>2, <2>3, LaFabrica, Zenon
<1> QED  BY <1>2, <1>4, <1>5, Zenon

\* What the client shows of a service is what the administrator typed, if no text before the
\* capacity holds a '|': the mask, the line and its parsing lose nothing of the name, the
\* municipality, the hours, the days, the type or the capacity.
THEOREM FichaExacta == Spec => []FichaFiel
<1>1. IInv => FichaFiel
  <2> SUFFICES ASSUME IInv, Cargada
               PROVE  /\ Len(negocios) = Len(trama)
                      /\ \A k \in DOMAIN negocios : LET n == negocios[k]  f == foto[n.id.num] IN
                           SinBarra(f) =>
                             /\ n.nombre = Txt(f.nombre[1]) /\ n.municipio = Txt(f.municipio[1])
                             /\ n.apertura = Txt(f.apertura[1]) /\ n.cierre = Txt(f.cierre[1])
                             /\ n.capacidad = Num(Max({1, f.capacidad}))
                             /\ n.tipo # "restaurante" => n.dias = Dias(DiasDe(f))
                             /\ n.tipo \in DOMAIN Grafias
                             /\ Txt(f.tipo[1]) \in UNION {Grafias[t] : t \in DOMAIN Grafias}
                                  => Txt(f.tipo[1]) \in Grafias[n.tipo]
    BY Zenon DEF FichaFiel
  <2>1. Len(negocios) = Len(trama) /\ DOMAIN negocios = 1 .. Len(trama)  BY LoGuardado, Zenon
  <2>2. ASSUME NEW k \in DOMAIN negocios, SinBarra(foto[negocios[k].id.num])
        PROVE  LET n == negocios[k]  f == foto[n.id.num] IN
               /\ n.nombre = Txt(f.nombre[1]) /\ n.municipio = Txt(f.municipio[1])
               /\ n.apertura = Txt(f.apertura[1]) /\ n.cierre = Txt(f.cierre[1])
               /\ n.capacidad = Num(Max({1, f.capacidad}))
               /\ n.tipo # "restaurante" => n.dias = Dias(DiasDe(f))
               /\ n.tipo \in DOMAIN Grafias
               /\ Txt(f.tipo[1]) \in UNION {Grafias[t] : t \in DOMAIN Grafias}
                    => Txt(f.tipo[1]) \in Grafias[n.tipo]
    <3> DEFINE n == negocios[k]  f == foto[n.id.num]  p == parseServicio(trama[k])
    <3>1. /\ n = crear(p) /\ n.id = Num(Id(k)) /\ n.tipo \in DOMAIN Grafias
          /\ Id(k) \in DOMAIN foto /\ Linea(trama[k], Id(k), foto[Id(k)])
      BY <2>1, LoGuardado, Zenon
    <3>2. n.id.num = Id(k)  BY <3>1, LosNumeros, Zenon
    <3>3. f = foto[Id(k)]  BY <3>2, Zenon
    <3>4. Leida(p, f)
      <4> DEFINE g == foto[Id(k)]  c == trama[k]  j == Id(k)
      <4>1. SinBarra(g)  BY <2>2, <3>3
      <4>2. Linea(c, j, g)  BY <3>1
      <4> HIDE DEF p, g, c, j
      <4>3. Leida(parseServicio(c), g)  BY <4>1, <4>2, LoQueLee
      <4> QED  BY <3>3, <4>3, Zenon DEF g, p, c
    <3>5. f \in Formularios  BY <3>1, <3>3 DEF IInv, Tipado, TipoServidor
    <3>6. CapacidadMinima(f.capacidad) = Max({1, f.capacidad})  BY <3>5, LaForma, LaCapacidad, Zenon
    <3>7. /\ n.nombre = p.nombre /\ n.capacidad = p.capacidad
          /\ n.municipio = p.municipio /\ n.apertura = p.apertura /\ n.cierre = p.cierre
          /\ n.tipo # "restaurante" => n.dias = p.dias
          /\ p.tipo \in UNION {Grafias[t] : t \in DOMAIN Grafias} => p.tipo \in Grafias[n.tipo]
      BY <3>1, LaFabrica, Zenon
    <3> HIDE DEF n, f, p
    <3>8. /\ n.nombre = Txt(f.nombre[1]) /\ n.municipio = Txt(f.municipio[1])
          /\ n.apertura = Txt(f.apertura[1]) /\ n.cierre = Txt(f.cierre[1])
          /\ n.capacidad = Num(Max({1, f.capacidad}))
          /\ n.tipo # "restaurante" => n.dias = Dias(DiasDe(f))
          /\ n.tipo \in DOMAIN Grafias
          /\ Txt(f.tipo[1]) \in UNION {Grafias[t] : t \in DOMAIN Grafias}
               => Txt(f.tipo[1]) \in Grafias[n.tipo]
      BY <3>1, <3>4, <3>6, <3>7, Zenon DEF Leida
    <3> QED  BY <3>8, Zenon DEF n, f
  <2> QED  BY <2>1, <2>2, Zenon
<1> QED  BY <1>1, Siempre, PTL

\* The type is free text for the administrator and the menu of the client has three options:
\* every service of the list is under exactly one of them.
THEOREM UnMenuPorNegocio == Spec => []CadaNegocioEnUnMenu
<1>1. IInv => CadaNegocioEnUnMenu
  <2> DEFINE En(i) == {t \in DOMAIN Grafias : \E k \in PorTipo(t) : negocios[k].id = Num(i)}
  <2> SUFFICES ASSUME IInv, Cargada, peticion = [op |-> "GET_SERVICIOS", tipo |-> "TODOS"],
                      ~ocupada, NEW i \in DOMAIN foto
               PROVE  Cardinality(En(i)) = 1
    BY DEF CadaNegocioEnUnMenu
  <2>1. Exacta(MaxServicio)  BY DEF IInv, ListaInv, Cargada, Listas
  <2>2. Pedido(peticion, foto[i])
    <3>1. FiltroTipo(peticion) = "TODOS" /\ FiltroFecha(peticion) = 0
      BY DEF FiltroTipo, FiltroFecha
    <3> QED  BY <3>1, Zenon DEF Pedido
  <2>3. i <= MaxServicio  BY NumerosAssumption DEF IInv, Tipado, TipoServidor
  <2>4. PICK k \in 1 .. Len(trama) : Id(k) = i  BY <2>1, <2>2, <2>3, Zenon DEF Exacta
  <2>5. \A j \in 1 .. Len(trama) : Id(j) = i => j = k
    <3> SUFFICES ASSUME NEW j \in 1 .. Len(trama), Id(j) = i PROVE j = k  OBVIOUS
    <3>1. Len(trama) \in Nat /\ Id(k) \in Int
      BY <2>3, <2>4, LenProperties DEF IInv, Tipado, TipoServidor
    <3>2. ~ (j < k) /\ ~ (k < j)  BY <2>4, <3>1 DEF IInv, Lineas
    <3> QED  BY <3>1, <3>2
  <2>6. /\ DOMAIN negocios = 1 .. Len(trama)
        /\ \A j \in 1 .. Len(trama) : negocios[j].id = Num(Id(j)) /\ negocios[j].tipo \in DOMAIN Grafias
    BY LoGuardado, Zenon
  <2>7. \A j \in DOMAIN negocios : negocios[j].id = Num(i) <=> j = k
    <3>1. \A x : Num(x) = Num(i) => x = i
      <4> SUFFICES ASSUME NEW x, Num(x) = Num(i) PROVE x = i  OBVIOUS
      <4>1. Num(x).num = x /\ Num(i).num = i  BY LosNumeros
      <4> QED  BY <4>1
    <3> QED  BY <2>4, <2>5, <2>6, <3>1, Zenon
  <2>8. k \in DOMAIN negocios /\ negocios[k].tipo \in DOMAIN Grafias  BY <2>4, <2>6, Zenon
  <2>9. En(i) = {negocios[k].tipo}
    <3>1. ASSUME NEW t \in En(i) PROVE t = negocios[k].tipo
      BY <2>7 DEF PorTipo
    <3>2. k \in PorTipo(negocios[k].tipo)  BY <2>8, Zenon DEF PorTipo
    <3>3. negocios[k].tipo \in En(i)  BY <2>7, <2>8, <3>2, Zenon
    <3> HIDE DEF En
    <3> QED  BY <3>1, <3>3
  <2> HIDE DEF En
  <2> QED  BY <2>9, FS_Singleton, Zenon
<1> QED  BY <1>1, Siempre, PTL
=============================================================================
