----------------------- MODULE VentanaFirmware_proofs ------------------------
(***************************************************************************)
(* What VentanaFirmware promises, for every length of day, every hour,     *)
(* every window of at most half a day and every zone whose clock is not    *)
(* put back across midnight.  That the window is the first one also takes  *)
(* CambiosAssumption: a change and a window fit in one day.                *)
(***************************************************************************)
EXTENDS VentanaFirmware, TLAPS

\* The facts about the constants a step needs.
LEMMA Constantes ==
  /\ Dia \in Nat \ {0} /\ Fin \in Nat /\ Dia <= Fin
  /\ \A h \in Horas : h \in 0..(Dia - 1)
  /\ \A w \in Duraciones : w \in Nat \ {0} /\ 2 * w <= Dia
  /\ Nulo \notin Int
  /\ \A z \in Zonas :
       /\ z.antes \in Int /\ z.despues \in Int /\ z.salto \in Int
       /\ z.antes - z.despues < Dia /\ z.despues - z.antes < Dia
       /\ \A l \in Int : z.salto + z.despues < l /\ l < z.salto + z.antes
                           => l % Dia # 0
  BY VentanaAssumption

\* The midnights around an instant: the last one on its clock, and that all
\* the others are a whole number of days away.
LEMMA Medianoche ==
  ASSUME NEW x \in Int
  PROVE  LET m == (x \div Dia) * Dia
         IN  /\ x \div Dia \in Int /\ m \in Int
             /\ m <= x /\ x < m + Dia
             /\ (x \div Dia + (-1)) * Dia = m - Dia
             /\ (x \div Dia + 0) * Dia = m
             /\ (x \div Dia + 1) * Dia = m + Dia
             /\ (x \div Dia + 2) * Dia = m + 2 * Dia
             /\ (m + Dia) % Dia = 0
  <1>1. Dia \in Nat \ {0}
    BY Constantes
  <1> DEFINE q == x \div Dia
  <1>2. q \in Int /\ x = Dia * q + (x % Dia) /\ x % Dia \in 0..(Dia - 1)
    BY <1>1
  <1>3. ((q + 1) * Dia) % Dia = 0
    BY <1>1, <1>2
  <1> QED BY <1>1, <1>2, <1>3

\* When the window of day d opens, l being the midnight it starts with.
LEMMA Apertura ==
  ASSUME NEW z \in Zonas, NEW d \in Int, NEW h \in Horas, NEW l \in Int,
         l = d * Dia
  PROVE  /\ Instante(z, d, h) \in Int
         /\ \/ Instante(z, d, h) = l + h - z.antes
               /\ l + h < z.salto + Mayor(z)
            \/ Instante(z, d, h) = l + h - z.despues
               /\ ~(l + h < z.salto + Mayor(z))
         /\ l + h - Mayor(z) <= Instante(z, d, h)
         /\ Instante(z, d, h) <= l + h - Menor(z)
  BY Constantes DEF Instante, Mayor, Menor

\* Tomorrow's window is always ahead: the loop over three days answers in one
\* of them, and the line after it is unreachable, as its comment says, in the
\* zones that do not repeat a stretch across midnight.
LEMMA Inalcanzable ==
  ASSUME NEW z \in Zonas, NEW t \in Int, NEW h \in Horas
  PROVE  t < Instante(z, Local(z, t) \div Dia + 1, h)
  <1> DEFINE m == (Local(z, t) \div Dia) * Dia
             d == Local(z, t) \div Dia + 1
  <1>1. /\ Dia \in Nat \ {0} /\ h \in 0..(Dia - 1)
        /\ z.antes \in Int /\ z.despues \in Int /\ z.salto \in Int
        /\ z.antes - z.despues < Dia /\ z.despues - z.antes < Dia
        /\ \A l \in Int : z.salto + z.despues < l /\ l < z.salto + z.antes
                            => l % Dia # 0
    BY Constantes
  <1>2. Local(z, t) \in Int
    BY <1>1 DEF Local
  <1>3. /\ d \in Int /\ m \in Int
        /\ m <= Local(z, t) /\ Local(z, t) < m + Dia
        /\ d * Dia = m + Dia /\ (m + Dia) % Dia = 0
    BY <1>2, Medianoche
  <1> HIDE DEF m, d
  <1>4. ~ (z.salto + z.despues < m + Dia /\ m + Dia < z.salto + z.antes)
    BY <1>1, <1>3
  <1>5. \/ Instante(z, d, h) = m + Dia + h - z.antes
              /\ m + Dia + h < z.salto + Mayor(z)
        \/ Instante(z, d, h) = m + Dia + h - z.despues
              /\ ~(m + Dia + h < z.salto + Mayor(z))
    BY <1>1, <1>3, Apertura
  <1>6. \/ t < z.salto /\ Local(z, t) = t + z.antes
        \/ z.salto <= t /\ Local(z, t) = t + z.despues
    BY <1>1 DEF Local
  <1>7. t < Instante(z, d, h)
    BY <1>1, <1>3, <1>4, <1>5, <1>6 DEF Mayor
  <1> QED BY <1>7 DEF d

\* What the loop answers: now or later, and before a day, or the longer day in
\* which the clock is put back, is over.
LEMMA Espera ==
  ASSUME NEW z \in Zonas, NEW t \in Int, NEW h \in Horas, NEW w \in Duraciones
  PROVE  /\ ProximaVentana(z, t, h, w) \in Int
         /\ t <= ProximaVentana(z, t, h, w)
         /\ ProximaVentana(z, t, h, w) - t < Dia + Cambio(z)
  <1> DEFINE q == Local(z, t) \div Dia
             m == q * Dia
             inicio(n) == Instante(z, q + n, h)
             noCerrada(n) == t < inicio(n) + w
             p == ProximaVentana(z, t, h, w)
  <1>1. /\ Dia \in Nat \ {0} /\ h \in 0..(Dia - 1) /\ w \in Nat \ {0}
        /\ z.antes \in Int /\ z.despues \in Int /\ z.salto \in Int
    BY Constantes
  <1>2. /\ Local(z, t) \in Int
        /\ t + Menor(z) <= Local(z, t) /\ Local(z, t) <= t + Mayor(z)
        /\ Menor(z) \in Int /\ Mayor(z) \in Int /\ Cambio(z) \in Nat
    BY <1>1 DEF Local, Menor, Mayor, Cambio
  <1>3. /\ q \in Int /\ m \in Int /\ m <= Local(z, t) /\ Local(z, t) < m + Dia
        /\ (q + (-1)) * Dia = m - Dia /\ (q + 0) * Dia = m
        /\ (q + 1) * Dia = m + Dia
    BY <1>2, Medianoche
  <1>4. /\ inicio(-1) \in Int /\ inicio(-1) <= m - Dia + h - Menor(z)
        /\ inicio(0) \in Int /\ inicio(0) <= m + h - Menor(z)
        /\ m + h - Mayor(z) <= inicio(0)
        /\ inicio(1) \in Int /\ inicio(1) <= m + Dia + h - Menor(z)
    <2>1. q + (-1) \in Int /\ q + 0 \in Int /\ q + 1 \in Int
      BY <1>3
    <2>2. m - Dia \in Int /\ m + Dia \in Int
      BY <1>1, <1>3
    <2> HIDE DEF q, m
    <2> QED BY <1>3, <2>1, <2>2, Apertura
  <1>5. t < inicio(1)
    BY Inalcanzable
  <1>6. \/ noCerrada(-1) /\ p = IF t < inicio(-1) THEN inicio(-1) ELSE t
        \/ noCerrada(0) /\ p = IF t < inicio(0) THEN inicio(0) ELSE t
        \/ ~noCerrada(0) /\ p = inicio(1)
    BY <1>1, <1>4, <1>5 DEF ProximaVentana
  <1> HIDE DEF inicio, q, m, p
  <1>7. p \in Int /\ t <= p /\ p - t < Dia + Cambio(z)
    BY <1>1, <1>2, <1>3, <1>4, <1>5, <1>6 DEF Cambio
  <1> QED BY <1>7 DEF p

-----------------------------------------------------------------------------
\* Every row points at most to the next night (TypeOK of VentanaFirmware).
THEOREM TipoCorrecto == Spec => []TypeOK
  <1>1. Init => TypeOK
    <2>1. Init => reloj \in 0..Fin
      BY Constantes DEF Init
    <2> QED BY <2>1 DEF Init, TypeOK
  <1>2. TypeOK /\ [Next]_vars => TypeOK'
    <2> SUFFICES ASSUME TypeOK, [Next]_vars PROVE TypeOK'
      OBVIOUS
    <2>0. reloj \in Int /\ Fin \in Nat /\ Dia \in Nat /\ Cambio(zona) \in Nat
      BY Constantes DEF TypeOK, Cambio, Mayor, Menor
    <2>1. /\ ProximaVentana(zona, reloj, hora, duracion) \in Int
          /\ ProximaVentana(zona, reloj, hora, duracion)
               < reloj + Dia + Cambio(zona)
      BY <2>0, Espera DEF TypeOK
    <2>2. CASE Pasa
      BY <2>0, <2>2, Constantes DEF Pasa, TypeOK
    <2>3. CASE Suelta
      BY <2>3 DEF Suelta, TypeOK
    <2>4. CASE Pregunta
      BY <2>0, <2>1, <2>4 DEF Pregunta, AEntregar, TypeOK
    <2>5. ASSUME NEW h \in Horas, NEW w \in Duraciones, Configura(h, w)
          PROVE  TypeOK'
      BY <2>5 DEF Configura, TypeOK
    <2>6. ASSUME NEW ahora \in BOOLEAN, Programa(ahora)
          PROVE  TypeOK'
      BY <2>0, <2>1, <2>6, Constantes DEF Programa, TypeOK
    <2>7. CASE UNCHANGED vars
      BY <2>7 DEF vars, TypeOK
    <2> QED BY <2>2, <2>3, <2>4, <2>5, <2>6, <2>7 DEF Next
  <1> QED BY <1>1, <1>2, PTL DEF Spec

\* Nobody waits for more than the longest day of its clock: EsperaAcotada of
\* every state in which an order may be computed.
THEOREM Espera_acotada == Spec => []EsperaAcotada
  <1>1. TypeOK => EsperaAcotada
    BY Espera, Constantes DEF TypeOK, EsperaAcotada
  <1> QED BY <1>1, TipoCorrecto, PTL

\* No poll hands out an order whose window has gone by, nor one for a night that
\* is not the next (OrdenUsable).
THEOREM Orden_usable == Spec => []OrdenUsable
  <1>1. TypeOK => OrdenUsable
    <2> SUFFICES ASSUME TypeOK, desde # Nulo PROVE OrdenUsable
      BY DEF OrdenUsable
    <2>1. /\ reloj \in Int /\ duracion \in Nat \ {0} /\ desde \in Int
          /\ hora \in Horas /\ duracion \in Duraciones /\ zona \in Zonas
          /\ desde < reloj + Dia + Cambio(zona)
      BY Constantes DEF TypeOK
    <2>2. CASE EsVigente(reloj, desde, duracion)
      BY <2>1, <2>2 DEF OrdenUsable, AEntregar, EsVigente, DentroDeVentana
    <2>3. CASE ~EsVigente(reloj, desde, duracion)
      <3> DEFINE p == ProximaVentana(zona, reloj, hora, duracion)
                 c == Dia + Cambio(zona)
      <3>1. p \in Int /\ reloj <= p /\ p - reloj < c
        BY <2>1, Espera
      <3>2. c \in Int
        BY <2>1, Constantes DEF Cambio, Mayor, Menor
      <3>3. reloj < p + duracion
        BY <2>1, <3>1
      <3>4. p < reloj + c
        <4> HIDE DEF p, c
        <4> QED BY <2>1, <3>1, <3>2
      <3>5. reloj + c = reloj + Dia + Cambio(zona)
        BY <2>1, Constantes DEF Cambio, Mayor, Menor
      <3> QED BY <2>3, <3>3, <3>4, <3>5 DEF OrdenUsable, AEntregar
    <2> QED BY <2>2, <2>3
  <1> QED BY <1>1, TipoCorrecto, PTL

-----------------------------------------------------------------------------
(* The loop and the wall clock.                                            *)

\* What the clock of the site says of an hour is what the loop computes of it: the
\* first of its instants, or the one an hour it skips is moved to.
LEMMA MarcaEsInstante ==
  ASSUME NEW z \in Zonas, NEW d \in Int, NEW h \in Horas
  PROVE  MarcaPrimero(z, d * Dia + h) = Instante(z, d, h)
<1> DEFINE l == d * Dia + h
           k == l + z.despues - z.antes
           i == IF l < z.salto + Mayor(z) THEN l - z.antes ELSE l - z.despues
           ts == IF Marca(z, l) # {} THEN Marca(z, l) ELSE Marca(z, k)
<1>1. z.antes \in Int /\ z.despues \in Int /\ z.salto \in Int /\ l \in Int /\ k \in Int
  BY Constantes
<1> HIDE DEF l
<1>2. i \in Int /\ (l - z.antes) \in Int /\ (l - z.despues) \in Int
  BY <1>1 DEF Mayor
<1>3. i \in ts /\ \A u \in ts : u \in Int /\ i <= u
  <2>1. CASE Marca(z, l) = {}
    <3>1. /\ Local(z, l - z.antes) # l /\ Local(z, l - z.despues) # l
      BY <2>1 DEF Marca
    <3>2. l < z.salto + z.despues /\ ~(l - z.antes < z.salto)
      BY <1>1, <3>1 DEF Local
    <3>3. i = l - z.antes /\ Local(z, i) = k /\ k - z.despues = i
      BY <1>1, <3>2 DEF Local, Mayor
    <3>4. \A u \in Marca(z, k) : u \in {k - z.antes, k - z.despues} /\ Local(z, u) = k
      BY DEF Marca
    <3>5. \A u \in Marca(z, k) : u \in Int /\ i <= u
      BY <1>1, <3>2, <3>3, <3>4 DEF Local
    <3>6. i \in Marca(z, k)
      BY <3>3 DEF Marca
    <3> QED BY <2>1, <3>5, <3>6
  <2>2. CASE Marca(z, l) # {}
    <3>1. Local(z, l - z.antes) = l \/ Local(z, l - z.despues) = l
      BY <2>2 DEF Marca
    <3>2. Local(z, i) = l /\ i \in {l - z.antes, l - z.despues}
      BY <1>1, <3>1 DEF Local, Mayor
    <3>3. \A u \in {l - z.antes, l - z.despues} : Local(z, u) = l => u \in Int /\ i <= u
      BY <1>1 DEF Local, Mayor
    <3> QED BY <2>2, <3>2, <3>3 DEF Marca
  <2> QED BY <2>1, <2>2
<1> HIDE DEF i, ts
<1>4. (CHOOSE t \in ts : \A u \in ts : t <= u) = i
  <2>1. \A t \in ts : (\A u \in ts : t <= u) => t = i
    BY <1>2, <1>3
  <2>2. \E t \in ts : \A u \in ts : t <= u
    BY <1>3
  <2> QED BY <2>1, <2>2
<1>5. MarcaPrimero(z, l) = i
  BY <1>4 DEF MarcaPrimero, ts, k
<1>6. Instante(z, d, h) = i
  BY DEF Instante, i, l
<1> QED BY <1>5, <1>6 DEF l

\* Days apart are midnights apart.
LEMMA Dias ==
  ASSUME NEW d \in Int, NEW e \in Int, d <= e
  PROVE  d * Dia \in Int /\ e * Dia \in Int /\ d * Dia <= e * Dia
<1>1. Dia \in Nat
  BY Constantes
<1>2. (e - d) \in Nat /\ (e - d) * Dia >= 0
  BY <1>1
<1>3. e * Dia = d * Dia + (e - d) * Dia
  BY <1>1
<1> QED BY <1>1, <1>2, <1>3

\* A later day opens later.
LEMMA AperturaCrece ==
  ASSUME NEW z \in Zonas, NEW h \in Horas, NEW d \in Int, NEW e \in Int, d <= e
  PROVE  Instante(z, d, h) <= Instante(z, e, h)
<1>1. CASE d = e
  BY <1>1, Apertura, Dias
<1>2. CASE d + 1 <= e
  <2>1. d * Dia \in Int /\ e * Dia \in Int /\ (d + 1) * Dia <= e * Dia
    BY <1>2, Dias
  <2>2. (d + 1) * Dia = d * Dia + Dia /\ Dia \in Nat
    BY Constantes
  <2>3. /\ Instante(z, d, h) \in Int /\ Instante(z, e, h) \in Int
        /\ Instante(z, d, h) <= d * Dia + h - Menor(z)
        /\ e * Dia + h - Mayor(z) <= Instante(z, e, h)
    BY <2>1, Apertura
  <2>4. Mayor(z) \in Int /\ Menor(z) \in Int /\ Mayor(z) - Menor(z) < Dia /\ h \in Int
    BY Constantes DEF Mayor, Menor
  <2> QED BY <2>1, <2>2, <2>3, <2>4
<1> QED BY <1>1, <1>2

\* An instant, the midnight before it, and the opening of another day.
LEMMA Distancias ==
  ASSUME NEW z \in Zonas, NEW t \in Int, NEW h \in Horas, NEW d \in Int, NEW q \in Int,
         q = Local(z, t) \div Dia
  PROVE  /\ d * Dia \in Int /\ q * Dia \in Int /\ Instante(z, d, h) \in Int
         /\ Cambio(z) \in Nat
         /\ q * Dia - d * Dia - h - Cambio(z) <= t - Instante(z, d, h)
         /\ t - Instante(z, d, h) < q * Dia + Dia - d * Dia - h + Cambio(z)
<1>1. /\ Dia \in Nat /\ h \in 0..(Dia - 1)
      /\ z.antes \in Int /\ z.despues \in Int /\ z.salto \in Int
  BY Constantes
<1>2. /\ Local(z, t) \in Int
      /\ t + Menor(z) <= Local(z, t) /\ Local(z, t) <= t + Mayor(z)
      /\ Menor(z) \in Int /\ Mayor(z) \in Int /\ Cambio(z) \in Nat
      /\ Cambio(z) = Mayor(z) - Menor(z)
  BY <1>1 DEF Local, Menor, Mayor, Cambio
<1>3. q * Dia \in Int /\ q * Dia <= Local(z, t) /\ Local(z, t) < q * Dia + Dia
  BY <1>2, Medianoche
<1>4. d * Dia \in Int
  BY Dias
<1>5. /\ Instante(z, d, h) \in Int
      /\ d * Dia + h - Mayor(z) <= Instante(z, d, h)
      /\ Instante(z, d, h) <= d * Dia + h - Menor(z)
  BY <1>4, Apertura
<1> QED BY <1>1, <1>2, <1>3, <1>4, <1>5

\* What CambiosAssumption and the bound on a window say of a zone.
LEMMA Holgura ==
  ASSUME NEW z \in Zonas, NEW w \in Duraciones
  PROVE  w \in Nat \ {0} /\ 2 * w <= Dia /\ Cambio(z) < Dia /\ Cambio(z) + w <= Dia
BY Constantes, CambiosAssumption DEF Cambio, Mayor, Menor

\* The windows an instant may be in are those of the days around it.
LEMMA EnVentanaEs ==
  ASSUME NEW z \in Zonas, NEW t \in Int, NEW h \in Horas, NEW w \in Duraciones
  PROVE  EnVentana(z, t, h, w)
           <=> \E d \in Int : Instante(z, d, h) <= t /\ t < Instante(z, d, h) + w
<1> DEFINE q == Local(z, t) \div Dia
<1>1. q \in Int /\ Dia \in Nat \ {0}
  <2>1. Local(z, t) \in Int
    BY Constantes DEF Local
  <2> QED BY <2>1, Constantes
<1> HIDE DEF q
<1>2. \A n \in -2..2 : q + n \in Int /\ MarcaPrimero(z, (q + n) * Dia + h) = Instante(z, q + n, h)
  BY <1>1, MarcaEsInstante
<1>3. EnVentana(z, t, h, w) <=> \E n \in -2..2 : /\ Instante(z, q + n, h) <= t
                                                /\ t < Instante(z, q + n, h) + w
  BY <1>2 DEF EnVentana, Inicios, q
<1>4. ASSUME NEW d \in Int, Instante(z, d, h) <= t, t < Instante(z, d, h) + w
      PROVE  \E n \in -2..2 : d = q + n
  <2>1. /\ d * Dia \in Int /\ q * Dia \in Int /\ Instante(z, d, h) \in Int
        /\ Cambio(z) \in Nat
        /\ q * Dia - d * Dia - h - Cambio(z) <= t - Instante(z, d, h)
        /\ t - Instante(z, d, h) < q * Dia + Dia - d * Dia - h + Cambio(z)
    BY <1>1, Distancias DEF q
  <2>2. w \in Nat /\ 2 * w <= Dia /\ Cambio(z) < Dia /\ h \in 0..(Dia - 1)
    BY Holgura, Constantes
  <2>3. ~(d + 3 <= q)
    <3>1. SUFFICES ASSUME d + 3 <= q PROVE FALSE
      OBVIOUS
    <3>2. (d + 3) * Dia <= q * Dia /\ (d + 3) * Dia = d * Dia + 3 * Dia
      BY <1>1, <3>1, Dias
    <3> QED BY <1>1, <1>4, <2>1, <2>2, <3>2
  <2>4. ~(q + 3 <= d)
    <3>1. SUFFICES ASSUME q + 3 <= d PROVE FALSE
      OBVIOUS
    <3>2. (q + 3) * Dia <= d * Dia /\ (q + 3) * Dia = q * Dia + 3 * Dia
      BY <1>1, <3>1, Dias
    <3> QED BY <1>1, <1>4, <2>1, <2>2, <3>2
  <2>5. d - q \in -2..2 /\ d = q + (d - q)
    BY <1>1, <2>3, <2>4
  <2> QED BY <2>5
<1> QED BY <1>2, <1>3, <1>4

\* The window of the day before yesterday, and any older, is over.
LEMMA Anteriores ==
  ASSUME NEW z \in Zonas, NEW t \in Int, NEW h \in Horas, NEW w \in Duraciones,
         NEW d \in Int, d + 2 <= Local(z, t) \div Dia
  PROVE  Instante(z, d, h) + w <= t
<1> DEFINE q == Local(z, t) \div Dia
<1>1. q \in Int /\ Dia \in Nat \ {0}
  <2>1. Local(z, t) \in Int
    BY Constantes DEF Local
  <2> QED BY <2>1, Constantes
<1>2. d + 2 <= q
  OBVIOUS
<1> HIDE DEF q
<1>3. /\ d * Dia \in Int /\ q * Dia \in Int /\ Instante(z, d, h) \in Int
      /\ Cambio(z) \in Nat
      /\ q * Dia - d * Dia - h - Cambio(z) <= t - Instante(z, d, h)
  BY <1>1, Distancias DEF q
<1>4. w \in Nat /\ Cambio(z) + w <= Dia /\ h \in 0..(Dia - 1)
  BY Holgura, Constantes
<1>5. (d + 2) * Dia <= q * Dia /\ (d + 2) * Dia = d * Dia + 2 * Dia
  BY <1>1, <1>2, Dias
<1> QED BY <1>1, <1>3, <1>4, <1>5

\* The loop answers the first day whose window is not over, and now if it is open.
LEMMA PrimerDia ==
  ASSUME NEW z \in Zonas, NEW t \in Int, NEW h \in Horas, NEW w \in Duraciones
  PROVE  \E d \in Int :
           /\ t < Instante(z, d, h) + w
           /\ ProximaVentana(z, t, h, w)
                = IF t < Instante(z, d, h) THEN Instante(z, d, h) ELSE t
           /\ \A e \in Int : e < d => Instante(z, e, h) + w <= t
<1> DEFINE q == Local(z, t) \div Dia
           inicio(n) == Instante(z, q + n, h)
           noCerrada(n) == t < inicio(n) + w
           alAbrir(n) == IF t < inicio(n) THEN inicio(n) ELSE t
           p == ProximaVentana(z, t, h, w)
<1>1. q \in Int
  <2>1. Local(z, t) \in Int
    BY Constantes DEF Local
  <2> QED BY <2>1, Constantes
<1>2. w \in Nat /\ \A n \in {-1, 0, 1} : q + n \in Int /\ inicio(n) \in Int
  <2>1. \A d \in Int : Instante(z, d, h) \in Int
    BY Apertura, Dias
  <2>2. \A n \in {-1, 0, 1} : q + n \in Int
    BY <1>1
  <2> HIDE DEF q
  <2> QED BY <2>1, <2>2, Holgura
<1>3. t < inicio(1)
  BY Inalcanzable
<1>4. \/ noCerrada(-1) /\ p = alAbrir(-1)
      \/ ~noCerrada(-1) /\ noCerrada(0) /\ p = alAbrir(0)
      \/ ~noCerrada(-1) /\ ~noCerrada(0) /\ noCerrada(1) /\ p = alAbrir(1)
  <2>1. noCerrada(1)
    <3> HIDE DEF inicio
    <3> QED BY <1>2, <1>3
  <2> QED BY <2>1 DEF ProximaVentana
<1>5. \A e \in Int : e < q + (-1) => Instante(z, e, h) + w <= t
  <2> SUFFICES ASSUME NEW e \in Int, e < q + (-1) PROVE Instante(z, e, h) + w <= t
    OBVIOUS
  <2>1. e + 2 <= q
    <3> HIDE DEF q
    <3> QED BY <1>1
  <2> QED BY <2>1, Anteriores
<1> HIDE DEF p, q, alAbrir, noCerrada
<1>6. CASE noCerrada(-1) /\ p = alAbrir(-1)
  <2>1. q + (-1) \in Int
    BY <1>1
  <2> QED BY <1>5, <1>6, <2>1 DEF noCerrada, alAbrir, p
<1>7. CASE ~noCerrada(-1) /\ noCerrada(0) /\ p = alAbrir(0)
  <2>1. q + 0 \in Int /\ \A e \in Int : e < q + 0 => e < q + (-1) \/ e = q + (-1)
    BY <1>1
  <2>2. inicio(-1) + w <= t
    <3> HIDE DEF inicio
    <3> QED BY <1>2, <1>7 DEF noCerrada
  <2>3. \A e \in Int : e < q + 0 => Instante(z, e, h) + w <= t
    BY <1>5, <2>1, <2>2
  <2> QED BY <1>7, <2>1, <2>3 DEF noCerrada, alAbrir, p
<1>8. CASE ~noCerrada(-1) /\ ~noCerrada(0) /\ noCerrada(1) /\ p = alAbrir(1)
  <2>1. q + 1 \in Int /\ \A e \in Int : e < q + 1 =>
                             e < q + (-1) \/ e = q + (-1) \/ e = q + 0
    BY <1>1
  <2>2. inicio(-1) + w <= t /\ inicio(0) + w <= t
    <3> HIDE DEF inicio
    <3> QED BY <1>2, <1>8 DEF noCerrada
  <2>3. \A e \in Int : e < q + 1 => Instante(z, e, h) + w <= t
    BY <1>5, <2>1, <2>2
  <2> QED BY <1>8, <2>1, <2>3 DEF noCerrada, alAbrir, p
<1> QED BY <1>4, <1>6, <1>7, <1>8

\* proxima_ventana is the first instant, from now on, that the wall clock of the
\* site puts inside a window: no night is skipped, nor any part of one, on the days
\* the clock changes either.
THEOREM Proxima_es_la_primera == Spec => []ProximaEsLaPrimera
<1>1. TypeOK => ProximaEsLaPrimera
  <2> SUFFICES ASSUME TypeOK PROVE ProximaEsLaPrimera
    OBVIOUS
  <2> DEFINE t == reloj
             p == ProximaVentana(zona, reloj, hora, duracion)
  <2>1. /\ zona \in Zonas /\ hora \in Horas /\ duracion \in Duraciones /\ t \in Int
        /\ duracion \in Nat \ {0}
    BY Constantes DEF TypeOK
  <2>2. p \in Int /\ t <= p
    BY <2>1, Espera
  <2>3. PICK d \in Int :
          /\ t < Instante(zona, d, hora) + duracion
          /\ p = IF t < Instante(zona, d, hora) THEN Instante(zona, d, hora) ELSE t
          /\ \A e \in Int : e < d => Instante(zona, e, hora) + duracion <= t
    BY <2>1, PrimerDia
  <2>4. \A e \in Int : Instante(zona, e, hora) \in Int
    BY <2>1, Apertura, Dias
  <2> HIDE DEF p, t
  <2>5. Instante(zona, d, hora) <= p /\ p < Instante(zona, d, hora) + duracion
    BY <2>1, <2>3, <2>4
  <2>6. EnVentana(zona, p, hora, duracion)
    BY <2>1, <2>2, <2>5, EnVentanaEs
  <2>7. ASSUME NEW u \in t..(p - 1), EnVentana(zona, u, hora, duracion)
        PROVE  FALSE
    <3>1. u \in Int /\ t <= u /\ u < p
      BY <2>1, <2>2
    <3>2. PICK e \in Int : /\ Instante(zona, e, hora) <= u
                           /\ u < Instante(zona, e, hora) + duracion
      BY <2>1, <2>7, <3>1, EnVentanaEs
    <3>3. CASE e < d
      <4>1. Instante(zona, e, hora) + duracion <= t
        BY <2>3, <3>3
      <4> QED BY <2>1, <2>4, <3>1, <3>2, <4>1
    <3>4. CASE d <= e
      <4>1. Instante(zona, d, hora) <= Instante(zona, e, hora)
        BY <2>1, <3>4, AperturaCrece
      <4> QED BY <2>1, <2>3, <2>4, <3>1, <3>2, <4>1
    <3> QED BY <3>3, <3>4
  <2> QED BY <2>2, <2>6, <2>7 DEF ProximaEsLaPrimera, p, t
<1> QED BY <1>1, TipoCorrecto, PTL
=============================================================================
