--------------------------- MODULE VentanaFirmware ---------------------------
(***************************************************************************)
(* When an update may be applied: the nightly window of a site, on its own *)
(* clock, computed from instants in UTC (app/domain/firmware_update.py),   *)
(* and the instant each gateway's row keeps of it                          *)
(* (firmware_aplicar_desde, written by rollout and by _vigente).           *)
(*                                                                         *)
(* An instant is an integer, a day is Dia of them.  A time zone is one     *)
(* offset before an instant and another from it on: no change at all, the  *)
(* clock put forward, or the clock put back.                               *)
(***************************************************************************)
EXTENDS Integers

CONSTANTS Dia,          \* instants in a day of the clock
          Horas,        \* hours the fleet may be configured with
          Duraciones,   \* lengths of window it may be configured with
          Zonas,        \* [antes, despues, salto] of each site's zone
          Fin,          \* bound: the last instant
          Nulo

\* A change of clock is shorter than a day, and the stretch of clock that a
\* change repeats does not have a midnight strictly inside.
ASSUME VentanaAssumption ==
  /\ Dia \in Nat \ {0} /\ Fin \in Nat /\ Dia <= Fin
  /\ Horas \subseteq 0..(Dia - 1)
  /\ \A w \in Duraciones : w \in Nat \ {0} /\ 2 * w <= Dia
  /\ Nulo \notin Int
  /\ \A z \in Zonas :
       /\ z \in [antes : Int, despues : Int, salto : Int]
       /\ z.antes - z.despues < Dia /\ z.despues - z.antes < Dia
       /\ \A l \in (z.salto + z.despues + 1)..(z.salto + z.antes - 1) : l % Dia # 0

\* A change of clock and a window fit in a day (windows are of twelve hours at
\* most): no window of the day before yesterday is still open after a skip.
ASSUME CambiosAssumption ==
  \A z \in Zonas, w \in Duraciones :
    z.antes - z.despues + w <= Dia /\ z.despues - z.antes + w <= Dia

VARIABLES reloj,       \* datetime.now(UTC)
          zona,        \* Site.timezone
          hora,        \* FIRMWARE_UPDATE_HORA
          duracion,    \* FIRMWARE_UPDATE_VENTANA_MINUTOS
          desde        \* firmware_aplicar_desde

vars == <<reloj, zona, hora, duracion, desde>>

-----------------------------------------------------------------------------
(* The clock of a site.                                                    *)

Local(z, t) == t + (IF t < z.salto THEN z.antes ELSE z.despues)

Mayor(z) == IF z.antes < z.despues THEN z.despues ELSE z.antes
Menor(z) == IF z.antes < z.despues THEN z.antes ELSE z.despues

\* By how much the clock is moved.
Cambio(z) == Mayor(z) - Menor(z)

\* FAULTY variant (see README, "Faulty variants"): an hour the clock shows
\* twice is taken the second time, one it skips, before the skip (fold=1).
InstanteSegundo(z, dia, h) ==
  LET l == dia * Dia + h
  IN  IF l < z.salto + Menor(z) THEN l - z.antes ELSE l - z.despues

\* datetime.combine(..., fold=0).astimezone(UTC): the offset in force before
\* the change covers the hours that it skips and the first pass of those that
\* it repeats.
Instante(z, dia, h) ==
  LET l == dia * Dia + h
  IN  IF l < z.salto + Mayor(z) THEN l - z.antes ELSE l - z.despues

\* FAULTY variants: the window that opened yesterday, or the one that opens
\* tomorrow, is not looked at.
ProximaVentanaSinAyer(z, ahora, h, w) ==
  LET hoy == Local(z, ahora) \div Dia
      inicio(n) == Instante(z, hoy + n, h)
  IN  CASE ahora < inicio(0) -> inicio(0)
        [] inicio(0) <= ahora /\ ahora < inicio(0) + w -> ahora
        [] OTHER -> inicio(1)

ProximaVentanaSinManana(z, ahora, h, w) ==
  LET hoy == Local(z, ahora) \div Dia
      inicio(n) == Instante(z, hoy + n, h)
      noCerrada(n) == ahora < inicio(n) + w
      alAbrir(n) == IF ahora < inicio(n) THEN inicio(n) ELSE ahora
  IN  CASE noCerrada(-1) -> alAbrir(-1)
        [] ~noCerrada(-1) /\ noCerrada(0) -> alAbrir(0)
        [] OTHER -> inicio(2)

\* The loop over three local days: the first of them whose window has not
\* opened yet, or is open (then it is now), and past them the day after.
ProximaVentana(z, ahora, h, w) ==
  LET hoy == Local(z, ahora) \div Dia
      inicio(n) == Instante(z, hoy + n, h)
      noCerrada(n) == ahora < inicio(n) + w
      alAbrir(n) == IF ahora < inicio(n) THEN inicio(n) ELSE ahora
  IN  CASE noCerrada(-1) -> alAbrir(-1)
        [] ~noCerrada(-1) /\ noCerrada(0) -> alAbrir(0)
        [] ~noCerrada(-1) /\ ~noCerrada(0) /\ noCerrada(1) -> alAbrir(1)
        [] OTHER -> inicio(2)

DentroDeVentana(ahora, d, w) == d <= ahora /\ ahora < d + w

\* FAULTY variant: a window stays good until the end of its day.
EsVigenteTodoElDia(ahora, d, w) == d # Nulo /\ ahora < d + Dia

\* What _vigente keeps: an instant still ahead, or a window still open.
EsVigente(ahora, d, w) ==
  d # Nulo /\ (ahora < d \/ DentroDeVentana(ahora, d, w))

\* The instant _vigente hands out, and keeps.
AEntregar(z, ahora, d, h, w) ==
  IF EsVigente(ahora, d, w) THEN d ELSE ProximaVentana(z, ahora, h, w)

-----------------------------------------------------------------------------
Init ==
  /\ reloj \in 0..(Dia - 1) /\ zona \in Zonas
  /\ hora \in Horas /\ duracion \in Duraciones
  /\ desde = Nulo

Pasa ==
  /\ reloj < Fin
  /\ reloj' = reloj + 1
  /\ UNCHANGED <<zona, hora, duracion, desde>>

\* The panel edits the rows of platform_settings; no gateway is touched.
Configura(h, w) ==
  /\ hora' = h /\ duracion' = w
  /\ UNCHANGED <<reloj, zona, desde>>

\* rollout, for the next window or for right now.
Programa(ahora) ==
  /\ desde' = IF ahora THEN reloj ELSE ProximaVentana(zona, reloj, hora, duracion)
  /\ UNCHANGED <<reloj, zona, hora, duracion>>

\* cancel, or the retirement of the release.
Suelta ==
  /\ desde # Nulo
  /\ desde' = Nulo
  /\ UNCHANGED <<reloj, zona, hora, duracion>>

\* _vigente, on a poll that hands an order out.
Pregunta ==
  /\ desde # Nulo
  /\ desde' = AEntregar(zona, reloj, desde, hora, duracion)
  /\ UNCHANGED <<reloj, zona, hora, duracion>>

Next ==
  \/ Pasa \/ Suelta \/ Pregunta
  \/ \E h \in Horas, w \in Duraciones : Configura(h, w)
  \/ \E ahora \in BOOLEAN : Programa(ahora)

Spec == Init /\ [][Next]_vars

-----------------------------------------------------------------------------
(* The window as the wall clock of the site tells it, whatever the offset   *)
(* in force.                                                               *)

\* The instants at which the clock of the site shows l: two, if l is an hour
\* it repeats, none if it is an hour it skips.
Marca(z, l) == {t \in {l - z.antes, l - z.despues} : Local(z, t) = l}

\* The first of them, or the one at which it shows as much after the skip.
MarcaPrimero(z, l) ==
  LET ts == IF Marca(z, l) # {} THEN Marca(z, l)
            ELSE Marca(z, l + z.despues - z.antes)
  IN  CHOOSE t \in ts : \A u \in ts : t <= u

\* Where the windows of the days around t start, as the site counts its days.
Inicios(z, t, h) ==
  {MarcaPrimero(z, (Local(z, t) \div Dia + n) * Dia + h) : n \in -2..2}

EnVentana(z, t, h, w) == \E i \in Inicios(z, t, h) : i <= t /\ t < i + w

\* No row points to a night further than the next one.
TypeOK ==
  /\ reloj \in 0..Fin /\ zona \in Zonas
  /\ hora \in Horas /\ duracion \in Duraciones
  /\ desde \in Int \cup {Nulo}
  /\ desde # Nulo => desde < reloj + Dia + Cambio(zona)

\* proxima_ventana is the first instant, from now on, at which the site is
\* inside one of its windows: it skips no night and no part of one, on the
\* days the clock changes either, and its last line ("Inalcanzable") is.
ProximaEsLaPrimera ==
  LET t == ProximaVentana(zona, reloj, hora, duracion)
  IN  /\ reloj <= t
      /\ EnVentana(zona, t, hora, duracion)
      /\ \A u \in reloj..(t - 1) : ~EnVentana(zona, u, hora, duracion)

\* Nobody waits for more than a day, or for the longer day in which the clock
\* is put back ("nunca se saltea un dia").
EsperaAcotada ==
  ProximaVentana(zona, reloj, hora, duracion) - reloj
    < Dia + Cambio(zona)

\* The order a poll would hand out can be obeyed, and soon: its window is ahead
\* or open, and not further than the next night, whatever the rows of the
\* configuration became since it was written.
OrdenUsable ==
  desde # Nulo =>
    LET d == AEntregar(zona, reloj, desde, hora, duracion)
    IN  reloj < d + duracion /\ d < reloj + Dia + Cambio(zona)
=============================================================================
