----------------------- MODULE FirmwareTransacciones ------------------------
(***************************************************************************)
(* The requests of FirmwareActualizacion as what they are: transactions    *)
(* under READ COMMITTED with no row lock between the SELECT that decides   *)
(* and the UPDATE that writes.  The session computes from the row as it    *)
(* read it; the flush writes the columns whose value differs from what was *)
(* read, and no others, over whatever the row has become.                  *)
(*                                                                         *)
(* The flush of a single UPDATE and the commit behind it are one step: the *)
(* row is locked in between, so no other writer is seen.  The heartbeat    *)
(* writes first and reads the row again under that lock before it looks    *)
(* for an order, hence it stays one step, the one of the atomic module (a  *)
(* version equal to the one it read is not written: the heartbeat of       *)
(* Nulo).                                                                  *)
(*                                                                         *)
(* The requests that overlap are those of the panel and of the device for  *)
(* an update: rollout (of one gateway), cancel, acuse and GET /firmware.   *)
(* The fleet's switch is on, each gateway has its credential and each site *)
(* a time zone.                                                            *)
(***************************************************************************)
EXTENDS FirmwareActualizacion, FiniteSets, Functions

CONSTANTS Peticiones,    \* identifiers of the requests in flight at once
          MaxObsoletas   \* bound: stale writes a row may receive

VARIABLES peticiones,    \* what each request has read, or is about to write
          obsoletas      \* history: how many requests changed this row after
                         \* it had changed since they read it

varsT == <<vars, peticiones, obsoletas>>

Libre == [fase |-> "libre"]

InitT ==
  /\ filas = [g \in Gateways |-> [FilaInicial(Nulo) EXCEPT !.credencial = TRUE]]
  /\ catalogo = [r \in Releases |-> "disponible"]
  /\ flota = "activa" /\ zonas = [g \in Gateways |-> TRUE]
  /\ peticiones = [p \in Peticiones |-> Libre]
  /\ obsoletas = [g \in Gateways |-> 0]

Pasa(p, peticion) ==
  /\ peticiones' = [peticiones EXCEPT ![p] = peticion]
  /\ UNCHANGED <<vars, obsoletas>>

\* The columns the unit of work will write: those the handler left different
\* from what the session loaded.
Cambios(leida, nueva) ==
  Restrict(nueva, {c \in DOMAIN leida : nueva[c] # leida[c]})

\* A handler that has computed its row and has not flushed it yet.
Decidida(g, cambios, fresca) ==
  [fase |-> "escribe", g |-> g, cambios |-> cambios, fresca |-> fresca]

-----------------------------------------------------------------------------
\* rollout reads the release, and only later the row of each gateway.
PideRollout(p, r, g) ==
  /\ peticiones[p] = Libre
  /\ catalogo[r] = "disponible"
  /\ Pasa(p, [fase |-> "destino", r |-> r, g |-> g])

\* firmware_aplicar_desde gets a fresh instant, which may be the very one that
\* was there (a start of window both times): then it is not written.
LeeRollout(p) ==
  /\ peticiones[p].fase = "destino"
  /\ LET g == peticiones[p].g
         f == filas[g]
         c == Cambios(f, TrasRollout(f, peticiones[p].r))
     IN  IF ~Desplegable(f, peticiones[p].r)
         THEN Pasa(p, Libre)
         ELSE \E instante \in {c, [ventana |-> "abierta"]} :
                Pasa(p, Decidida(g,
                          [x \in DOMAIN c \cup DOMAIN instante |->
                             IF x \in DOMAIN c THEN c[x] ELSE instante[x]], TRUE))

PideCancel(p, g) ==
  /\ peticiones[p] = Libre
  /\ Cancelable(filas[g])
  /\ Pasa(p, Decidida(g, Cambios(filas[g], TrasCancel(filas[g])), TRUE))

\* The version of a release never changes, so it does not matter when an
\* acknowledgement reads the one it is compared with.
PideAcuse(p, g, e, v) ==
  /\ peticiones[p] = Libre
  /\ AcuseAceptado(filas[g], e, v)
  /\ Pasa(p, Decidida(g, Cambios(filas[g], TrasAcuse(filas[g], e)), TRUE))

\* GET /firmware: the row comes with the authentication, the release after it.
PidePendiente(p, g) ==
  /\ peticiones[p] = Libre
  /\ Pasa(p, [fase |-> "orden", g |-> g, leida |-> filas[g], fresca |-> TRUE])

DecidePendiente(p) ==
  /\ peticiones[p].fase = "orden"
  /\ LET q == peticiones[p]
         c == Cambios(q.leida, TrasPendiente(q.leida, catalogo))
     IN  Pasa(p, IF DOMAIN c = {} THEN Libre
                 ELSE Decidida(q.g, c, q.fresca))

-----------------------------------------------------------------------------
\* What is left in the sessions once the rows are `nuevas`: the values they
\* read, which may no longer be those of the row.
Envejece(sesiones, nuevas) ==
  [p \in Peticiones |->
     IF "fresca" \in DOMAIN sesiones[p]
        /\ nuevas[sesiones[p].g] # filas[sesiones[p].g]
     THEN [sesiones[p] EXCEPT !.fresca = FALSE] ELSE sesiones[p]]

\* The UPDATE, over the row as it is now.
Mezcla(actual, cambios) ==
  [c \in DOMAIN actual |->
     IF c \in DOMAIN cambios THEN cambios[c] ELSE actual[c]]

\* Flush and commit; a row that breaks the CHECK undoes the transaction.
Confirma(p) ==
  /\ peticiones[p].fase = "escribe"
  /\ LET q == peticiones[p]
         fila == Mezcla(filas[q.g], q.cambios)
         nuevas == IF CumpleCheck(fila) THEN [filas EXCEPT ![q.g] = fila]
                                        ELSE filas
         pisa == ~q.fresca /\ nuevas # filas
     IN  /\ pisa => obsoletas[q.g] < MaxObsoletas
         /\ filas' = nuevas
         /\ obsoletas' = [obsoletas EXCEPT ![q.g] = IF pisa THEN @ + 1 ELSE @]
         /\ peticiones' = Envejece([peticiones EXCEPT ![p] = Libre], nuevas)
  /\ UNCHANGED <<catalogo, flota, zonas>>

\* What stays one step (the version on its own is one UPDATE that reads nothing).
Solas ==
  /\ \/ \E r \in Releases : Retire(r)
     \/ \E g \in Gateways : CambiaVentana(g)
     \/ \E g \in Gateways, v \in Versiones : EditarVersion(g, v)
     \/ \E g \in Gateways, v \in Versiones \cup {Nulo} : Heartbeat(g, v)
  /\ peticiones' = Envejece(peticiones, filas')
  /\ UNCHANGED obsoletas

NextT ==
  \/ \E p \in Peticiones, g \in Gateways :
       \/ PideCancel(p, g) \/ PidePendiente(p, g)
       \/ \E r \in Releases : PideRollout(p, r, g)
       \/ \E e \in Reportables, v \in Versiones : PideAcuse(p, g, e, v)
  \/ \E p \in Peticiones : LeeRollout(p) \/ DecidePendiente(p) \/ Confirma(p)
  \/ Solas

SpecT == InitT /\ [][NextT]_varsT

-----------------------------------------------------------------------------
(* Safety.                                                                 *)

\* Whatever overlaps, a row no stale write has reached is a row of the atomic
\* service: target, window, state, attempts and reason agree.  Stale writes are
\* the only thing the missing lock lets in.
FilasSinPisar ==
  (\A g \in Gateways : obsoletas[g] = 0) =>
    ObjetivoCoherente /\ PresupuestoRespetado /\ MotivoVeraz

\* Each stale write costs a gateway at most one attempt over MAX_INTENTOS: the
\* tests of puede_reintentar that follow it see the real count again.
DesbordeAcotado ==
  \A g \in Gateways : filas[g].intentos <= MaxIntentos + obsoletas[g]

\* A step that takes a row along an edge TRANSICIONES does not have is a stale
\* write.  A fresh acknowledgement, poll, cancel or rollout, and any heartbeat,
\* moves even a row that earlier ones had damaged along a declared edge.
SaltoSoloPisando ==
  [][\A g \in Gateways :
       \/ TransicionValida(filas[g].estado, filas'[g].estado)
       \/ obsoletas'[g] > obsoletas[g]]_varsT
=============================================================================
