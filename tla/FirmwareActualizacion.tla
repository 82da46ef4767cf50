----------------------- MODULE FirmwareActualizacion ------------------------
(***************************************************************************)
(* The firmware service with one request at a time: a fleet of gateways,   *)
(* the release catalogue, the fleet-wide switch, and every handler that    *)
(* changes them.  A request is one step because it is one transaction      *)
(* (get_db_session commits at the end and rolls back on any exception);    *)
(* FirmwareTransacciones takes that step apart.                            *)
(*                                                                         *)
(* The devices and the network are the environment: an acknowledgement of  *)
(* any reportable state for any version, and a heartbeat with any version, *)
(* may arrive at any moment, as often as it likes.                         *)
(***************************************************************************)
EXTENDS FirmwareReglas

CONSTANT Gateways

ASSUME GatewaysAssumption == Nulo \notin Gateways

VARIABLES filas,      \* the row of each gateway
          catalogo,   \* each release: not published yet, offered, or retired
          flota,      \* what config() makes of the rows of platform_settings
          zonas       \* whether the site's time zone is one the system knows

vars == <<filas, catalogo, flota, zonas>>

Catalogo == {"inedita", "disponible", "retirada"}

\* Off, or failing closed on a row it cannot use; on; a row is marked secret,
\* and valor_publico refuses to read it.
Flotas == {"apagada", "activa", "secreta"}

TypeOK ==
  /\ filas \in [Gateways -> Fila]
  /\ catalogo \in [Releases -> Catalogo]
  /\ flota \in Flotas
  /\ zonas \in [Gateways -> BOOLEAN]

Init ==
  /\ filas \in [Gateways -> {FilaInicial(v) : v \in Versiones \cup {Nulo}}]
  /\ catalogo = [r \in Releases |-> "inedita"]
  /\ flota = "apagada"
  /\ zonas = [g \in Gateways |-> TRUE]

-----------------------------------------------------------------------------
(* The panel.                                                              *)

\* A text that is already in the catalogue is refused.
Publish(r) ==
  /\ catalogo[r] = "inedita"
  /\ catalogo' = [catalogo EXCEPT ![r] = "disponible"]
  /\ UNCHANGED <<filas, flota, zonas>>

\* Retiring touches no gateway: each one learns of it when it next polls.
Retire(r) ==
  /\ catalogo[r] = "disponible"
  /\ catalogo' = [catalogo EXCEPT ![r] = "retirada"]
  /\ UNCHANGED <<filas, flota, zonas>>

\* One order for a set of gateways; the ones it makes no sense for are skipped.
\* For right now, it does not look at anybody's time zone.
Rollout(r, destino) ==
  /\ catalogo[r] = "disponible" /\ flota # "secreta"
  /\ filas' = [g \in Gateways |->
                 IF g \in destino /\ Desplegable(filas[g], r)
                 THEN TrasRollout(filas[g], r) ELSE filas[g]]
  /\ UNCHANGED <<catalogo, flota, zonas>>

Cancel(g) ==
  /\ Cancelable(filas[g])
  /\ filas' = [filas EXCEPT ![g] = TrasCancel(@)]
  /\ UNCHANGED <<catalogo, flota, zonas>>

\* The panel edits the rows of the configuration.
Configura(como) ==
  /\ flota' = como
  /\ UNCHANGED <<filas, catalogo, zonas>>

\* A site's time zone is free text.
EditarZona(g, conocida) ==
  /\ zonas' = [zonas EXCEPT ![g] = conocida]
  /\ UNCHANGED <<filas, catalogo, flota>>

\* A version written on its own: an operator types it (PATCH of the gateway), or
\* it comes with the presence a device publishes over MQTT.
EditarVersion(g, v) ==
  /\ filas' = [filas EXCEPT ![g].version = v]
  /\ UNCHANGED <<catalogo, flota, zonas>>

\* rotate (also at the end of an enrolment) and revoke.
Credencial(g, hay) ==
  /\ filas' = [filas EXCEPT ![g].credencial = hay]
  /\ UNCHANGED <<catalogo, flota, zonas>>

\* The clock leaves a window behind, or the panel widens the window enough
\* for one that was gone to be open again.
CambiaVentana(g) ==
  /\ filas[g].ventana # "ninguna"
  /\ filas' = [filas EXCEPT ![g].ventana =
                 IF @ = "abierta" THEN "vencida" ELSE "abierta"]
  /\ UNCHANGED <<catalogo, flota, zonas>>

-----------------------------------------------------------------------------
(* The device, which needs a credential for each of these.                 *)

\* _vigente has a window to compute and no time zone to do it in: the error is
\* nobody's to catch and undoes the request.
SinHora(g, f) == HayOrden(f, catalogo) /\ f.ventana # "abierta" /\ ~zonas[g]

\* GET /firmware; with the switch off it answers 403 and writes nothing.
Pendiente(g) ==
  /\ filas[g].credencial /\ flota = "activa" /\ ~SinHora(g, filas[g])
  /\ filas' = [filas EXCEPT ![g] = TrasPendiente(@, catalogo)]
  /\ UNCHANGED <<catalogo, flota, zonas>>

\* The heartbeat records the version first and then asks what GET asks.  It
\* catches the 403 and nothing else: any other error undoes the version too.
Heartbeat(g, v) ==
  /\ filas[g].credencial /\ flota # "secreta"
  /\ LET visto == TrasLatido(filas[g], v)
     IN  /\ flota = "activa" => ~SinHora(g, visto)
         /\ filas' = [filas EXCEPT ![g] =
              IF flota = "activa" THEN TrasPendiente(visto, catalogo) ELSE visto]
  /\ UNCHANGED <<catalogo, flota, zonas>>

\* An acknowledgement counts whether or not the switch is on.
Acuse(g, e, v) ==
  /\ filas[g].credencial
  /\ AcuseAceptado(filas[g], e, v)
  /\ filas' = [filas EXCEPT ![g] = TrasAcuse(@, e)]
  /\ UNCHANGED <<catalogo, flota, zonas>>

-----------------------------------------------------------------------------
Panel ==
  \/ \E r \in Releases : Publish(r) \/ Retire(r)
  \/ \E r \in Releases, destino \in SUBSET Gateways : Rollout(r, destino)
  \/ \E g \in Gateways : Cancel(g)
  \/ \E como \in Flotas : Configura(como)
  \/ \E g \in Gateways, conocida \in BOOLEAN : EditarZona(g, conocida)
  \/ \E g \in Gateways, v \in Versiones \cup {Nulo} : EditarVersion(g, v)
  \/ \E g \in Gateways, hay \in BOOLEAN : Credencial(g, hay)

Equipo ==
  \/ \E g \in Gateways : CambiaVentana(g) \/ Pendiente(g)
  \/ \E g \in Gateways, v \in Versiones \cup {Nulo} : Heartbeat(g, v)
  \/ \E g \in Gateways, e \in Reportables, v \in Versiones : Acuse(g, e, v)

Next == Panel \/ Equipo

Spec == Init /\ [][Next]_vars

-----------------------------------------------------------------------------
(* Safety.                                                                 *)

\* A target, a window and a state that is not "sin_pendiente" come and go
\* together: rollout, the panel's cancel and the retirement of a release each
\* write the three columns (the database checks one direction of it).
ObjetivoCoherente ==
  \A g \in Gateways :
    /\ filas[g].estado = "sin_pendiente" <=> filas[g].objetivo = Nulo
    /\ filas[g].ventana = "ninguna" <=> filas[g].objetivo = Nulo

\* MAX_INTENTOS really caps the attempts: a gateway is scheduled only with an
\* attempt left, and one that is busy or done has spent at least one.  No
\* handler of the acknowledgement looks at the cap; what keeps the count under
\* it is that pendiente does before it schedules a failure again.
PresupuestoRespetado ==
  \A g \in Gateways :
    /\ filas[g].intentos <= MaxIntentos
    /\ filas[g].estado = "programada" => PuedeReintentar(filas[g].intentos)
    /\ filas[g].estado \in {"descargando", "aplicando", "aplicada"}
         => filas[g].intentos > 0

\* What the panel shows as failed has a reason and what it shows as applied
\* has none, whichever way the row got there (acuse or a poll that closes it).
MotivoVeraz ==
  \A g \in Gateways :
    /\ filas[g].estado = "fallida" => filas[g].error
    /\ filas[g].estado = "aplicada" => ~filas[g].error

\* The inductive invariant.
Inv == TypeOK /\ ObjetivoCoherente /\ PresupuestoRespetado /\ MotivoVeraz

\* No step of any handler, poll and heartbeat included, takes a row along an
\* edge TRANSICIONES does not have, although only acuse calls
\* validar_transicion and the rest rely on the order of their tests.
SoloTransicionesDeclaradas ==
  [][\A g \in Gateways :
       TransicionValida(filas[g].estado, filas'[g].estado)]_vars

\* A gateway is never newly pointed at a release that is not on offer, however
\* retire, rollout and the polls that follow a retirement interleave, and a
\* gateway without a credential is never asked for anything new.
PedidoInstalable ==
  [][\A g \in Gateways :
       filas'[g].objetivo \notin {filas[g].objetivo, Nulo} =>
         /\ catalogo[filas'[g].objetivo] = "disponible"
         /\ filas[g].credencial
         /\ filas[g].version # VersionDe[filas'[g].objetivo]]_vars

\* The abstract promise, under the mapping of its module.
Etapa(f) ==
  CASE f.estado = "descargando" -> "descarga"
    [] f.estado = "aplicando" -> "reinicio"
    [] OTHER -> "reposo"

Restantes(f) ==
  IF f.objetivo = Nulo THEN MaxIntentos ELSE MaxIntentos - f.intentos

Promesa == INSTANCE FirmwareAbstracta WITH
  paquete   <- [g \in Gateways |-> filas[g].objetivo],
  etapa     <- [g \in Gateways |-> Etapa(filas[g])],
  restantes <- [g \in Gateways |-> Restantes(filas[g])]

CumplePromesa == Promesa!Spec
=============================================================================
