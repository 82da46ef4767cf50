--------------------------- MODULE FirmwareEquipo ---------------------------
(***************************************************************************)
(* The firmware service together with the devices it talks to and the      *)
(* network in between: FirmwareActualizacion with an environment that is   *)
(* no longer "any request at any time".                                    *)
(*                                                                         *)
(* The device is not in this repository.  It is modelled from what the     *)
(* service says of it: it polls and fetches an order, waits for the window *)
(* on its own clock, downloads, applies, reboots, and reports each step    *)
(* with an acknowledgement it repeats until somebody answers (accepted or  *)
(* not), "por una red que duplica y reordena".  A poll or an answer may be *)
(* lost, an acknowledgement lost or delivered again later, and a power cut *)
(* makes the device forget the order it was working on.                    *)
(*                                                                         *)
(* Every step here is a step of FirmwareActualizacion or leaves its        *)
(* variables alone.                                                        *)
(***************************************************************************)
EXTENDS FirmwareActualizacion, FiniteSets

CONSTANTS MaxPedidos,    \* bound: orders of rollout
          MaxEnVuelo,    \* bound: acknowledgements in the network at once
          MaxCopias,     \* bound: messages delivered a second time, or too late
          MaxApagones    \* bound: power cuts in the middle of an order

ASSUME CotasAssumption == {MaxPedidos, MaxEnVuelo, MaxCopias, MaxApagones} \subseteq Nat

VARIABLES equipos,       \* what each device runs, holds and is doing
          enVuelo,       \* acknowledgements in the network
          corridas,      \* history: the versions each device has run
          gastado        \* how much of each bound has been used

ambiente == <<equipos, enVuelo, corridas, gastado>>
varsE == <<vars, ambiente>>

Pasos == {"espera"} \cup Reportables

EnEspera(corre) ==
  [corre |-> corre, orden |-> Nulo, paso |-> "espera", contestado |-> TRUE]

TypeOKE ==
  /\ TypeOK
  /\ equipos \in [Gateways -> [corre : Versiones, orden : Releases \cup {Nulo},
                               paso : Pasos, contestado : BOOLEAN]]
  /\ \A g \in Gateways :
       /\ enVuelo[g] \subseteq Reportables \X Versiones
       /\ Cardinality(enVuelo[g]) <= MaxEnVuelo
       /\ equipos[g].corre \in corridas[g]
       /\ equipos[g].paso # "espera" => equipos[g].orden # Nulo

\* Gateways as the panel creates them when nobody types a version.
InitE ==
  /\ Init
  /\ \A g \in Gateways : filas[g].version = Nulo
  /\ equipos \in [Gateways -> {EnEspera(v) : v \in Versiones}]
  /\ enVuelo = [g \in Gateways |-> {}]
  /\ corridas = [g \in Gateways |-> {equipos[g].corre}]
  /\ gastado = [pedidos |-> 0, copias |-> 0, apagones |-> 0]

-----------------------------------------------------------------------------
(* The panel, which the devices do not see.  The configuration can be read  *)
(* and the sites have a time zone.                                         *)

Despliega(r, destino) ==
  /\ gastado.pedidos < MaxPedidos
  /\ Rollout(r, destino)
  /\ filas' # filas
  /\ gastado' = [gastado EXCEPT !.pedidos = @ + 1]
  /\ UNCHANGED <<equipos, enVuelo, corridas>>

Administra ==
  /\ \/ \E r \in Releases : Publish(r) \/ Retire(r)
     \/ \E g \in Gateways : Cancel(g) \/ (~filas[g].credencial /\ Credencial(g, TRUE))
     \/ \E como \in {"apagada", "activa"} \ {flota} : Configura(como)
  /\ UNCHANGED ambiente

-----------------------------------------------------------------------------
(* The device.                                                             *)

\* A device with nothing to do asks; the answer may not make it back.
Consulta(g, llega) ==
  /\ equipos[g].paso = "espera" /\ equipos[g].orden = Nulo
  /\ Pendiente(g)
  /\ equipos' = IF llega /\ HayOrden(filas[g], catalogo)
                THEN [equipos EXCEPT ![g].orden = filas[g].objetivo]
                ELSE equipos
  /\ UNCHANGED <<enVuelo, corridas, gastado>>

\* The window it was given goes by before it began: it asks again.
PasaVentana(g) ==
  /\ CambiaVentana(g)
  /\ equipos' = IF equipos[g].paso = "espera" /\ filas[g].ventana = "abierta"
                THEN [equipos EXCEPT ![g].orden = Nulo] ELSE equipos
  /\ UNCHANGED <<enVuelo, corridas, gastado>>

Da(g, paso) ==
  /\ equipos' = [equipos EXCEPT ![g].paso = paso, ![g].contestado = FALSE,
                   ![g].corre = IF paso = "aplicada"
                                THEN VersionDe[equipos[g].orden] ELSE @]
  /\ corridas' = [corridas EXCEPT ![g] = @ \cup {equipos'[g].corre}]
  /\ UNCHANGED <<vars, enVuelo, gastado>>

Empieza(g) ==
  /\ equipos[g].paso = "espera" /\ equipos[g].orden # Nulo
  /\ Da(g, "descargando")

\* Once the step it is in has been answered it goes on, or gives up.
Sigue(g) ==
  /\ equipos[g].contestado
  /\ \/ equipos[g].paso = "descargando" /\ Da(g, "aplicando")
     \/ equipos[g].paso = "aplicando" /\ Da(g, "aplicada")
     \/ equipos[g].paso \in {"descargando", "aplicando"} /\ Da(g, "fallida")

Termina(g) ==
  /\ equipos[g].contestado /\ equipos[g].paso \in {"aplicada", "fallida"}
  /\ equipos' = [equipos EXCEPT ![g] = EnEspera(@.corre)]
  /\ UNCHANGED <<vars, enVuelo, corridas, gastado>>

\* A power cut: the device comes back with what it had installed.
Apagon(g) ==
  /\ gastado.apagones < MaxApagones
  /\ equipos[g].orden # Nulo
  /\ equipos' = [equipos EXCEPT ![g] = EnEspera(@.corre)]
  /\ gastado' = [gastado EXCEPT !.apagones = @ + 1]
  /\ UNCHANGED <<vars, enVuelo, corridas>>

Late(g) ==
  /\ Heartbeat(g, equipos[g].corre)
  /\ UNCHANGED ambiente

\* The status it publishes over MQTT, handled with no credential and no poll; an
\* old one may still arrive.
Presencia(g, v) ==
  /\ EditarVersion(g, v)
  /\ v # equipos[g].corre => gastado.copias < MaxCopias
  /\ gastado' = IF v # equipos[g].corre THEN [gastado EXCEPT !.copias = @ + 1]
                                        ELSE gastado
  /\ UNCHANGED <<equipos, enVuelo, corridas>>

-----------------------------------------------------------------------------
(* The network.                                                            *)

\* The acknowledgement of the step the device is in.
Mensaje(g) == <<equipos[g].paso, VersionDe[equipos[g].orden]>>

\* Sending it, again or for the first time.  Whatever is older may be lost by
\* then, and has to be where the network holds no more.
Envia(g) ==
  /\ ~equipos[g].contestado
  /\ Mensaje(g) \notin enVuelo[g]
  /\ \E quedan \in SUBSET enVuelo[g] :
       /\ Cardinality(quedan) < MaxEnVuelo
       /\ enVuelo' = [enVuelo EXCEPT ![g] = quedan \cup {Mensaje(g)}]
  /\ UNCHANGED <<vars, equipos, corridas, gastado>>

\* One delivery: the acknowledgement is taken or refused, a copy of it may
\* stay behind, and the answer may get back to a device still waiting for it.
Llega(g, m, copia, contesta) ==
  /\ m \in enVuelo[g]
  /\ IF filas[g].credencial /\ AcuseAceptado(filas[g], m[1], m[2])
     THEN Acuse(g, m[1], m[2]) ELSE UNCHANGED vars
  /\ copia => gastado.copias < MaxCopias
  /\ gastado' = IF copia THEN [gastado EXCEPT !.copias = @ + 1] ELSE gastado
  /\ enVuelo' = IF copia THEN enVuelo ELSE [enVuelo EXCEPT ![g] = @ \ {m}]
  /\ equipos' = IF contesta /\ ~equipos[g].contestado /\ m = Mensaje(g)
                THEN [equipos EXCEPT ![g].contestado = TRUE] ELSE equipos
  /\ UNCHANGED corridas

\* The delivery that counts for liveness: the step the device is in, answered.
Entrega(g) ==
  ~equipos[g].contestado /\ Llega(g, Mensaje(g), FALSE, TRUE)

-----------------------------------------------------------------------------
NextE ==
  \/ Administra
  \/ \E r \in Releases, destino \in SUBSET Gateways : Despliega(r, destino)
  \/ \E g \in Gateways :
       \/ \E llega \in BOOLEAN : Consulta(g, llega)
       \/ PasaVentana(g) \/ Empieza(g) \/ Sigue(g) \/ Termina(g) \/ Apagon(g)
       \/ Late(g) \/ Envia(g)
       \/ \E v \in corridas[g] : Presencia(g, v)
       \/ \E m \in enVuelo[g], copia, contesta \in BOOLEAN :
            Llega(g, m, copia, contesta)

SpecE == InitE /\ [][NextE]_varsE

\* A device that is powered keeps asking, keeps reporting and keeps working;
\* of what it sends over and over, something gets through and is answered; of
\* the windows it is given, it makes one.
JustoCon(g) ==
  /\ SF_varsE(Consulta(g, TRUE)) /\ SF_varsE(Empieza(g))
  /\ WF_varsE(Sigue(g)) /\ WF_varsE(Termina(g)) /\ WF_varsE(Late(g))
  /\ SF_varsE(Envia(g)) /\ SF_varsE(Entrega(g))

SpecJusta == SpecE /\ \A g \in Gateways : JustoCon(g)

-----------------------------------------------------------------------------
(* Safety.                                                                 *)

\* "Aplicada" is never an invention of the CRM: whichever way the row got
\* there (an acknowledgement, a late copy of one, a poll or a heartbeat that
\* closes the order), the device has run that version.
AplicadaEsVerdad ==
  \A g \in Gateways :
    filas[g].estado = "aplicada" => VersionDe[filas[g].objetivo] \in corridas[g]

-----------------------------------------------------------------------------
(* Liveness, while the fleet's switch ends up on.                          *)

Encendida == <>[](flota = "activa")

\* A row nothing the service does will move: the device forgot the order half
\* way through applying it, a poll gives it no other, and neither cancel nor
\* rollout may leave "aplicando".
Varada(g) ==
  /\ filas[g].estado = "aplicando" /\ equipos[g].orden = Nulo
  /\ \/ Retirada(filas[g], catalogo)
     \/ /\ ~PuedeReintentar(filas[g].intentos)
        /\ equipos[g].corre # VersionDe[filas[g].objetivo]

\* Over: applied, taken back, out of attempts, or found to be running already
\* what was asked without ever having said that it was applying it.
Cerrada(g) ==
  \/ filas[g].estado \in {"aplicada", "sin_pendiente"}
  \/ ~PuedeReintentar(filas[g].intentos)
  \/ filas[g].estado # "aplicando" /\ YaCorre(filas[g])

\* An order is not left hanging by a lost poll, a lost answer, a window missed
\* or an attempt that failed: it is over in the end, or stranded.
PedidoTermina ==
  Encendida => \A g \in Gateways :
    filas[g].estado = "programada" ~> Cerrada(g) \/ Varada(g)

\* "Aplicando", the one state nobody can cancel, is left even if the device
\* loses power in it, unless the row is stranded.
AplicandoTermina ==
  Encendida => \A g \in Gateways :
    filas[g].estado = "aplicando" ~> filas[g].estado # "aplicando" \/ Varada(g)

\* The version on record ends up being the one the device runs, although late
\* acknowledgements write over what its heartbeats say.
VersionConverge ==
  \A g \in Gateways, v \in Versiones :
    <>[](equipos[g].corre = v /\ filas[g].credencial) => <>[](filas[g].version = v)

\* A device that installed what it was asked is not left "aplicando" because the
\* acknowledgement was lost (the test of the poll that closes the order).
InstaladaSeCierra ==
  Encendida => \A g \in Gateways :
    (/\ filas[g].estado = "aplicando"
     /\ equipos[g].corre = VersionDe[filas[g].objetivo]
     /\ Cardinality(corridas[g]) > 1)
      ~> filas[g].estado # "aplicando"
=============================================================================
