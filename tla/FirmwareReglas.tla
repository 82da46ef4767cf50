--------------------------- MODULE FirmwareReglas ---------------------------
(***************************************************************************)
(* The rules of a remote firmware update, without a database: which state  *)
(* may follow which (app/domain/firmware_update.py) and what each handler  *)
(* of app/services/firmware.py and app/services/firmware_admin.py does to  *)
(* the one row of `gateways` it works on.  A row is a record; a handler is *)
(* a guard and the row it leaves.  FirmwareActualizacion runs handlers one *)
(* at a time, FirmwareTransacciones lets their transactions overlap.       *)
(*                                                                         *)
(* A release is a row of the catalogue, a distinct text; VersionDe is the  *)
(* version that text names once it is read as three numbers, so that two   *)
(* releases ("v1.2.0" and "1.2.0") may name one version.  A version text   *)
(* nobody can read is a member of Versiones that no release names.         *)
(***************************************************************************)
EXTENDS Naturals

CONSTANTS Releases,      \* rows of firmware_releases
          Versiones,     \* what a device may report as its version
          VersionDe,     \* the version each release names
          MaxIntentos,   \* MAX_INTENTOS
          Nulo           \* SQL NULL

ASSUME ReglasAssumption ==
  /\ VersionDe \in [Releases -> Versiones]
  /\ Nulo \notin Releases \cup Versiones
  /\ MaxIntentos \in Nat \ {0}

Estados == {"sin_pendiente", "programada", "descargando", "aplicando",
            "aplicada", "fallida"}

\* What a device may report: the other two states are decisions of the CRM.
Reportables == {"descargando", "aplicando", "aplicada", "fallida"}

\* States in which a poll has anything to hand out.
EnCurso == {"programada", "descargando", "aplicando", "fallida"}

Transiciones ==
  [sin_pendiente |-> {"programada"},
   programada    |-> {"descargando", "fallida", "sin_pendiente"},
   descargando   |-> {"aplicando", "fallida", "sin_pendiente"},
   aplicando     |-> {"aplicada", "fallida"},
   aplicada      |-> {"programada", "sin_pendiente"},
   fallida       |-> {"programada", "sin_pendiente"}]

TransicionValida(actual, nuevo) ==
  actual = nuevo \/ nuevo \in Transiciones[actual]

\* FAULTY variant (see README, "Faulty variants"): one attempt too many.
PuedeReintentarDeMas(intentos) == intentos <= MaxIntentos

PuedeReintentar(intentos) == intentos < MaxIntentos

(***************************************************************************)
(* The columns of `gateways` an update touches.  firmware_aplicar_desde is *)
(* kept as what _vigente asks of it: no window, a window still ahead or    *)
(* open, a window gone by (module VentanaFirmware computes it).            *)
(* firmware_error is whether a reason is on record, credential_hash        *)
(* whether there is one.                                                   *)
(***************************************************************************)
Ventanas == {"ninguna", "abierta", "vencida"}

Fila == [estado     : Estados,
         objetivo   : Releases \cup {Nulo},
         ventana    : Ventanas,
         intentos   : 0..MaxIntentos,
         version    : Versiones \cup {Nulo},
         anterior   : Versiones \cup {Nulo},
         error      : BOOLEAN,
         credencial : BOOLEAN]

\* A gateway as it is created: nothing pending, no credential yet.
FilaInicial(v) ==
  [estado |-> "sin_pendiente", objetivo |-> Nulo, ventana |-> "ninguna",
   intentos |-> 0, version |-> v, anterior |-> Nulo, error |-> FALSE,
   credencial |-> FALSE]

\* CHECK firmware_target_present: an update in flight has a target.
CumpleCheck(f) == f.estado = "sin_pendiente" \/ f.objetivo # Nulo

-----------------------------------------------------------------------------
(* The panel: rollout and cancel.                                          *)

\* FAULTY variant: nobody asks whether the device could fetch the package.
DesplegableSinCredencial(f, r) ==
  f.version # VersionDe[r] /\ TransicionValida(f.estado, "programada")

\* FAULTY variant: nobody asks whether it is rebooting with another one.
DesplegableAplicando(f, r) == f.version # VersionDe[r] /\ f.credencial

\* _por_que_no answers None: the release is new to it, it can download it,
\* and it is not half way through another one.
Desplegable(f, r) ==
  /\ f.version # VersionDe[r]
  /\ f.credencial
  /\ TransicionValida(f.estado, "programada")

\* FAULTY variant: the attempts of the last order count for this one.
TrasRolloutSinReponer(f, r) ==
  [f EXCEPT !.objetivo = r, !.estado = "programada", !.ventana = "abierta",
            !.error = FALSE]

TrasRollout(f, r) ==
  [f EXCEPT !.objetivo = r, !.estado = "programada", !.ventana = "abierta",
            !.intentos = 0, !.error = FALSE]

Cancelable(f) ==
  f.estado # "sin_pendiente" /\ TransicionValida(f.estado, "sin_pendiente")

TrasCancel(f) ==
  [f EXCEPT !.estado = "sin_pendiente", !.objetivo = Nulo,
            !.ventana = "ninguna", !.intentos = 0, !.error = FALSE]

-----------------------------------------------------------------------------
(* The device asks: pendiente, with the private steps it ends in.          *)

Retirada(f, cat) == f.objetivo # Nulo /\ cat[f.objetivo] = "retirada"

YaCorre(f) == f.objetivo # Nulo /\ f.version = VersionDe[f.objetivo]

\* The poll answers with an order.
HayOrden(f, cat) ==
  /\ f.objetivo # Nulo
  /\ ~Retirada(f, cat)
  /\ f.estado \in EnCurso
  /\ ~YaCorre(f)
  /\ PuedeReintentar(f.intentos)

\* FAULTY variant: the retirement forgets to drop the target.
TrasRetiroConObjetivo(f) ==
  IF TransicionValida(f.estado, "sin_pendiente")
  THEN [f EXCEPT !.estado = "sin_pendiente", !.error = TRUE]
  ELSE f

\* _cancelar: unlike the panel's cancel it leaves the attempts spent, and it
\* writes the reason down.
TrasRetiro(f) ==
  IF TransicionValida(f.estado, "sin_pendiente")
  THEN [f EXCEPT !.estado = "sin_pendiente", !.objetivo = Nulo,
                 !.ventana = "ninguna", !.error = TRUE]
  ELSE f

\* FAULTY variants: closed without asking the table; the old reason kept; never
\* closed.
DadaPorAplicadaSiempre(f) == [f EXCEPT !.estado = "aplicada", !.error = FALSE]

DadaPorAplicadaConMotivo(f) ==
  IF TransicionValida(f.estado, "aplicada")
  THEN [f EXCEPT !.estado = "aplicada"] ELSE f

DadaPorAplicadaNunca(f) == f

\* _dar_por_aplicada: the device already runs what it was asked to.
DadaPorAplicada(f) ==
  IF TransicionValida(f.estado, "aplicada")
  THEN [f EXCEPT !.estado = "aplicada", !.error = FALSE]
  ELSE f

\* FAULTY variant: the window is recomputed, the failed attempt stays failed.
VigenteSinRearmar(f) == [f EXCEPT !.ventana = "abierta"]

\* _vigente and _rearmar: a window gone by is computed anew, a failed attempt
\* is scheduled again.
Vigente(f) ==
  [f EXCEPT !.ventana = "abierta",
            !.estado = IF @ = "fallida" THEN "programada" ELSE @]

TrasPendiente(f, cat) ==
  CASE Retirada(f, cat) -> TrasRetiro(f)
    [] ~Retirada(f, cat) /\ f.estado \in EnCurso /\ YaCorre(f)
         -> DadaPorAplicada(f)
    [] HayOrden(f, cat) -> Vigente(f)
    [] OTHER -> f

-----------------------------------------------------------------------------
(* The device tells: acuse and heartbeat.                                  *)

\* FAULTY variant: any report is taken, as long as it names the target.
AcuseAceptadoSinTabla(f, e, v) == f.objetivo # Nulo /\ v = VersionDe[f.objetivo]

AcuseAceptado(f, e, v) ==
  /\ f.objetivo # Nulo
  /\ v = VersionDe[f.objetivo]
  /\ TransicionValida(f.estado, e)

\* FAULTY variants: the repeated acknowledgement spends an attempt of its own;
\* the version is recorded a step early.
TrasAcuseRepetido(f, e) ==
  [f EXCEPT !.estado   = e,
            !.intentos = IF e = "descargando" THEN @ + 1 ELSE @,
            !.anterior = IF e = "aplicada" THEN f.version ELSE @,
            !.version  = IF e = "aplicada" THEN VersionDe[f.objetivo] ELSE @,
            !.error    = e = "fallida" \/ (e # "aplicada" /\ @)]

TrasAcuseAdelantado(f, e) ==
  [f EXCEPT !.estado   = e,
            !.intentos = IF e = "descargando" /\ f.estado # e THEN @ + 1 ELSE @,
            !.anterior = IF e = "aplicada" THEN f.version ELSE @,
            !.version  = IF e \in {"aplicando", "aplicada"}
                         THEN VersionDe[f.objetivo] ELSE @,
            !.error    = e = "fallida" \/ (e # "aplicada" /\ @)]

TrasAcuse(f, e) ==
  [f EXCEPT !.estado   = e,
            !.intentos = IF e = "descargando" /\ f.estado # e THEN @ + 1 ELSE @,
            !.anterior = IF e = "aplicada" THEN f.version ELSE @,
            !.version  = IF e = "aplicada" THEN VersionDe[f.objetivo] ELSE @,
            !.error    = e = "fallida" \/ (e # "aplicada" /\ @)]

\* FAULTY variant: only the first version ever reported is recorded.
TrasLatidoPrimero(f, v) ==
  IF v = Nulo \/ f.version # Nulo THEN f ELSE [f EXCEPT !.version = v]

\* A heartbeat that names no version leaves the one on record.
TrasLatido(f, v) == IF v = Nulo THEN f ELSE [f EXCEPT !.version = v]

=============================================================================
