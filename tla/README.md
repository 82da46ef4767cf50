# Verification of the CRM backend

The backend in this repository (`src/`) keeps the registry of an energy
monitoring fleet: companies, sites, gateways, the Modbus devices behind them,
who may see them, and what each gateway has to run. This directory holds TLA+
modules for the parts of it where the order of things matters, the TLC
configurations that check them on small instances, and theorems about them
checked by TLAPS. `PROJECT.json` lists every run, the mutants each property
catches, the source lines each definition stands for, the hazards and the
findings.

    tlc -workers 2 -config FirmwareEquipo.cfg MCFirmwareEquipo   # one run
    tlapm Firmware_proofs.tla                                    # one proof module

The modules keep the names of the code, which are Spanish.

## 1. The system

One FastAPI process (or several) over PostgreSQL. A request gets one session
(`app/core/database.py:97-105`): it commits at the end and rolls back on any
exception. The isolation is the default one (READ COMMITTED), no query takes a
row lock, `autoflush` is off and objects are not expired on commit: a handler
decides on the row as it first read it, and the UPDATE writes the columns it
changed. Everything that follows about interleavings comes from there.

| Component | State | Operations | Talks to | What is hard | What makes it correct |
|---|---|---|---|---|---|
| **Firmware update** (`services/firmware.py`, `services/firmware_admin.py`, `domain/firmware_update.py`, `models/firmware_release.py`, firmware columns of `gateways`) | per gateway: state, target, window, attempts, versions, reason; the catalogue of releases; four rows of `platform_settings` | publish, retire, rollout, cancel (panel); poll, acknowledge, heartbeat (device) | devices over HTTP, MQTT notices, settings, site time zones | acknowledgements lost, duplicated and late; overlapping requests; reboots; retries; clocks | only declared transitions; attempts capped; an order ends; what is recorded as applied was run; updates inside the window |
| **Gateway configuration** (`services/gateway_config.py`, `api/v1/gateway_config.py`) | `config_habilitada`, applied fingerprint, last contact | enable, fetch, acknowledge, heartbeat, drift | devices, hierarchy (the document), MQTT | the document changes between fetch and acknowledgement; the switch is turned off by one | a device is recorded up to date only on what it would be served |
| **Gateway credentials and tokens** (same file, `core/security.py`, `api/deps.py`) | `credential_hash`, signed tokens with expiry | issue, rotate, revoke, token, authenticate | enrolment, every device endpoint | a token outlives the credential it came from | revoking cuts access; a rotated secret is dead |
| **Enrolment** (`services/enrollment.py`) | one-use tokens with expiry | issue (expires pending ones), exchange (spends and rotates), choose release | credentials, settings | two exchanges, two issues, expiry against use | a token is exchanged once; one live token per gateway |
| **MQTT bridge** (`core/mqtt.py`, `services/mqtt_events.py`) | connection, retained notices on the broker | connect loop, publish, presence | devices, gateways table | reconnects, notices before commit, retained notices that outlive their order, late presences | a notice is only ever a hint |
| **Users and sessions** (`services/user.py`, `services/auth.py`) | accounts, role, active flag, password | create, edit, deactivate, log in, refresh, change password | every panel endpoint | two administrators editing each other; tokens alive after a change | somebody can always administer |
| **Monitor access** (`services/auth_monitor.py`) | client accounts, impersonation in tokens | create, reset, revoke, log in, refresh, impersonate | limiter, users | revoked or demoted between refreshes | a refresh grants no more than the account has now |
| **Service accounts, scopes** (`services/service_accounts.py`, `domain/access.py`) | hashed keys, active flag | create, rotate, revoke, authenticate; visibility of rows | every endpoint | rotation against live tokens | nobody reads another company |
| **Platform settings** (`services/platform_settings.py`, `core/secret_box.py`) | key, value (clear or sealed), secret flag | create, edit, reveal, delete, read in clear | firmware, enrolment | value and flag written by two requests | a secret row never holds clear text |
| **Rate limiter** (`core/rate_limit.py`) | per-key hits of a sliding window, in memory | hit, reset | monitor log in | window edges, several keys per request, several processes | never more than N accepted in a window |
| **Hierarchy** (`services/hierarchy.py`, `repositories/hierarchy.py`, `domain/modbus.py`) | clients, sites, gateways, equipment, variables | create, edit, move, delete | configuration, firmware (time zone) | a test for uniqueness and the insert are two steps | one device per Modbus address; nothing crosses companies |
| **Tariffs** (`services/tariff.py`) | one row per month | write, list | - | - | one tariff per month |
| **Fleet reading** (`services/fleet.py`, `domain/measurements.py`, `domain/gateway_status.py`) | none | summaries | hierarchy, measurements | derived states at their limits | - |

The firmware update is the core: it is the longest protocol in the repository,
the one with actors outside it, and the one whose mistakes need a visit to a
plant. It is modelled first.

## 2. What is modelled

    FirmwareReglas            rules on one row: guards and the row each handler leaves
      FirmwareActualizacion   the service: every handler, one request at a time
        FirmwareTransacciones the same requests as transactions that overlap
        FirmwareEquipo        the service, the devices and the network
      (FirmwareAbstracta)     the promise that FirmwareActualizacion implements
    VentanaFirmware           the nightly window, with the clock and the time zones
    ConfigEntrega             delivery of the configuration to one gateway
    Usuarios                  the table of accounts, and every request that writes it
    Limitador                 the sliding window over the attempts to log in
      Sesiones                tokens of people on both webs, behind the limiter
    CuentasServicio           accounts of other systems, their secrets and tokens
    Ajustes                   the shared settings, sealed or not
      Enrolamiento            tokens of one use, the credential of a gateway, the settings it is sent
    Jerarquia                 clients, sites, gateways, equipment, variables; tariffs by month
      Flota                   what each caller is shown of that tree

`*_proofs` holds the theorems of a module (`Firmware_proofs` those of
FirmwareActualizacion, FirmwareTransacciones and FirmwareEquipo, `Jerarquia_proofs`
those of Jerarquia and Flota), `MC*` the definitions its runs need.

### FirmwareReglas

The columns of `gateways` an update touches, as a record, and for each handler
the condition under which it goes on and the row it leaves (`Desplegable` and
`TrasRollout`, `Cancelable` and `TrasCancel`, `TrasPendiente` with its private
steps `TrasRetiro`, `DadaPorAplicada` and `Vigente`, `AcuseAceptado` and
`TrasAcuse`, `TrasLatido`). The three modules that follow use the same
operators, so that what is proved of a handler is proved of the handler that
the transactions and the devices run.

Abstractions: a release is a value and `VersionDe` the version its text names
("v1.2.0" and "1.2.0" are two rows and one version, as `misma_version` says);
`firmware_aplicar_desde` is *none*, *open or ahead*, or *gone by* (what
`_vigente` asks of it; the instants are in VentanaFirmware); a reason is there
or not; `ultima_conexion`, `firmware_reportado_en`, logging and scopes are left
out. A refused request (4xx) changes nothing and is an action that is not
enabled.

### FirmwareActualizacion

One action per handler: `Publish`, `Retire`, `Rollout` (of any set of
gateways), `Cancel`, `Pendiente` (GET firmware), `Heartbeat`, `Acuse`, and the
other ways the rows it reads are written: `EditarVersion` (PATCH of a gateway,
MQTT presence), `Credencial` (issue, rotate, revoke, enrolment), `Configura`
(the rows of platform_settings, deleted, edited or marked secret),
`EditarZona` (a site's free-text time zone), `CambiaVentana` (the clock). A
request is one step because it is one transaction. The environment is the most
general one: any reportable state for any version, at any time, any number of
times.

* `ObjetivoCoherente`: target, window and state come and go together, although
  three different pieces of code write them.
* `PresupuestoRespetado`: attempts are spent by `acuse`, which never looks at
  the cap, and tested by `pendiente`. The cap holds because nothing gets to
  `programada` with none left.
* `MotivoVeraz`: failed rows have a reason, applied rows none.
* `SoloTransicionesDeclaradas`: only `acuse` validates its transition; the
  other handlers rely on the order of their tests.
* `PedidoInstalable`: no gateway is newly pointed at a release that is not on
  offer, that it already runs, or that it could not download.
* `CumplePromesa`: refinement of FirmwareAbstracta (a package, a stage and the
  downloads left per gateway): a budget of downloads per order, no swap of the
  package under a download or a restart, no cancellation under a restart. The
  mapping takes `descargando` to the download stage, `aplicando` to the
  restart, and a row with no target to a full budget.

### FirmwareTransacciones

Rollout of one gateway, cancel, acknowledgement and poll are split into what
they read, what they decide, and the flush with its commit. `Cambios` is the
set of columns SQLAlchemy puts in the UPDATE (those the handler left different
from what was loaded), `Mezcla` writes them over the row as it is by then, and a
row that breaks the CHECK constraint undoes the transaction. The heartbeat stays
one step: it flushes first, reads the row again under the lock it now holds, and
decides on that. `obsoletas` counts, per row, the commits of a request whose row
had changed since it read it.

* `FilasSinPisar`: a row no stale write has reached is coherent. The
  missing lock is the only thing that can break it.
* `DesbordeAcotado`: each stale write costs at most one attempt over the cap.
* `SaltoSoloPisando`: only a stale write leaves the table of transitions; fresh
  requests and heartbeats do not, not even from a row an earlier one damaged.

### FirmwareEquipo

The device is not in this repository and is modelled from what the service says
of it: it polls, waits for the window, downloads, applies, reboots, and repeats
each acknowledgement until it is answered, accepted or not. The network loses,
repeats and delays acknowledgements and loses answers to polls. A power cut
makes the device forget its order. A presence over MQTT may be old. Every step
is a step of FirmwareActualizacion or leaves its variables alone (theorem
`Compone`).

* `AplicadaEsVerdad`: what is on record as applied has been run by the device.
* `PedidoTermina`, `AplicandoTermina`: orders end, and `aplicando`, which nobody
  can cancel, is left, unless the row is stranded (`Varada`: the order is out of
  attempts or retired and the device forgot it). `Varada` is stated exactly, so
  that the runs show these are the only ways to be stranded; that it happens at
  all is finding *firmware_varada*.
* `VersionConverge`: the version on record ends up being the one that runs.

### VentanaFirmware

Instants are integers, a day is `Dia` of them, a zone is an offset before an
instant and another from it on. `Instante` is `datetime.combine(..., fold=0)`
turned into UTC: an hour the clock repeats is taken the first time, one it skips
with the offset before the skip. `ProximaVentana` is the loop over yesterday,
today and tomorrow. The actions are the clock, an edit of hour and length, a
rollout, a poll, and a cancel. `EnVentana` says the same thing in another way:
it searches the instants at which the wall clock of the site shows the hour.

* `ProximaEsLaPrimera`: `proxima_ventana` is the first instant at which the site
  is in a window, of two days back or of two ahead as the site counts its days: it
  skips neither a night nor the rest of one.
* `EsperaAcotada`: nobody waits longer than a day and the change of clock.
* `OrdenUsable`: a poll never hands out a window gone by, whatever the panel did
  to the configuration after it was computed.

`VentanaAssumption` excludes zones that put the clock back across midnight
(a repeated stretch with a midnight strictly inside): there the local date goes
backwards and the line after the loop, marked unreachable in the code, is
reached. `CambiosAssumption` asks that a change of clock and a window fit in one
day: with a bigger skip the window of the day before yesterday is still open
after it, and the loop starts at yesterday. Windows are of at most twelve hours
(`domain/firmware_update.py:42`), so that only a change of the date line comes near
it. The two are the only assumptions that are not the code's own.

### ConfigEntrega

The document of a gateway has three parts that change apart: the settings and
the firmware version of its row, and its equipment with their variables. A
content is a number; `Documento` is `build`, `Huella` the fingerprint (the
document less `generated_at`), `Actual` what would be served now. A request of
the device reads the row with its token (`PideConfig`, `PideAcuse`) and the
equipment later, when the document is built (`Sirve`, `Comprueba`); the
acknowledgement is flushed later still (`Confirma`, `Mezcla`: the columns it
changed, over the row as it is by then). An edit of the panel is one UPDATE of a
constant and one step. The device is external: it asks one thing at a time,
gives up when it likes (`Abandona`; the server goes on), keeps the file it wrote
last, and acknowledges that one, again and again.

* `AplicadaFueVigente`: a document put together from two moments can be
  downloaded and used, but is never recorded as applied.
* `DesfaseVisible`: with the download off, a gateway the panel shows as up to
  date runs the current version, whatever edits, lost answers and late
  acknowledgements there were. It needs edits that only go forward (`Deshace`
  FALSE): *config_vuelve* shows what an edit undone at the wrong moment does.
* `EntregaTermina`: a download that is on ends, although the acknowledgement is
  refused each time the document moved under it.

An enabling sent while an acknowledgement is between its comparison and its
flush is closed with it: the flush writes `config_habilitada` over it. That is
not a violation of anything the code says; the drift stays visible, which is
what `DesfaseVisible` states. The service that hands out the document is
assumed to be asked with a valid token (the gateway has its credential).

### Requests that overlap

Usuarios, CuentasServicio, Ajustes, Enrolamiento and Jerarquia share one way of
modelling a request, which is that of section 1: an action for what it reads and
decides (with the row it read kept in its session, `leida`), possibly one for a
later read, and `Commit`, which writes the columns it changed (`Mezcla`) over the
row as it is by then, or `Rollback` when a constraint of the database refuses
(`LaBaseAcepta`) or the row of an UPDATE is gone. A statement that sees what is
committed (a count, the UPDATE that expires tokens) is a read at the moment it
runs. What a unique index or a foreign key makes a transaction wait for is
decided at the commit. `pisadas` is the history of the rows that a request wrote
having read an older one. Where a property holds for the other rows only, it says
that the missing lock is the one thing that can break it; where overlapping
requests can break it a bounded number of times, it says how many.

### Usuarios

The accounts of `models/user.py` with everything that writes them: `Create`,
`Update`, `SetPassword`, `Delete` and `ChangeOwnPassword` of UserService, the
access staff grant to a company (`MonitorCreate`, `MonitorReset`,
`MonitorRevoke`), and the script (`CreateAdmin`). A password is reduced to who
chose it. `LosesAdmin` sends a request through `Count`, a second read; an
administrator edits another but never demotes, deactivates or deletes itself.

* `TypeOK` includes what the schema promises: one row per address, and a client
  has a company.
* `CuentasSinPisar`: the other direction of the binding (no member of staff has a
  company), which no CHECK states, and that a password somebody else chose has to
  be changed, for rows that were not written over unread. What overlap does to
  the others: a reset and an edit by the owner leave a password somebody chose
  and no obligation to change it; a promotion and a change of company leave a
  technician with a company.
* `UltimoAdminSoloPorSolape`: the last usable administrator is lost only by a
  request that read the row, or counted the others, before somebody changed
  them. Two administrators that demote each other at once do it, although
  `services/user.py` says the platform never runs out of them.

### Limitador, Sesiones

Limitador is one key of `core/rate_limit.py` as a sequence of ages; `Fuera` is what
`popleft` takes, the longest prefix out of the window. Sesiones
has the accounts, the tokens people hold (the server keeps none), both logins,
both refreshes, impersonation and the change of password from either web; the
accounts are edited under the tokens at any moment (`EditaCuenta`). Tokens carry
what they have left to live.

* `AlcanceReciente`: whoever verifies a token by its claims lets nobody reach
  what their account has not been able to reach for longer than the token has
  lived: a role, a company or a flag taken away is closed within the life of an
  access token, and a chosen company does not survive, in a refresh, the role that
  let it be chosen.
* `MonitorSoloAdmitidos`: only clients and administrators hold tokens of the
  monitoring web. It rests on the branch of `_pair_for` marked as unreachable: a
  client turned technician while it held a token gets to it by changing its
  password.
* `IntentosAcotados`: the passwords looked at, per address and per source,
  between two right ones. The two keys are counted one after the other, and a
  refusal of the second one leaves its trace in the first.

### CuentasServicio

Credentials of other systems. `servicios` is the table, `llaves` the tokens
that were handed over. A secret is its number in the order of generation.

* `LlavesRecientes`: a token was got with a secret that was on file, of a usable
  account, no longer ago than the token has lived, although nothing in the token
  says which secret it came from, and although issuing overlaps rotation.
* `SecretoNoVuelve`: once replaced, a secret is never the one on file again.
  An edit that overlaps a rotation writes its own columns only.

### Ajustes, Enrolamiento

Ajustes: the rows of `platform_settings`. A text is the sequence of keys it is
sealed with, so that sealing twice, opening with the wrong key or sealing the
empty value are different things. The server may start again with another key
(`Reinicia`), which loses the requests in flight. Enrolamiento adds the tokens of
one use and the credentials. An exchange needs the settings to open, all of them, and a
release to be chosen.

* `SelladosSegunMarca`: a value is sealed once if its row is marked secret, and
  not at all if it is not, except where a request wrote over a row it had not
  read. There two updates, one of the value and one of the mark, leave a clear
  text under the mark (it does not open, and enrolment stops until it is typed
  again) or a sealed text with no mark.
* `VivosAcotados`: no more live tokens per gateway than requests that can issue
  at once, although each issue expires only what is committed when it starts.
* `CanjeEntero`: a token is spent exactly when it put a credential on file;
  the failures in between (a gateway deleted, a setting that does not open) undo
  both. Overlapping exchanges of one token all succeed, the last credential stays,
  and they are no more than there can be requests at once.

### Jerarquia, Flota

Jerarquia has the five levels of the tree and the tariffs in one function from
ids to rows. An id gives its level and its parent (never edited), and a creation
takes one no other has (`uuid4`). `Normalizadas`
is what `normalize_transport_fields` can return, so a payload is a coherent row;
what is written is the merge. `DELETE` takes what hangs from the row with it.

* `TypeOK`: a row has its parent and is like no other of those it may not be
  like, whatever overlaps; this is where the constraints stand behind the tests.
* `EquiposCoherentes`: a device has the fields of one transport. The CHECK of
  the table looks at port and host only, so two patches, one that moves the device
  to TCP and one of a serial field, leave a TCP row with a parity; the later
  patches are refused until it is given as null.
* `NombresAcotados`: no constraint stands behind the name of a client, so as many
  can share one as there are requests at once.

Flota asks, of every state of that tree, every question of `services/fleet.py`
and of the listings, for every scope (`Alcances`).

* `LecturasCoinciden`: rows one by one (found going up), listings and tree (found
  going down) and the summary (counted) agree, a filter never widens what a caller
  may see, and a tree cut at a level hangs together.

## 3. Runs and bounds

| Run | States | Bounds | Why they are enough |
|---|---|---|---|
| `firmware_actualizacion` | 92,976 | 1 gateway, 2 releases, 3 versions (one that no release names), 3 attempts | rows do not read each other; two releases let one be retired while the other is asked for; the theorems remove the bounds |
| `firmware_transacciones` | 1,007,556 | 1 gateway, 1 release, 2 requests in flight, 2 attempts, at most 2 stale writes per row | two requests are what it takes to overlap, the second stale write is over a row already damaged; `Simetria` swaps the requests, which are only compared for equality |
| `firmware_equipo` | 100,082 | 1 device that may or may not run the release, 2 attempts, 1 order, 2 acknowledgements in the network, 2 extra deliveries, 1 power cut | a copy can be late for the next step and for the next attempt; the power cut falls anywhere |
| `config_entrega` | 348,768 | 2 requests of the device in the server, each of the three parts edited once, two instants | an abandoned request overlaps the next one; an edit of each part falls anywhere between the reads; the theorems remove the bounds |
| `ventana` | 40,785 | days of 12 instants, 3 days, hours at midnight, around the change and at the end of the day, windows of a twelfth, a quarter and half a day, a fixed zone and both changes of clock | an hour falls inside what a change skips or repeats, and a window opens before midnight |
| `usuarios` | 598,430 | 3 accounts of 2 addresses, 2 requests in flight, 1 company, 1 row written over unread | two administrators that edit each other and somebody to edit them back; an access granted for an address already taken |
| `sesiones` | 1,578,278 | 1 account, 2 companies, 4 tokens alive, access tokens of 2 instants and refresh tokens of 3, 2 attempts in 2 instants | tokens of both kinds and both webs alive at once, an edit between any two of their uses; the window of the limiter slides over a refused attempt |
| `servicios` | 2,961,630 | 1 account, 2 requests in flight, 3 secrets, tokens of 2 instants, accounts that expire in 1 or 2 or never | a rotation overlaps another or an edit, and a token is issued across it |
| `enrolamiento` | 4,083,179 | 1 gateway, 3 tokens, 2 requests in flight, 1 setting, a key that comes and goes, at most 2 seals and 3 credentials | one token more than can be alive and one credential more than one token can give; a missing key is to a sealed text what another key is |
| `jerarquia` | 120,753 | 3 clients, 1 site, 1 gateway, 2 devices, 2 requests in flight | two devices contend for an address, two requests for one device or one name, a deletion goes down two levels under a creation |
| `flota` | 11,736 | 2 clients, 2 sites, 2 gateways, 1 device, 1 variable, 1 tariff | two clients are what a leak needs, and every level is reached |

A run that ends in a violation states what a comment, a docstring or a test
says, and shows a behaviour of the code that does otherwise; it is a finding
in `PROJECT.json`, with the line it quotes.

| Run | What TLC finds |
|---|---|
| `firmware_varada` | release retired, acknowledgement of the installation lost: the poll sees the retirement first and the row is `aplicando` for ever |

`CHECK_DEADLOCK` is off in `usuarios`, `enrolamiento`, `jerarquia` and `flota`:
ids are used once and the bounds run out, so that a model may have nothing left
to do; in none of them does a request wait for another. It is on everywhere
else.

### Fairness

`SpecJusta` of FirmwareEquipo and of ConfigEntrega state some, of the device and
of the requests in the server. In FirmwareEquipo the device polls,
sends, goes on once answered and beats for as long as it has power (weak, and
strong where a cancel, a switch or a window may disable the step in between).
*Strong* fairness of `Consulta(g, TRUE)` and `Entrega(g)` says that of what is
sent over and over something gets through and is answered, which is what the
code assumes of a device that polls on a timer and retries. Nothing is assumed of
the panel: the liveness properties are under "the switch ends up on"
(`Encendida`), since nobody has to turn it on. In ConfigEntrega every request in
the server ends (weak), and the device goes on asking for the document and
acknowledging the one it uses, and now and then is still there when the answer
comes (strong: a request it is waiting for disables the next). That it repeats an
acknowledgement until the download is off is an assumption about the firmware;
the panel need do nothing, and edits run out at the bound. The other modules
state safety only and no fairness: nothing in them has to happen, since a
request nobody sends is not late.

### Faulty variants

Operators marked FAULTY stand next to the definition they are a variant of: a
dropped guard, a reset left out, a test too wide. Nothing uses them; they are
put in place of the real one, one at a time, to see that the property named in
`PROJECT.json` ("mutants") notices.

## 4. What is proved

Every safety invariant and every action property that a run checks is also a
theorem, for every value of the constants.

Assumptions: `ReglasAssumption` (each release names a version, NULL is neither,
the cap is positive), `GatewaysAssumption`, `CotasAssumption` (the bounds are
numbers), `VentanaAssumption` and `CambiosAssumption`, `EntregaAssumption`,
`UsuariosAssumption`, `LimitadorAssumption` and `SesionesAssumption`,
`ServiciosAssumption`, `AjustesAssumption` and `EnrolamientoAssumption`,
`JerarquiaAssumption`: typing of the constants, and that the values that stand for
NULL, for a row not created yet and for a deleted one are none of the others.
`EnrolamientoAssumption` and `JerarquiaAssumption` also ask for finitely many
requests at once, which the theorems that count them need; the latter states the
levels of the tree (a parent is of the level above). TLC evaluates all of them in
the runs. Except `VentanaAssumption` and `CambiosAssumption`, none restricts what
the code can meet.

**Firmware_proofs, the service** (any fleet, catalogue, cap). The inductive
invariant is `Inv == TypeOK /\ ObjetivoCoherente /\ PresupuestoRespetado /\
MotivoVeraz`. None of its parts is inductive alone: that attempts stay under the
cap needs `programada` to have one left; that the poll may rely on it needs the
row to have a target. The three parts speak of rows one at a time, so
`FilaInv` restates them for one row, one lemma per handler shows what the row it
leaves satisfies, and `InvPaso` lifts that to the fleet. From `Inv`:
`TipoCorrecto`, `Coherencia`, `Presupuesto`, `Motivo`. A second round of lemmas
(`*Paso`) says which edge and which abstract step each handler takes:
`CadaPaso` collects them, and from it come `Transiciones_declaradas`,
`Pedidos_instalables` and the refinement `Implementa` (initial states map to
initial states, every step to an abstract step or a stutter).

**Firmware_proofs, the devices** (any network bounds). `InvE` adds to `Inv` where a
version may be seen: a row's version, a row `aplicada`, a device that says it is
done, and an acknowledgement of `aplicada` in the network all name versions the
device has run, and `corridas` only grows. From it `Aplicada_es_verdad` and
`TipoCorrectoE`. `Compone` shows that the composed system implements the service
alone, so that the theorems above hold with devices and network attached.

**Firmware_proofs, the transactions** (any number of requests, gateways and
releases). A handler is shown, on the row it read, to be `Justa`: it takes an edge
of the table, keeps a coherent row coherent and a budget within whatever stale
writes have already cost. That is asked of every typed row, coherent or damaged,
since damaged rows are read too. The invariant `InvT` says it of each request that has
decided, as long as its row is the one it read (`fresca`); beside it, of every write
that may land on a row it knows nothing about (`Ciega`), that it leaves the attempts
alone, resets them, or counts one more from a number that was within the cap when it
was read. A commit of the first kind keeps `FilaBien`; one of the second kind moves
`obsoletas`, and the bound with it. From `InvT`: `Filas_sin_pisar`,
`Desborde_acotado` and, step by step, `Salto_solo_pisando`.

**VentanaFirmware_proofs** (any length of day, hour, window of at most half a
day, and zone within the assumption). Lemma `Inalcanzable` shows that the loop
over three days answers; from `Espera`, which bounds its answer, come
`TipoCorrecto`, `Espera_acotada` and `Orden_usable`. `Proxima_es_la_primera`
compares two definitions: what the clock of the site shows and what the loop
computes are the same instant of a day (`MarcaEsInstante`), those instants are in the
order of their days, and the days `EnVentana` looks at that the loop does not are
over, or begin later than its answer. The last point is where it needs
`CambiosAssumption`.

**ConfigEntrega_proofs** (any number of requests and contents).
`TipoCorrecto` needs no assumption beyond `EntregaAssumption`. `FueVigente` and
`DesfaseSeVe` assume `~Deshace`: versions are then ordered part by part, and the
invariant says that everything lines up (`Ordenadas`: applied, running, current;
`LeidaAntes`, `BajaDespues` and `AcuseAntes`: what a session holds lies between
them), so that when applied and current meet, running is caught in the middle.
Beside it, `EnteraSi`: a version whose row part is still the row's was current
when it was built, which is what the comparison of the acknowledgement tests.

Usuarios, CuentasServicio and Enrolamiento are of requests that overlap, and their
proofs have one form. What is on file is not inductive: the invariant says beside it what each
request, holding a row it read some time ago, is going to write. One group of
lemmas shows that a request is right about the row it read when it decides; one,
that it stays so while others commit; one, that its commit then keeps the table
right.

**Usuarios_proofs** (any number of accounts, addresses, companies and requests).
`Inv` adds to `TypeOK` and `CuentasSinPisar` what a session holds (`SesionBien`):
a new row is right, a change turns a right row into a right one and names every
column it changes, and whoever is about to take an administrator away has counted
another. From it `TipoCorrecto`, `Cuentas_sin_pisar` and, with lemmas that follow
the administrators left after each commit, `Ultimo_admin_solo_por_solape`.

**CuentasServicio_proofs** (any number of accounts, requests and secrets, any
life of accounts and tokens). `Recientes` adds to `LlavesRecientes` that
a token in the hands of a request that has not answered yet (`PorEntregar`) is as
recent as one handed over: the clock passes and rows are rotated in between.
`Generados` says that secrets on file, secrets once on file and secrets about to be
written are all different and all generated, which is what makes `Secreto_no_vuelve`
survive two rotations that overlap.

**Sesiones_proofs** (any number of accounts, companies and tokens, any lives).
`Inv` is the typing of accounts, tokens and history with the two properties:
together they are inductive, because a refresh is given what the account has at
that moment. `HistoriaPaso` (what was open is at most one instant further back
after a step) carries `AlcanceReciente` over the clock. `Intentos_acotados` has an
invariant of its own, `Limites`, that asks nothing of accounts and tokens. The bound
is on the passwords looked at (`probadas`), the limiter counts attempts (`hits`), and
an attempt that the second key refuses is in one and not in the other: counted from
the newest, what was looked at is no more, and no newer, than what was counted
(`Sigue`). Both queues are in the order of their ages (`EsCola`), so that the prefix
`popleft` takes is all that is out of the window (`FueraDe`), of both alike.
With both, `TipoCorrecto`.

**Enrolamiento_proofs** (any number of settings, keys, gateways and tokens, any
finite number of requests). `AjustesInv` adds to `SelladosSegunMarca` what an edit
in flight holds (`Fiel`): a value typed is sealed as the new row is marked, one
not typed is as it was read, and a request knows when the row it read is gone.
`Canjeado` and `Vivos` are the two counts. In the first, the exchanges done of a
token and those in flight are together no more than there can be requests, since
nobody starts to exchange a spent token (`Canje_entero`). For `Vivos_acotados` it
is not enough to count the requests: the invariant says, of every set of pending
tokens of a gateway that some request about to issue leaves alive, that the tokens
of the set and the requests that leave all of them alive are together no more than
there can be requests. A commit moves its request from the second count to the first.

**Jerarquia_proofs** (any tree, names and addresses, any finite number of
requests). `Inv` adds to `TypeOK` and `EquiposCoherentes` that what a request is
about to write was normalised (`PorEscribir`); a merge of a normalised payload over
the row it was made from is coherent, over another one it satisfies the CHECK and no
more (`EscritaBien`). That a row has its parent, under a deletion that goes down
several levels at once, rests on lineages: what is deleted is exactly what has the
row among its ancestors (`LinajeSube`, `TablaBorra`). `Nombres_acotados` counts as
`Vivos_acotados` does: the clients of a name and the requests about to give it are
together no more than there can be requests, since nobody starts to give a name that
a client has. `Lecturas_coinciden` follows from `TypeOK` alone: each reading, up,
down, counted or cut at a level, comes to one set, the rows of a level whose owner is
among those asked for (`Alcanzadas`).

Model-checked only: the liveness properties `PedidoTermina`, `AplicandoTermina` and
`VersionConverge` of FirmwareEquipo and `EntregaTermina` of ConfigEntrega. Fairness
and ENABLED are out of the prover's reach.

`TypeOK` of VentanaFirmware is proved and no run checks it: `OrdenUsable` and
`EsperaAcotada`, which the run does check, are what it is for.

## 5. What is not modelled, and limits

* Firmware: creation of gateways; parsing of version texts and device logs. In
  FirmwareTransacciones: rollout of several gateways in one transaction, the
  switch, an unknown zone. In FirmwareEquipo: the panel typing a version, a
  setting that cannot be read, an unknown zone, revoking credentials.
* ConfigEntrega: the contents of the document and the rules of the edits, revoked
  credentials, `ultima_conexion`.
* The tokens of a gateway (`GatewayTokenService`):
  with them the states of Enrolamiento pass what a run can explore. A token is
  refused while no credential is on file, and answers again if one is issued
  before it expires.
* The MQTT bridge: its notices are hints (a device that gets one asks, and acts on
  the answer), and the one thing that comes in, a presence, is in FirmwareEquipo.
  A notice is published before the commit, a retained one outlives its order, and
  one sent while the bridge is between two connections is dropped.
* Sesiones and CuentasServicio mint a token of one reading of the row. The limiter
  has one process; with several the bound is that many times over.
* Usuarios: clients are not deleted; listings. Jerarquia: every column that is
  not a name, an address or a transport; registers of variables and their
  catalogue; the prices of a tariff. Flota: pages, searches, other filters, last
  contact, measurements.
* The application shell: configuration, logging, mapping of errors to codes.

Behaviours of the modules that a comment or a docstring says do not happen, and
that no run states:

* Two overlapping acknowledgements, or an acknowledgement and a cancel: the one
  that read first writes over the newer state and leaves the table of transitions
  (`Commit` steps of FirmwareTransacciones, what `SaltoSoloPisando` excepts;
  `domain/firmware_update.py:11-14`).
* A late copy of `descargando`, after the failed attempt was scheduled again,
  spends an attempt the device did not make (`Llega` of FirmwareEquipo;
  `services/firmware.py:245-247`).
* A heartbeat that overtakes the acknowledgement of `aplicada` makes the version to
  roll back to the new one (`Late` before `Llega`; `models/gateway.py:126-127`).
* A setting marked secret, or an unknown time zone with a window gone by, makes
  every heartbeat fail and undoes what it reported (`Heartbeat` is not enabled;
  `api/v1/gateway_config.py:107`).
* An edit undone after the device downloaded it, with the download turned off:
  shown as up to date, running the edit (ConfigEntrega with `Deshace`).
* A poll late in the window is granted a full length from then on, past the end of
  the night (`ProximaVentana`; `domain/firmware_update.py:213`).
* An acknowledgement whose target was replaced between its check and its commit
  is progress on the new target (`Confirma` of FirmwareTransacciones;
  `api/v1/gateway_config.py:217-219`); a poll after a retirement takes the target
  from gateways that had installed the release (`TrasRetiro`;
  `services/firmware_admin.py:128`).
* A device that reports `fallida` without ever having begun spends no attempt and
  is rescheduled for ever.
* Two administrators demote each other at once and nobody is left (Usuarios, what
  `UltimoAdminSoloPorSolape` excepts; `services/user.py:60-67`).
* A password set while its owner edits it loses the obligation to change it
  (Usuarios, what `CuentasSinPisar` excepts; `models/user.py:49-51`).
* A clear text in a row marked secret, and a serial field in a TCP row, both by
  overlap (what `SelladosSegunMarca` and `EquiposCoherentes` except;
  `services/platform_settings.py:172`, `models/equipment.py`).
* One token exchanged twice by requests that overlap: both are answered, the
  first credential is dead on arrival (`CanjeEntero`; `services/enrollment.py:128`).
* A revocation that read no credential writes nothing over one put on file
  meanwhile (`CommitRevoke` of Enrolamiento).

## 6. Plan

1. The tokens of gateways, with an abstraction of Enrolamiento small enough to
   compose them with; then ConfigEntrega and FirmwareEquipo under a credential that
   is revoked.
2. Proofs: an abstract specification for the requests that overlap (a table of
   rows, and for each request a write decided on one of its past values) which
   Usuarios, CuentasServicio, Ajustes and Jerarquia implement, so that what their
   proofs repeat is proved once; that a fresh run of FirmwareTransacciones implements
   FirmwareActualizacion.
3. Larger instances of `sesiones` and `enrolamiento` (a second account behind the
   same source, a second gateway).
4. The notices of the MQTT bridge, with FirmwareEquipo's device as their reader, if
   devices come to act on them without asking.
