--------------------------- MODULE ConfigEntrega ----------------------------
(***************************************************************************)
(* How one gateway gets its configuration: the panel edits what the        *)
(* document is made of and turns the download on, the device downloads the *)
(* document and says which version it uses, and that acknowledgement turns *)
(* the download off (services/gateway_config.py).                          *)
(*                                                                         *)
(* The document comes from two reads: the row of the gateway, read when    *)
(* the request is authenticated, and its equipment, read when the document *)
(* is built.  Nothing is locked until the flush of the acknowledgement, so *)
(* a document may be put together from two moments, and the version that   *)
(* was compared may no longer be the one on file.                          *)
(*                                                                         *)
(* Edits of the panel are one UPDATE of a constant, hence one step.  The   *)
(* gateway has its credential.  ultima_conexion is left out: every request *)
(* answered writes it and nothing here reads it.  The device is external:  *)
(* it asks one thing at a time, gives up waiting when it likes, keeps the  *)
(* file it wrote last and only ever acknowledges that one.                 *)
(***************************************************************************)
EXTENDS Naturals, Functions

CONSTANTS Peticiones,     \* requests the server can be busy with at once
          Instantes,      \* values of generated_at
          MaxContenido,   \* bound: contents 0..MaxContenido of each part
          Deshace,        \* whether an edit may bring an old content back
          Nulo

VARIABLES fila,           \* the gateway's row, the columns this is about
          equipos,        \* its equipment and variables
          peticiones,     \* requests of the device: what the session has read
          corre,          \* the version of the file the device uses
          espera,         \* the request the device is waiting for
          vigentes        \* history: the versions that were current

vars == <<fila, equipos, peticiones, corre, espera, vigentes>>

Contenidos == 0..MaxContenido

\* What an edit may turn content x into.
Siguientes(x) ==
  {y \in Contenidos : IF Deshace THEN y # x ELSE y = x + 1}

\* What a version tells apart: all that is in the document, less the instant.
Versiones == [ajustes : Contenidos, firmware : Contenidos, equipos : Contenidos]

ASSUME EntregaAssumption ==
  /\ MaxContenido \in Nat
  /\ Deshace \in BOOLEAN
  /\ Instantes # {}
  /\ Nulo \notin Peticiones \cup Versiones

Filas == [habilitada : BOOLEAN, aplicada : Versiones \cup {Nulo},
          ajustes : Contenidos, firmware : Contenidos]

-----------------------------------------------------------------------------
\* build, from the row as the session has it and the equipment as it is now.
Documento(f, e, ahora) ==
  [ajustes |-> f.ajustes, firmware |-> f.firmware, equipos |-> e,
   generado |-> ahora]

\* FAULTY variant (see README, "Faulty variants"): generated_at is not excluded.
HuellaConInstante(documento) == documento

\* compute_config_version: equal for two documents with the same content,
\* whenever they were generated.
Huella(documento) == Restrict(documento, DOMAIN documento \ {"generado"})

Actual == Huella(Documento(fila, equipos, CHOOSE ahora \in Instantes : TRUE))

\* status_for_crm: the switch is ignored.
Desactualizada == fila.aplicada # Actual

\* FAULTY variant: the version is not compared.
AcuseValeSinComparar(leida, version, servida) == leida.habilitada

\* acknowledge: it has to be the version being served, the switch on.
AcuseVale(leida, version, servida) == leida.habilitada /\ version = servida

\* FAULTY variant: the switch stays on.
TrasAcuseSinCerrar(leida, version) == [leida EXCEPT !.aplicada = version]

\* The version is recorded and the download closed.
TrasAcuse(leida, version) ==
  [leida EXCEPT !.aplicada = version, !.habilitada = FALSE]

\* FAULTY variant: every column is written back.
MezclaTodo(actual, leida, nueva) == nueva

\* The flush, over the row as it is now: an UPDATE of the columns the handler
\* left different from what the session had read.
Mezcla(actual, leida, nueva) ==
  [c \in DOMAIN actual |-> IF nueva[c] # leida[c] THEN nueva[c] ELSE actual[c]]

Libre == [fase |-> "libre"]

Sesiones == {Libre} \cup [fase : {"baja"}, leida : Filas]
              \cup [fase : {"acuse", "escribe"}, leida : Filas, version : Versiones]

TypeOK ==
  /\ fila \in Filas
  /\ equipos \in Contenidos
  /\ peticiones \in [Peticiones -> Sesiones]
  /\ corre \in Versiones \cup {Nulo}
  /\ vigentes \subseteq Versiones
  /\ espera \in Peticiones \cup {Nulo}
  /\ espera # Nulo => peticiones[espera] # Libre

Init ==
  /\ fila = [habilitada |-> FALSE, aplicada |-> Nulo, ajustes |-> 0, firmware |-> 0]
  /\ equipos = 0
  /\ peticiones = [p \in Peticiones |-> Libre]
  /\ corre = Nulo /\ espera = Nulo
  /\ vigentes = {Actual}

-----------------------------------------------------------------------------
(* The panel.                                                              *)

Edita ==
  /\ vigentes' = vigentes \cup {Actual'}
  /\ UNCHANGED <<peticiones, corre, espera>>

EditaGateway ==
  /\ \E a \in Siguientes(fila.ajustes) : fila' = [fila EXCEPT !.ajustes = a]
  /\ UNCHANGED equipos
  /\ Edita

EditaEquipos ==
  /\ equipos' \in Siguientes(equipos)
  /\ UNCHANGED fila
  /\ Edita

\* The PATCH that turns the download on or off: nothing is written when the
\* session read that value already.
Interruptor ==
  /\ fila' = [fila EXCEPT !.habilitada = ~@]
  /\ UNCHANGED <<equipos, peticiones, corre, espera, vigentes>>

-----------------------------------------------------------------------------
(* The device: heartbeat (or presence), GET /config, POST /config/ack.     *)

Heartbeat ==
  /\ \E v \in Siguientes(fila.firmware) : fila' = [fila EXCEPT !.firmware = v]
  /\ UNCHANGED equipos
  /\ Edita

Pide(p, peticion) ==
  /\ espera = Nulo /\ peticiones[p] = Libre
  /\ espera' = p
  /\ peticiones' = [peticiones EXCEPT ![p] = peticion]
  /\ UNCHANGED <<fila, equipos, corre, vigentes>>

\* The row comes with the token of the request (get_current_gateway).
PideConfig(p) == Pide(p, [fase |-> "baja", leida |-> fila])

PideAcuse(p) ==
  /\ corre # Nulo
  /\ Pide(p, [fase |-> "acuse", leida |-> fila, version |-> corre])

\* A timeout, or a restart: whatever the server was doing it goes on doing.
Abandona ==
  /\ espera # Nulo
  /\ espera' = Nulo
  /\ UNCHANGED <<fila, equipos, peticiones, corre, vigentes>>

Responde(p) ==
  /\ peticiones' = [peticiones EXCEPT ![p] = Libre]
  /\ espera' = IF espera = p THEN Nulo ELSE espera

\* 200 with the document, 304 when the device holds it, 403 with the switch off.
Sirve(p) ==
  /\ peticiones[p].fase = "baja"
  /\ Responde(p)
  /\ \E ahora \in Instantes :
       corre' = IF espera = p /\ peticiones[p].leida.habilitada
                THEN Huella(Documento(peticiones[p].leida, equipos, ahora))
                ELSE corre
  /\ UNCHANGED <<fila, equipos, vigentes>>

\* The document is built to compare its version.
Comprueba(p) ==
  /\ peticiones[p].fase = "acuse"
  /\ \E ahora \in Instantes :
       LET q == peticiones[p]
           servida == Huella(Documento(q.leida, equipos, ahora))
       IN  IF AcuseVale(q.leida, q.version, servida)
           THEN /\ peticiones' = [peticiones EXCEPT ![p].fase = "escribe"]
                /\ UNCHANGED espera
           ELSE Responde(p)
  /\ UNCHANGED <<fila, equipos, corre, vigentes>>

\* The UPDATE and the commit, over the row as it is now.
Confirma(p) ==
  /\ peticiones[p].fase = "escribe"
  /\ LET q == peticiones[p]
     IN  fila' = Mezcla(fila, q.leida, TrasAcuse(q.leida, q.version))
  /\ Responde(p)
  /\ UNCHANGED <<equipos, corre, vigentes>>

Servidor(p) == Sirve(p) \/ Comprueba(p) \/ Confirma(p)

Next ==
  \/ EditaGateway \/ EditaEquipos \/ Interruptor
  \/ Heartbeat \/ Abandona
  \/ \E p \in Peticiones : PideConfig(p) \/ PideAcuse(p) \/ Servidor(p)

Spec == Init /\ [][Next]_vars

\* Every request ends.  The device goes on asking and acknowledging, and now
\* and then it is still there when the answer comes.
Fairness ==
  /\ SF_vars(\E p \in Peticiones : PideConfig(p))
  /\ SF_vars(\E p \in Peticiones : PideAcuse(p))
  /\ SF_vars(\E p \in Peticiones : espera = p /\ Sirve(p))
  /\ \A p \in Peticiones : WF_vars(Servidor(p))

SpecJusta == Spec /\ Fairness

-----------------------------------------------------------------------------
\* The version on record as applied was, at some moment, the whole document of
\* the gateway: one put together from two moments, which the device may well be
\* using, is never taken for applied (acknowledge, line 280).
AplicadaFueVigente == fila.aplicada # Nulo => fila.aplicada \in vigentes

\* "Whether the device is running what the CRM currently has for it": a gateway
\* the panel shows as up to date runs the current version.  The switch is off,
\* so what it runs now is what it will go on running.
DesfaseVisible == ~fila.habilitada /\ ~Desactualizada => corre = Actual

\* A download that is turned on gets to be turned off by whoever applied it (or
\* by the panel): acknowledging never falls behind the document for ever.
EntregaTermina == fila.habilitada ~> ~fila.habilitada
=============================================================================
