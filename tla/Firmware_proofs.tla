--------------------------- MODULE Firmware_proofs ---------------------------
(***************************************************************************)
(* Theorems about the firmware service for any fleet, catalogue and budget *)
(* of attempts, in three parts.                                            *)
(*                                                                         *)
(* FirmwareActualizacion, one request at a time.  Every handler rewrites   *)
(* rows one at a time with the operators of FirmwareReglas, so the         *)
(* inductive argument is made once per operator, on a single row, and      *)
(* lifted to the fleet afterwards.                                         *)
(*                                                                         *)
(* FirmwareEquipo, the devices and any network: no bound on what it        *)
(* repeats or delays matters.  What the service records as applied has     *)
(* been run, and the argument is about where a version can come from.  A   *)
(* row learns one from the device (heartbeat, presence), or from an        *)
(* acknowledgement of "aplicada", and such an acknowledgement is only ever *)
(* sent by a device that already runs what it names; the versions a device *)
(* has run are never forgotten.                                            *)
(*                                                                         *)
(* FirmwareTransacciones, requests that overlap.  A session is followed    *)
(* from its SELECT to its UPDATE by what its write would do: to the row it *)
(* read, while that is still the row there is, and to any row whatever     *)
(* once it may have changed.                                               *)
(***************************************************************************)
EXTENDS FirmwareEquipo, FirmwareTransacciones, FiniteSetTheorems, TLAPS

\* What Inv says of one row.
FilaInv(f) ==
  /\ f \in Fila
  /\ f.estado = "sin_pendiente" <=> f.objetivo = Nulo
  /\ f.ventana = "ninguna" <=> f.objetivo = Nulo
  /\ f.estado = "programada" => f.intentos < MaxIntentos
  /\ f.estado \in {"descargando", "aplicando", "aplicada"} => f.intentos > 0
  /\ f.estado = "fallida" => f.error
  /\ f.estado = "aplicada" => ~f.error

\* What the provers need of the constants.
LEMMA Constantes ==
  /\ MaxIntentos \in Nat /\ MaxIntentos > 0 /\ 0 \in 0..MaxIntentos
  /\ Nulo \notin Releases
  /\ \A r \in Releases : VersionDe[r] \in Versiones
BY ReglasAssumption

LEMMA InvPorFila ==
  ASSUME filas \in [Gateways -> Fila]
  PROVE  (ObjetivoCoherente /\ PresupuestoRespetado /\ MotivoVeraz)
           <=> \A g \in Gateways : FilaInv(filas[g])
BY Constantes
   DEF FilaInv, ObjetivoCoherente, PresupuestoRespetado, MotivoVeraz, Fila,
       PuedeReintentar, Estados

\* The table, edge by edge, for the provers.
LEMMA Tabla ==
  /\ \A e \in Estados : TransicionValida(e, "programada") <=>
        e \in {"programada", "sin_pendiente", "aplicada", "fallida"}
  /\ \A e \in Estados : TransicionValida(e, "sin_pendiente") <=> e # "aplicando"
  /\ \A e \in Estados : TransicionValida(e, "descargando") <=>
        e \in {"programada", "descargando"}
  /\ \A e \in Estados : TransicionValida(e, "aplicando") <=>
        e \in {"descargando", "aplicando"}
  /\ \A e \in Estados : TransicionValida(e, "aplicada") <=>
        e \in {"aplicando", "aplicada"}
  /\ \A e \in Estados : TransicionValida(e, "fallida") <=>
        e \in {"programada", "descargando", "aplicando", "fallida"}
  /\ \A e \in Estados : TransicionValida(e, e)
BY DEF Estados, TransicionValida, Transiciones

-----------------------------------------------------------------------------
(* One lemma per handler: the row it leaves.                               *)

LEMMA FilaInicialInv ==
  ASSUME NEW v \in Versiones \cup {Nulo}
  PROVE  FilaInv(FilaInicial(v))
BY Constantes DEF FilaInv, FilaInicial, Fila, Estados, Ventanas

LEMMA RolloutInv ==
  ASSUME NEW f, FilaInv(f), NEW r \in Releases
  PROVE  FilaInv(TrasRollout(f, r))
BY Constantes DEF FilaInv, TrasRollout, Fila, Estados, Ventanas

LEMMA CancelInv ==
  ASSUME NEW f, FilaInv(f)
  PROVE  FilaInv(TrasCancel(f))
BY Constantes DEF FilaInv, TrasCancel, Fila, Estados, Ventanas

LEMMA LatidoInv ==
  ASSUME NEW f, FilaInv(f), NEW v \in Versiones \cup {Nulo}
  PROVE  FilaInv(TrasLatido(f, v))
BY Constantes DEF FilaInv, TrasLatido, Fila, Estados, Ventanas

LEMMA AcuseInv ==
  ASSUME NEW f, FilaInv(f), NEW e \in Reportables, NEW v, AcuseAceptado(f, e, v)
  PROVE  FilaInv(TrasAcuse(f, e))
<1>1. f \in Fila /\ f.objetivo \in Releases /\ f.estado \in Estados
  BY DEF FilaInv, AcuseAceptado, Fila
<1>2. e = "descargando" /\ f.estado # e => f.estado = "programada"
  BY <1>1, Tabla DEF AcuseAceptado
<1>3. e \in {"descargando", "aplicando", "aplicada"} /\ ~(e = "descargando" /\ f.estado # e)
        => f.intentos > 0
  BY <1>1, Tabla DEF AcuseAceptado, FilaInv
<1>4. TrasAcuse(f, e).intentos \in 0..MaxIntentos
  BY <1>1, <1>2, Constantes DEF FilaInv, Fila, TrasAcuse
<1>5. TrasAcuse(f, e) \in Fila
  BY <1>1, <1>4, Constantes DEF Fila, TrasAcuse, Reportables, Estados
<1>6. /\ TrasAcuse(f, e).estado = e
      /\ TrasAcuse(f, e).objetivo = f.objetivo
      /\ TrasAcuse(f, e).ventana = f.ventana
  BY <1>1 DEF TrasAcuse, Fila
<1>7. e \in {"descargando", "aplicando", "aplicada"} => TrasAcuse(f, e).intentos > 0
  BY <1>1, <1>3 DEF TrasAcuse, Fila
<1>8. /\ e = "fallida" => TrasAcuse(f, e).error
      /\ e = "aplicada" => ~TrasAcuse(f, e).error
  BY <1>1 DEF TrasAcuse, Fila
<1> QED
  BY <1>1, <1>5, <1>6, <1>7, <1>8, Constantes DEF FilaInv, Reportables

LEMMA PendienteInv ==
  ASSUME NEW f, FilaInv(f), NEW cat
  PROVE  FilaInv(TrasPendiente(f, cat))
<1>0. f \in Fila /\ f.estado \in Estados
  BY DEF FilaInv, Fila
<1>1. CASE Retirada(f, cat)
  <2>1. TrasPendiente(f, cat) = TrasRetiro(f)
    BY <1>1 DEF TrasPendiente, HayOrden
  <2>2. CASE TransicionValida(f.estado, "sin_pendiente")
    <3>1. TrasRetiro(f) \in Fila
      BY <1>0, <2>2, Constantes DEF TrasRetiro, Fila, Estados, Ventanas
    <3>2. /\ TrasRetiro(f).estado = "sin_pendiente"
          /\ TrasRetiro(f).objetivo = Nulo
          /\ TrasRetiro(f).ventana = "ninguna"
      BY <1>0, <2>2 DEF TrasRetiro, Fila
    <3> QED BY <2>1, <3>1, <3>2 DEF FilaInv
  <2>3. CASE ~TransicionValida(f.estado, "sin_pendiente")
    BY <2>1, <2>3 DEF TrasRetiro
  <2> QED BY <2>2, <2>3
<1>2. CASE ~Retirada(f, cat) /\ f.estado \in EnCurso /\ YaCorre(f)
  <2>1. TrasPendiente(f, cat) = DadaPorAplicada(f)
    BY <1>2 DEF TrasPendiente, HayOrden
  <2> QED BY <2>1, <1>0, <1>2, Tabla
    DEF FilaInv, DadaPorAplicada, Fila, Estados, Ventanas, YaCorre
<1>3. CASE HayOrden(f, cat)
  <2>1. TrasPendiente(f, cat) = Vigente(f)
    BY <1>3 DEF TrasPendiente, HayOrden
  <2> QED BY <2>1, <1>0, <1>3
    DEF FilaInv, Vigente, Fila, Estados, Ventanas, HayOrden, PuedeReintentar
<1>4. CASE ~HayOrden(f, cat) /\ ~Retirada(f, cat) /\ ~(f.estado \in EnCurso /\ YaCorre(f))
  BY <1>4 DEF TrasPendiente
<1> QED BY <1>1, <1>2, <1>3, <1>4

-----------------------------------------------------------------------------
(* The fleet.                                                              *)

\* A step that replaces the row of one gateway keeps the invariant when the
\* new row does.
LEMMA UnaFila ==
  ASSUME NEW I, filas \in [I -> Fila], \A g \in I : FilaInv(filas[g]),
         NEW k \in I, NEW h, FilaInv(h),
         filas' = [filas EXCEPT ![k] = h]
  PROVE  filas' \in [I -> Fila] /\ \A g \in I : FilaInv(filas'[g])
<1>1. h \in Fila
  BY DEF FilaInv
<1>2. filas' \in [I -> Fila]
  BY <1>1
<1>3. \A g \in I : filas'[g] = IF g = k THEN h ELSE filas[g]
  OBVIOUS
<1> QED
  BY <1>2, <1>3

LEMMA InvInicial == Init => Inv
<1> SUFFICES ASSUME Init PROVE Inv
  OBVIOUS
<1>1. \A g \in Gateways : FilaInv(filas[g])
  BY FilaInicialInv DEF Init
<1>2. filas \in [Gateways -> Fila]
  BY <1>1 DEF Init, FilaInv
<1>3. TypeOK
  BY <1>2 DEF Init, TypeOK, Catalogo, Flotas
<1> QED
  BY <1>1, <1>2, <1>3, InvPorFila DEF Inv

\* InvPorFila in the state after a step.
LEMMA InvPorFilaDespues ==
  ASSUME filas' \in [Gateways -> Fila], \A g \in Gateways : FilaInv(filas'[g])
  PROVE  (ObjetivoCoherente /\ PresupuestoRespetado /\ MotivoVeraz)'
BY Constantes
   DEF FilaInv, ObjetivoCoherente, PresupuestoRespetado, MotivoVeraz, Fila,
       PuedeReintentar, Estados

LEMMA InvPaso == Inv /\ [Next]_vars => Inv'
<1> SUFFICES ASSUME Inv, [Next]_vars PROVE Inv'
  OBVIOUS
<1> DEFINE Bien == filas' \in [Gateways -> Fila] /\ \A g \in Gateways : FilaInv(filas'[g])
<1> DEFINE OtrosBien == /\ catalogo \in [Releases -> Catalogo]
                        /\ flota \in Flotas
                        /\ zonas \in [Gateways -> BOOLEAN]
<1>1. filas \in [Gateways -> Fila] /\ \A g \in Gateways : FilaInv(filas[g])
  BY InvPorFila DEF Inv, TypeOK
<1>2. ASSUME NEW r \in Releases, Publish(r) \/ Retire(r)
      PROVE  Bien /\ OtrosBien'
  BY <1>1, <1>2 DEF Publish, Retire, Inv, TypeOK, Catalogo
<1>3. ASSUME NEW r \in Releases, NEW destino \in SUBSET Gateways, Rollout(r, destino)
      PROVE  Bien /\ UNCHANGED <<catalogo, flota, zonas>>
  <2>1. \A g \in Gateways : FilaInv(filas'[g])
    BY <1>1, <1>3, RolloutInv DEF Rollout
  <2>2. \A g \in Gateways : filas'[g] \in Fila
    BY <2>1 DEF FilaInv
  <2> QED
    BY <1>3, <2>1, <2>2 DEF Rollout
<1>4. ASSUME NEW g \in Gateways, Cancel(g)
      PROVE  Bien /\ UNCHANGED <<catalogo, flota, zonas>>
  BY <1>1, <1>4, CancelInv, UnaFila DEF Cancel
<1>5. ASSUME NEW como \in Flotas, Configura(como)
      PROVE  Bien /\ OtrosBien'
  BY <1>1, <1>5 DEF Configura, Inv, TypeOK
<1>5a. ASSUME NEW g \in Gateways, NEW conocida \in BOOLEAN, EditarZona(g, conocida)
       PROVE  Bien /\ OtrosBien'
  BY <1>1, <1>5a DEF EditarZona, Inv, TypeOK
<1>6. ASSUME NEW g \in Gateways, NEW v \in Versiones \cup {Nulo}, EditarVersion(g, v)
      PROVE  Bien /\ UNCHANGED <<catalogo, flota, zonas>>
  <2> DEFINE h == [filas[g] EXCEPT !.version = v]
  <2>1. FilaInv(h)
    BY <1>1 DEF FilaInv, Fila
  <2>2. filas' = [filas EXCEPT ![g] = h]
    BY <1>6 DEF EditarVersion
  <2> QED
    BY <1>1, <1>6, <2>1, <2>2, UnaFila DEF EditarVersion
<1>7. ASSUME NEW g \in Gateways, NEW hay \in BOOLEAN, Credencial(g, hay)
      PROVE  Bien /\ UNCHANGED <<catalogo, flota, zonas>>
  <2> DEFINE h == [filas[g] EXCEPT !.credencial = hay]
  <2>1. FilaInv(h)
    BY <1>1 DEF FilaInv, Fila
  <2>2. filas' = [filas EXCEPT ![g] = h]
    BY <1>7 DEF Credencial
  <2> QED
    BY <1>1, <1>7, <2>1, <2>2, UnaFila DEF Credencial
<1>8. ASSUME NEW g \in Gateways, CambiaVentana(g)
      PROVE  Bien /\ UNCHANGED <<catalogo, flota, zonas>>
  <2> DEFINE h == [filas[g] EXCEPT !.ventana =
                     IF @ = "abierta" THEN "vencida" ELSE "abierta"]
  <2>1. FilaInv(h)
    BY <1>1, <1>8 DEF FilaInv, Fila, Ventanas, CambiaVentana
  <2>2. filas' = [filas EXCEPT ![g] = h]
    BY <1>8 DEF CambiaVentana
  <2> QED
    BY <1>1, <1>8, <2>1, <2>2, UnaFila DEF CambiaVentana
<1>9. ASSUME NEW g \in Gateways, Pendiente(g)
      PROVE  Bien /\ UNCHANGED <<catalogo, flota, zonas>>
  BY <1>1, <1>9, PendienteInv, UnaFila DEF Pendiente
<1>10. ASSUME NEW g \in Gateways, NEW v \in Versiones \cup {Nulo}, Heartbeat(g, v)
       PROVE  Bien /\ UNCHANGED <<catalogo, flota, zonas>>
  <2> DEFINE visto == TrasLatido(filas[g], v)
             h == IF flota = "activa" THEN TrasPendiente(visto, catalogo) ELSE visto
  <2>1. FilaInv(visto)
    BY <1>1, LatidoInv
  <2>2. FilaInv(h)
    BY <2>1, PendienteInv
  <2>3. filas' = [filas EXCEPT ![g] = h]
    BY <1>10 DEF Heartbeat
  <2> HIDE DEF h
  <2> QED
    BY <1>1, <1>10, <2>2, <2>3, UnaFila DEF Heartbeat
<1>11. ASSUME NEW g \in Gateways, NEW e \in Reportables, NEW v \in Versiones, Acuse(g, e, v)
       PROVE  Bien /\ UNCHANGED <<catalogo, flota, zonas>>
  BY <1>1, <1>11, AcuseInv, UnaFila DEF Acuse
<1>12. CASE UNCHANGED vars
  BY <1>12 DEF vars, Inv, TypeOK, ObjetivoCoherente, PresupuestoRespetado,
     MotivoVeraz
<1>13. CASE Next
  <2>1. Bien /\ OtrosBien'
    <3>1. OtrosBien
      BY DEF Inv, TypeOK
    <3> HIDE DEF Bien
    <3>2. CASE Panel
      BY <3>1, <3>2, <1>2, <1>3, <1>4, <1>5, <1>5a, <1>6, <1>7 DEF Panel
    <3>3. CASE Equipo
      BY <3>1, <3>3, <1>8, <1>9, <1>10, <1>11 DEF Equipo
    <3> QED BY <1>13, <3>2, <3>3 DEF Next
  <2> QED BY <2>1, InvPorFilaDespues DEF Inv, TypeOK
<1> QED BY <1>12, <1>13

\* The invariant of the service, for every fleet and catalogue.
THEOREM Invariante == Spec => []Inv
BY InvInicial, InvPaso, PTL DEF Spec

\* Every variable keeps its type, the count of attempts its bounds included.
THEOREM TipoCorrecto == Spec => []TypeOK
<1>1. Inv => TypeOK
  BY DEF Inv
<1> QED BY <1>1, Invariante, PTL

\* Target, window and state come and go together.
THEOREM Coherencia == Spec => []ObjetivoCoherente
<1>1. Inv => ObjetivoCoherente
  BY DEF Inv
<1> QED BY <1>1, Invariante, PTL

\* No gateway is asked for more than MaxIntentos attempts.
THEOREM Presupuesto == Spec => []PresupuestoRespetado
<1>1. Inv => PresupuestoRespetado
  BY DEF Inv
<1> QED BY <1>1, Invariante, PTL

\* A reason is on record exactly when the row calls for one.
THEOREM Motivo == Spec => []MotivoVeraz
<1>1. Inv => MotivoVeraz
  BY DEF Inv
<1> QED BY <1>1, Invariante, PTL

-----------------------------------------------------------------------------
(* What a handler may do to a row: an edge of the table, and at most one   *)
(* step of the abstract promise.                                           *)

Arista(f, h) == TransicionValida(f.estado, h.estado)

Quieta(f, h) ==
  h.objetivo = f.objetivo /\ Etapa(h) = Etapa(f) /\ Restantes(h) = Restantes(f)

Pedida(f, h, r) ==
  Etapa(f) = "reposo" /\ h.objetivo = r /\ Etapa(h) = "reposo"
    /\ Restantes(h) = MaxIntentos

Suelta(f, h) ==
  Etapa(f) # "reinicio" /\ h.objetivo = Nulo /\ Etapa(h) = "reposo"
    /\ Restantes(h) = MaxIntentos

Arranca(f, h) ==
  /\ Etapa(f) = "reposo" /\ f.objetivo # Nulo /\ Restantes(f) > 0
  /\ h.objetivo = f.objetivo /\ Etapa(h) = "descarga"
  /\ Restantes(h) = Restantes(f) - 1

Reinicia(f, h) ==
  /\ Etapa(f) = "descarga" /\ Etapa(h) = "reinicio"
  /\ h.objetivo = f.objetivo /\ Restantes(h) = Restantes(f)

Concluye(f, h) ==
  /\ Etapa(f) \in {"descarga", "reinicio"} /\ Etapa(h) = "reposo"
  /\ h.objetivo = f.objetivo /\ Restantes(h) = Restantes(f)

PasoPromesa(f, h) ==
  \/ Quieta(f, h) \/ Suelta(f, h) \/ Arranca(f, h) \/ Reinicia(f, h)
  \/ Concluye(f, h)

LEMMA EtapaDe ==
  ASSUME NEW f, f \in Fila
  PROVE  /\ Etapa(f) = "descarga" <=> f.estado = "descargando"
         /\ Etapa(f) = "reinicio" <=> f.estado = "aplicando"
         /\ Etapa(f) = "reposo" <=> f.estado \notin {"descargando", "aplicando"}
         /\ Etapa(f) \in {"descarga", "reinicio", "reposo"}
BY DEF Etapa, Fila

LEMMA RolloutPaso ==
  ASSUME NEW f, FilaInv(f), NEW r \in Releases, Desplegable(f, r)
  PROVE  Arista(f, TrasRollout(f, r)) /\ Pedida(f, TrasRollout(f, r), r)
<1>1. f \in Fila /\ f.estado \in Estados /\ TrasRollout(f, r) \in Fila
  BY RolloutInv DEF FilaInv, Fila
<1>2. /\ TrasRollout(f, r).estado = "programada"
      /\ TrasRollout(f, r).objetivo = r
      /\ TrasRollout(f, r).intentos = 0
  BY <1>1 DEF TrasRollout, Fila
<1>3. f.estado \notin {"descargando", "aplicando"}
  BY <1>1, Tabla DEF Desplegable
<1>4. Arista(f, TrasRollout(f, r))
  BY <1>2 DEF Arista, Desplegable
<1> QED
  BY <1>1, <1>2, <1>3, <1>4, EtapaDe, Constantes DEF Pedida, Restantes

LEMMA CancelPaso ==
  ASSUME NEW f, FilaInv(f), Cancelable(f)
  PROVE  Arista(f, TrasCancel(f)) /\ PasoPromesa(f, TrasCancel(f))
<1>1. f \in Fila /\ f.estado \in Estados /\ TrasCancel(f) \in Fila
  BY CancelInv DEF FilaInv, Fila
<1>2. TrasCancel(f).estado = "sin_pendiente" /\ TrasCancel(f).objetivo = Nulo
  BY <1>1 DEF TrasCancel, Fila
<1>3. f.estado # "aplicando"
  BY <1>1, Tabla DEF Cancelable
<1> QED
  BY <1>1, <1>2, <1>3, EtapaDe
     DEF Arista, Cancelable, PasoPromesa, Suelta, Restantes

LEMMA AcusePaso ==
  ASSUME NEW f, FilaInv(f), NEW e \in Reportables, NEW v, AcuseAceptado(f, e, v)
  PROVE  Arista(f, TrasAcuse(f, e)) /\ PasoPromesa(f, TrasAcuse(f, e))
<1> DEFINE h == TrasAcuse(f, e)
<1> SUFFICES Arista(f, h) /\ PasoPromesa(f, h)
  OBVIOUS
<1>1. f \in Fila /\ f.estado \in Estados /\ h \in Fila
  BY AcuseInv DEF FilaInv, Fila
<1>2. /\ h.estado = e
      /\ h.objetivo = f.objetivo
      /\ h.intentos = IF e = "descargando" /\ f.estado # e
                      THEN f.intentos + 1 ELSE f.intentos
  BY <1>1 DEF TrasAcuse, Fila
<1>3. f.intentos \in 0..MaxIntentos /\ h.intentos \in 0..MaxIntentos /\ f.objetivo # Nulo
  BY <1>1 DEF Fila, AcuseAceptado
<1> HIDE DEF h
<1>4. TransicionValida(f.estado, e)
  BY DEF AcuseAceptado
<1>5. Arista(f, h)
  BY <1>2, <1>4 DEF Arista
<1>6. CASE e = "descargando" /\ f.estado # e
  <2>1. f.estado = "programada"
    BY <1>1, <1>4, <1>6, Tabla
  <2>2. f.intentos < MaxIntentos
    BY <2>1 DEF FilaInv
  <2>3. Arranca(f, h)
    BY <1>1, <1>2, <1>3, <1>6, <2>1, <2>2, EtapaDe, Constantes
       DEF Arranca, Restantes
  <2> QED BY <1>5, <2>3 DEF PasoPromesa
<1>7. CASE e = "aplicando" /\ f.estado # e
  <2>1. f.estado = "descargando"
    BY <1>1, <1>4, <1>7, Tabla
  <2> QED
    BY <1>1, <1>2, <1>3, <1>5, <1>7, <2>1, EtapaDe
       DEF PasoPromesa, Reinicia, Restantes
<1>8. CASE e \in {"aplicada", "fallida"} \/ f.estado = e
  <2>1. h.intentos = f.intentos
    BY <1>2, <1>8
  <2>2. Restantes(h) = Restantes(f)
    BY <1>2, <2>1 DEF Restantes
  <2>3. Quieta(f, h) \/ Concluye(f, h)
    BY <1>1, <1>2, <1>8, <2>2, EtapaDe DEF Quieta, Concluye
  <2> QED BY <1>5, <2>3 DEF PasoPromesa
<1> QED
  BY <1>6, <1>7, <1>8 DEF Reportables

LEMMA PendientePaso ==
  ASSUME NEW f, FilaInv(f), NEW cat
  PROVE  Arista(f, TrasPendiente(f, cat)) /\ PasoPromesa(f, TrasPendiente(f, cat))
<1> DEFINE h == TrasPendiente(f, cat)
<1> SUFFICES Arista(f, h) /\ PasoPromesa(f, h)
  OBVIOUS
<1>1. f \in Fila /\ f.estado \in Estados /\ h \in Fila
  BY PendienteInv DEF FilaInv, Fila
<1>2. h = f => Arista(f, h) /\ PasoPromesa(f, h)
  BY DEF Arista, TransicionValida, PasoPromesa, Quieta
<1>3. CASE Retirada(f, cat)
  <2>1. h = TrasRetiro(f)
    BY <1>3 DEF TrasPendiente, HayOrden
  <2>2. CASE TransicionValida(f.estado, "sin_pendiente")
    <3>1. h.estado = "sin_pendiente" /\ h.objetivo = Nulo
      BY <1>1, <2>1, <2>2 DEF TrasRetiro, Fila
    <3>2. f.estado # "aplicando"
      BY <1>1, <2>2, Tabla
    <3> HIDE DEF h
    <3> QED
      BY <1>1, <2>2, <3>1, <3>2, EtapaDe
         DEF Arista, PasoPromesa, Suelta, Restantes
  <2> QED BY <1>2, <2>1, <2>2 DEF TrasRetiro
<1>4. CASE ~Retirada(f, cat) /\ f.estado \in EnCurso /\ YaCorre(f)
  <2>1. h = DadaPorAplicada(f)
    BY <1>4 DEF TrasPendiente, HayOrden
  <2>2. CASE TransicionValida(f.estado, "aplicada")
    <3>1. /\ h.estado = "aplicada" /\ h.objetivo = f.objetivo
          /\ h.intentos = f.intentos
      BY <1>1, <2>1, <2>2 DEF DadaPorAplicada, Fila
    <3>2. f.estado = "aplicando"
      BY <1>1, <1>4, <2>2, Tabla DEF EnCurso
    <3> HIDE DEF h
    <3> QED
      BY <1>1, <2>2, <3>1, <3>2, EtapaDe
         DEF Arista, PasoPromesa, Concluye, Restantes
  <2> QED BY <1>2, <2>1, <2>2 DEF DadaPorAplicada
<1>5. CASE HayOrden(f, cat)
  <2>1. h = Vigente(f)
    BY <1>5 DEF TrasPendiente, HayOrden
  <2>2. /\ h.estado = IF f.estado = "fallida" THEN "programada" ELSE f.estado
        /\ h.objetivo = f.objetivo /\ h.intentos = f.intentos
    BY <1>1, <2>1 DEF Vigente, Fila
  <2>3. Arista(f, h)
    BY <1>1, <2>2, Tabla DEF Arista
  <2> HIDE DEF h
  <2> QED
    BY <1>1, <2>2, <2>3, EtapaDe DEF PasoPromesa, Quieta, Restantes
<1>6. CASE ~HayOrden(f, cat) /\ ~Retirada(f, cat) /\ ~(f.estado \in EnCurso /\ YaCorre(f))
  BY <1>2, <1>6 DEF TrasPendiente
<1> QED BY <1>3, <1>4, <1>5, <1>6

\* Every step of the service either asks a set of gateways for a release on
\* offer, or changes at most the row of one gateway, by at most one step of
\* the promise and without giving it a new target.
LEMMA CadaPaso ==
  ASSUME Inv, [Next]_vars
  PROVE  \/ \E r \in Releases, D \in SUBSET Gateways :
              /\ catalogo[r] = "disponible"
              /\ \A g \in D : /\ Desplegable(filas[g], r)
                               /\ Arista(filas[g], filas'[g])
                               /\ Pedida(filas[g], filas'[g], r)
              /\ \A g \in Gateways \ D : filas'[g] = filas[g]
         \/ \E k \in Gateways :
              /\ Arista(filas[k], filas'[k]) /\ PasoPromesa(filas[k], filas'[k])
              /\ \A g \in Gateways \ {k} : filas'[g] = filas[g]
         \/ \A g \in Gateways : filas'[g] = filas[g]
<1> DEFINE Una == \E k \in Gateways :
              /\ Arista(filas[k], filas'[k]) /\ PasoPromesa(filas[k], filas'[k])
              /\ \A g \in Gateways \ {k} : filas'[g] = filas[g]
<1>1. filas \in [Gateways -> Fila] /\ \A g \in Gateways : FilaInv(filas[g])
  BY InvPorFila DEF Inv, TypeOK
<1>2. ASSUME NEW k \in Gateways, NEW h, filas' = [filas EXCEPT ![k] = h],
             Arista(filas[k], h), PasoPromesa(filas[k], h)
      PROVE  Una
  <2>1. filas'[k] = h /\ \A g \in Gateways \ {k} : filas'[g] = filas[g]
    BY <1>1, <1>2
  <2> QED BY <1>2, <2>1
\* A column the promise does not read leaves the row still.
<1>3. ASSUME NEW f \in Fila, NEW h, h.estado = f.estado,
             h.objetivo = f.objetivo, h.intentos = f.intentos
      PROVE  Arista(f, h) /\ PasoPromesa(f, h)
  BY <1>3 DEF Arista, TransicionValida, PasoPromesa, Quieta, Etapa, Restantes
<1>4. ASSUME NEW r \in Releases, NEW destino \in SUBSET Gateways, Rollout(r, destino)
      PROVE  \E D \in SUBSET Gateways :
               /\ catalogo[r] = "disponible"
               /\ \A g \in D : /\ Desplegable(filas[g], r)
                                /\ Arista(filas[g], filas'[g])
                                /\ Pedida(filas[g], filas'[g], r)
               /\ \A g \in Gateways \ D : filas'[g] = filas[g]
  <2> DEFINE D == {g \in destino : Desplegable(filas[g], r)}
  <2>1. \A g \in D : filas'[g] = TrasRollout(filas[g], r)
    BY <1>4 DEF Rollout
  <2>2. \A g \in D : /\ Desplegable(filas[g], r)
                     /\ Arista(filas[g], filas'[g])
                     /\ Pedida(filas[g], filas'[g], r)
    BY <1>1, <2>1, RolloutPaso
  <2>3. \A g \in Gateways \ D : filas'[g] = filas[g]
    BY <1>4 DEF Rollout
  <2>4. catalogo[r] = "disponible"
    BY <1>4 DEF Rollout
  <2> QED BY <2>2, <2>3, <2>4
<1>5. ASSUME NEW g \in Gateways, Cancel(g) PROVE Una
  BY <1>1, <1>2, <1>5, CancelPaso DEF Cancel
<1>6. ASSUME NEW g \in Gateways, NEW v \in Versiones \cup {Nulo}, EditarVersion(g, v)
      PROVE  Una
  <2> DEFINE h == [filas[g] EXCEPT !.version = v]
  <2>1. filas' = [filas EXCEPT ![g] = h]
    BY <1>6 DEF EditarVersion
  <2>2. h.estado = filas[g].estado /\ h.objetivo = filas[g].objetivo
          /\ h.intentos = filas[g].intentos
    BY <1>1 DEF Fila
  <2> HIDE DEF h
  <2> QED BY <1>1, <1>2, <1>3, <2>1, <2>2
<1>7. ASSUME NEW g \in Gateways, NEW hay \in BOOLEAN, Credencial(g, hay)
      PROVE  Una
  <2> DEFINE h == [filas[g] EXCEPT !.credencial = hay]
  <2>1. filas' = [filas EXCEPT ![g] = h]
    BY <1>7 DEF Credencial
  <2>2. h.estado = filas[g].estado /\ h.objetivo = filas[g].objetivo
          /\ h.intentos = filas[g].intentos
    BY <1>1 DEF Fila
  <2> HIDE DEF h
  <2> QED BY <1>1, <1>2, <1>3, <2>1, <2>2
<1>8. ASSUME NEW g \in Gateways, CambiaVentana(g) PROVE Una
  <2> DEFINE h == [filas[g] EXCEPT !.ventana =
                     IF @ = "abierta" THEN "vencida" ELSE "abierta"]
  <2>1. filas' = [filas EXCEPT ![g] = h]
    BY <1>8 DEF CambiaVentana
  <2>2. h.estado = filas[g].estado /\ h.objetivo = filas[g].objetivo
          /\ h.intentos = filas[g].intentos
    BY <1>1 DEF Fila
  <2> HIDE DEF h
  <2> QED BY <1>1, <1>2, <1>3, <2>1, <2>2
<1>9. ASSUME NEW g \in Gateways, Pendiente(g) PROVE Una
  BY <1>1, <1>2, <1>9, PendientePaso DEF Pendiente
<1>10. ASSUME NEW g \in Gateways, NEW v \in Versiones \cup {Nulo}, Heartbeat(g, v)
       PROVE  Una
  <2> DEFINE visto == TrasLatido(filas[g], v)
             h == IF flota = "activa" THEN TrasPendiente(visto, catalogo) ELSE visto
  <2>1. FilaInv(visto)
    BY <1>1, LatidoInv
  <2>2. visto.estado = filas[g].estado /\ visto.objetivo = filas[g].objetivo
          /\ visto.intentos = filas[g].intentos
    BY <1>1 DEF Fila, TrasLatido
  <2>3. filas' = [filas EXCEPT ![g] = h]
    BY <1>10 DEF Heartbeat
  <2> HIDE DEF visto
  <2>4. Arista(visto, h) /\ PasoPromesa(visto, h)
    <3>1. CASE flota = "activa"
      BY <2>1, <3>1, PendientePaso
    <3>2. CASE flota # "activa"
      BY <3>2 DEF Arista, TransicionValida, PasoPromesa, Quieta
    <3> QED BY <3>1, <3>2
  <2> HIDE DEF h
  <2>5. Arista(filas[g], h) /\ PasoPromesa(filas[g], h)
    BY <2>2, <2>4
       DEF Arista, PasoPromesa, Quieta, Suelta, Arranca, Reinicia, Concluye,
           Etapa, Restantes
  <2> QED BY <1>2, <2>3, <2>5
<1>11. ASSUME NEW g \in Gateways, NEW e \in Reportables, NEW v \in Versiones, Acuse(g, e, v)
       PROVE  Una
  BY <1>1, <1>2, <1>11, AcusePaso DEF Acuse
<1>12. ASSUME \/ \E r \in Releases : Publish(r) \/ Retire(r)
              \/ \E como \in Flotas : Configura(como)
              \/ \E g \in Gateways, conocida \in BOOLEAN : EditarZona(g, conocida)
              \/ UNCHANGED vars
       PROVE  \A g \in Gateways : filas'[g] = filas[g]
  BY <1>12 DEF Publish, Retire, Configura, EditarZona, vars
<1> HIDE DEF Una
<1>13. CASE Panel
  BY <1>13, <1>4, <1>5, <1>6, <1>7, <1>12 DEF Panel, Una
<1>14. CASE Equipo
  BY <1>14, <1>8, <1>9, <1>10, <1>11 DEF Equipo, Una
<1> QED BY <1>12, <1>13, <1>14 DEF Next

\* Only declared transitions, by any handler.
THEOREM Transiciones_declaradas == Spec => SoloTransicionesDeclaradas
<1>1. Inv /\ [Next]_vars =>
        [\A g \in Gateways : TransicionValida(filas[g].estado, filas'[g].estado)]_vars
  BY CadaPaso DEF Arista, TransicionValida
<1> QED
  BY <1>1, Invariante, PTL DEF Spec, SoloTransicionesDeclaradas

\* A gateway is newly pointed only at a release on offer that it can download
\* and does not run.
THEOREM Pedidos_instalables == Spec => PedidoInstalable
<1> DEFINE A == \A g \in Gateways :
       filas'[g].objetivo \notin {filas[g].objetivo, Nulo} =>
         /\ catalogo[filas'[g].objetivo] = "disponible"
         /\ filas[g].credencial
         /\ filas[g].version # VersionDe[filas'[g].objetivo]
<1>1. Inv /\ [Next]_vars => [A]_vars
  BY CadaPaso
     DEF Pedida, Desplegable, PasoPromesa, Quieta, Suelta, Arranca, Reinicia,
         Concluye
<1> QED
  BY <1>1, Invariante, PTL DEF Spec, PedidoInstalable

-----------------------------------------------------------------------------
(* The service implements the abstract promise.                            *)

paqueteB   == [g \in Gateways |-> filas[g].objetivo]
etapaB     == [g \in Gateways |-> Etapa(filas[g])]
restantesB == [g \in Gateways |-> Restantes(filas[g])]

LEMMA PromesaInicial == Init => Promesa!Init
<1> SUFFICES ASSUME Init PROVE Promesa!Init
  OBVIOUS
<1>1. ASSUME NEW g \in Gateways
      PROVE  filas[g].objetivo = Nulo /\ filas[g].estado = "sin_pendiente"
  BY DEF Init, FilaInicial
<1>2. ASSUME NEW g \in Gateways
      PROVE  Etapa(filas[g]) = "reposo" /\ Restantes(filas[g]) = MaxIntentos
  BY <1>1 DEF Etapa, Restantes
<1> QED
  BY <1>1, <1>2 DEF Promesa!Init

LEMMA PromesaPaso == Inv /\ [Next]_vars => [Promesa!Next]_(Promesa!vars)
<1> SUFFICES ASSUME Inv, [Next]_vars PROVE [Promesa!Next]_(Promesa!vars)
  OBVIOUS
<1>1. CASE \A g \in Gateways : filas'[g] = filas[g]
  BY <1>1 DEF Promesa!vars
<1>2. ASSUME NEW r \in Releases, NEW D \in SUBSET Gateways,
             \A g \in D : Pedida(filas[g], filas'[g], r),
             \A g \in Gateways \ D : filas'[g] = filas[g]
      PROVE  Promesa!Pedir(D, r)
  <2>1. \A g \in D : etapaB[g] = "reposo"
    BY <1>2 DEF etapaB, Pedida
  <2>2. paqueteB' = [g \in Gateways |-> IF g \in D THEN r ELSE paqueteB[g]]
    BY <1>2 DEF paqueteB, Pedida
  <2>3. restantesB' = [g \in Gateways |-> IF g \in D THEN MaxIntentos ELSE restantesB[g]]
    BY <1>2 DEF restantesB, Pedida
  <2>4. etapaB' = etapaB
    BY <1>2 DEF etapaB, Pedida
  <2> QED
    BY <2>1, <2>2, <2>3, <2>4
       DEF Promesa!Pedir, paqueteB, etapaB, restantesB
<1>3. ASSUME NEW k \in Gateways, PasoPromesa(filas[k], filas'[k]),
             \A g \in Gateways \ {k} : filas'[g] = filas[g]
      PROVE  [Promesa!Next]_(Promesa!vars)
  <2> DEFINE f == filas[k]
             h == filas'[k]
  <2>1. /\ paqueteB' = [paqueteB EXCEPT ![k] = h.objetivo]
        /\ etapaB' = [etapaB EXCEPT ![k] = Etapa(h)]
        /\ restantesB' = [restantesB EXCEPT ![k] = Restantes(h)]
    BY <1>3 DEF paqueteB, etapaB, restantesB
  <2>2. /\ paqueteB[k] = f.objetivo /\ etapaB[k] = Etapa(f)
        /\ restantesB[k] = Restantes(f)
    BY DEF paqueteB, etapaB, restantesB
  <2>3. /\ paqueteB = [paqueteB EXCEPT ![k] = f.objetivo]
        /\ etapaB = [etapaB EXCEPT ![k] = Etapa(f)]
        /\ restantesB = [restantesB EXCEPT ![k] = Restantes(f)]
    BY DEF paqueteB, etapaB, restantesB
  <2> HIDE DEF f, h
  <2>4. CASE Quieta(f, h)
    <3>1. paqueteB' = paqueteB /\ etapaB' = etapaB /\ restantesB' = restantesB
      BY <2>1, <2>3, <2>4 DEF Quieta
    <3> QED BY <3>1 DEF Promesa!vars, paqueteB, etapaB, restantesB
  <2>5. CASE Suelta(f, h)
    <3>1. Promesa!Soltar(k)
      BY <2>1, <2>2, <2>5
         DEF Promesa!Soltar, Suelta, paqueteB, etapaB, restantesB
    <3> QED BY <3>1 DEF Promesa!Next
  <2>6. CASE Arranca(f, h)
    <3>1. paqueteB' = paqueteB
      BY <2>1, <2>3, <2>6 DEF Arranca
    <3>2. Promesa!Descargar(k)
      BY <2>1, <2>2, <2>6, <3>1
         DEF Promesa!Descargar, Arranca, paqueteB, etapaB, restantesB
    <3> QED BY <3>2 DEF Promesa!Next
  <2>7. CASE Reinicia(f, h)
    <3>1. paqueteB' = paqueteB /\ restantesB' = restantesB
      BY <2>1, <2>3, <2>7 DEF Reinicia
    <3>2. Promesa!Reiniciar(k)
      BY <2>1, <2>2, <2>7, <3>1
         DEF Promesa!Reiniciar, Reinicia, paqueteB, etapaB, restantesB
    <3> QED BY <3>2 DEF Promesa!Next
  <2>8. CASE Concluye(f, h)
    <3>1. paqueteB' = paqueteB /\ restantesB' = restantesB
      BY <2>1, <2>3, <2>8 DEF Concluye
    <3>2. Promesa!Concluir(k)
      BY <2>1, <2>2, <2>8, <3>1
         DEF Promesa!Concluir, Concluye, paqueteB, etapaB, restantesB
    <3> QED BY <3>2 DEF Promesa!Next
  <2> QED BY <1>3, <2>4, <2>5, <2>6, <2>7, <2>8 DEF PasoPromesa, f, h
<1> QED BY <1>1, <1>2, <1>3, CadaPaso DEF Promesa!Next

\* The detailed service implements the promise: at most MaxIntentos downloads
\* per order, no swap under a download, no cancellation under a restart.
THEOREM Implementa == Spec => CumplePromesa
BY PromesaInicial, PromesaPaso, Invariante, PTL DEF Spec, CumplePromesa, Promesa!Spec

-----------------------------------------------------------------------------
(* The devices and the network.                                            *)

\* A row that says nothing of its device that was never so; C is what it ran.
Veraz(f, C) ==
  /\ f.version \in C \cup {Nulo}
  /\ f.estado = "aplicada" => VersionDe[f.objetivo] \in C

Aparato == [corre : Versiones, orden : Releases \cup {Nulo}, paso : Pasos,
            contestado : BOOLEAN]

\* A device that reports a step has an order, and runs it once it says so.
EquipoInv(e, C) ==
  /\ e \in Aparato
  /\ e.corre \in C
  /\ e.paso # "espera" => e.orden # Nulo
  /\ e.paso = "espera" => e.contestado
  /\ e.paso = "aplicada" => VersionDe[e.orden] \in C

\* What is in the network about one device.
RedInv(m, C) ==
  /\ m \subseteq Reportables \X Versiones
  /\ IsFiniteSet(m) /\ Cardinality(m) <= MaxEnVuelo
  /\ \A v \in Versiones : <<"aplicada", v>> \in m => v \in C

FilasVeraces == \A g \in Gateways : Veraz(filas[g], corridas[g])

EquiposBien ==
  /\ equipos \in [Gateways -> Aparato]
  /\ corridas \in [Gateways -> SUBSET Versiones]
  /\ \A g \in Gateways : EquipoInv(equipos[g], corridas[g])

RedBien ==
  /\ enVuelo \in [Gateways -> SUBSET (Reportables \X Versiones)]
  /\ \A g \in Gateways : RedInv(enVuelo[g], corridas[g])

\* The inductive invariant.
InvE == Inv /\ FilasVeraces /\ EquiposBien /\ RedBien

-----------------------------------------------------------------------------
(* One lemma per handler: the row it leaves says nothing untrue.           *)

LEMMA RolloutVeraz ==
  ASSUME NEW f \in Fila, NEW C, Veraz(f, C), NEW r \in Releases
  PROVE  Veraz(TrasRollout(f, r), C)
BY DEF Veraz, TrasRollout, Fila

LEMMA CancelVeraz ==
  ASSUME NEW f \in Fila, NEW C, Veraz(f, C)
  PROVE  Veraz(TrasCancel(f), C)
BY DEF Veraz, TrasCancel, Fila

LEMMA LatidoVeraz ==
  ASSUME NEW f \in Fila, NEW C, Veraz(f, C), NEW v \in C \cup {Nulo}
  PROVE  Veraz(TrasLatido(f, v), C)
BY DEF Veraz, TrasLatido, Fila

\* Only an acknowledgement of "aplicada" needs the device to have run it.
LEMMA AcuseVeraz ==
  ASSUME NEW f \in Fila, NEW C, Veraz(f, C),
         NEW e \in Reportables, NEW v \in Versiones, AcuseAceptado(f, e, v),
         e = "aplicada" => v \in C
  PROVE  Veraz(TrasAcuse(f, e), C)
BY DEF Veraz, TrasAcuse, AcuseAceptado, Fila, Reportables

\* A poll closes an order on the version on record, which the device ran.
LEMMA PendienteVeraz ==
  ASSUME NEW f \in Fila, NEW C, Veraz(f, C), NEW cat
  PROVE  Veraz(TrasPendiente(f, cat), C)
<1>1. Veraz(TrasRetiro(f), C)
  BY DEF Veraz, TrasRetiro, Fila
<1>2. YaCorre(f) => Veraz(DadaPorAplicada(f), C)
  BY Constantes, ReglasAssumption DEF Veraz, DadaPorAplicada, YaCorre, Fila
<1>3. Veraz(Vigente(f), C)
  BY DEF Veraz, Vigente, Fila
<1> QED BY <1>1, <1>2, <1>3 DEF TrasPendiente

\* The versions a device ran are never forgotten.
LEMMA VerazCrece ==
  ASSUME NEW f, NEW C, NEW D, C \subseteq D, Veraz(f, C)
  PROVE  Veraz(f, D)
BY DEF Veraz

LEMMA UnaVeraz ==
  ASSUME InvE, NEW g \in Gateways, NEW h, Veraz(h, corridas[g]),
         filas' = [filas EXCEPT ![g] = h], corridas' = corridas
  PROVE  FilasVeraces'
BY DEF InvE, Inv, TypeOK, FilasVeraces

\* A step of the device that leaves the rows, the network and the count alone.
LEMMA UnEquipo ==
  ASSUME InvE, NEW g \in Gateways, NEW d, NEW C \in SUBSET Versiones,
         corridas[g] \subseteq C, EquipoInv(d, C),
         equipos' = [equipos EXCEPT ![g] = d],
         corridas' = [corridas EXCEPT ![g] = C],
         UNCHANGED <<vars, enVuelo>>
  PROVE  FilasVeraces' /\ EquiposBien' /\ RedBien'
<1>1. \A k \in Gateways : corridas[k] \subseteq corridas'[k]
  BY DEF InvE, EquiposBien
<1>2. FilasVeraces'
  BY <1>1, VerazCrece DEF InvE, FilasVeraces, vars
<1>3. RedBien'
  BY <1>1 DEF InvE, RedBien, RedInv
<1>4. d \in Aparato
  BY DEF EquipoInv
<1>5. equipos' \in [Gateways -> Aparato] /\ corridas' \in [Gateways -> SUBSET Versiones]
  BY <1>4 DEF InvE, EquiposBien
<1>6. \A k \in Gateways : EquipoInv(equipos'[k], corridas'[k])
  BY DEF InvE, EquiposBien
<1> QED BY <1>2, <1>3, <1>5, <1>6 DEF EquiposBien

\* A device that drops what it was doing, or has fetched an order.
LEMMA EnEsperaInv ==
  ASSUME NEW e, NEW C, EquipoInv(e, C)
  PROVE  EquipoInv(EnEspera(e.corre), C)
BY DEF EquipoInv, EnEspera, Aparato, Pasos

LEMMA DaInv ==
  ASSUME InvE, NEW g \in Gateways, NEW paso \in Reportables, Da(g, paso),
         equipos[g].orden # Nulo
  PROVE  FilasVeraces' /\ EquiposBien' /\ RedBien'
<1> DEFINE e == equipos[g]
           d == [e EXCEPT !.paso = paso, !.contestado = FALSE,
                          !.corre = IF paso = "aplicada"
                                    THEN VersionDe[e.orden] ELSE @]
           C == corridas[g] \cup {d.corre}
<1>1. e \in Aparato /\ EquipoInv(e, corridas[g]) /\ corridas[g] \subseteq Versiones
  BY DEF InvE, EquiposBien
<1>2. d \in Aparato
  BY <1>1, Constantes DEF Aparato, Pasos
<1>3. EquipoInv(d, C) /\ C \in SUBSET Versiones
  BY <1>1, <1>2 DEF EquipoInv, Aparato, Reportables
<1>4. equipos' = [equipos EXCEPT ![g] = d]
  BY DEF Da, InvE, EquiposBien
<1>5. corridas' = [corridas EXCEPT ![g] = C]
  BY <1>4 DEF Da, InvE, EquiposBien
<1>6. UNCHANGED <<vars, enVuelo>>
  BY DEF Da
<1> HIDE DEF d, C
<1>7. corridas[g] \subseteq C
  BY DEF C
<1> QED BY <1>3, <1>4, <1>5, <1>6, <1>7, UnEquipo

\* Anything else leaves the versions a device has run as they are.
LEMMA OtroEquipo ==
  ASSUME InvE, NEW g \in Gateways, NEW d, EquipoInv(d, corridas[g]),
         equipos' = [equipos EXCEPT ![g] = d], corridas' = corridas
  PROVE  EquiposBien'
<1>1. d \in Aparato
  BY DEF EquipoInv
<1> QED BY <1>1 DEF InvE, EquiposBien

LEMMA RedQuieta ==
  ASSUME InvE, UNCHANGED <<enVuelo, corridas>>
  PROVE  RedBien'
BY DEF InvE, RedBien, RedInv

LEMMA EquiposQuietos ==
  ASSUME InvE, UNCHANGED <<equipos, corridas>>
  PROVE  EquiposBien'
BY DEF InvE, EquiposBien

LEMMA FilasQuietas ==
  ASSUME InvE, UNCHANGED <<vars, corridas>>
  PROVE  FilasVeraces'
BY DEF InvE, FilasVeraces, vars

-----------------------------------------------------------------------------
(* The rows under each action of the service.                              *)

LEMMA FilasTrasRollout ==
  ASSUME InvE, NEW r \in Releases, NEW destino \in SUBSET Gateways,
         Rollout(r, destino), corridas' = corridas
  PROVE  FilasVeraces'
<1>1. ASSUME NEW g \in Gateways
      PROVE  Veraz(filas'[g], corridas[g])
  <2>1. filas[g] \in Fila /\ Veraz(filas[g], corridas[g])
    BY DEF InvE, Inv, TypeOK, FilasVeraces
  <2> QED BY <2>1, RolloutVeraz DEF Rollout
<1> QED BY <1>1 DEF FilasVeraces

LEMMA FilasTrasUna ==
  ASSUME InvE, NEW g \in Gateways, corridas' = corridas,
         \/ Cancel(g) \/ Pendiente(g) \/ CambiaVentana(g) \/ Credencial(g, TRUE)
         \/ \E v \in corridas[g] : Heartbeat(g, v) \/ EditarVersion(g, v)
         \/ \E e \in Reportables, v \in Versiones :
              Acuse(g, e, v) /\ (e = "aplicada" => v \in corridas[g])
  PROVE  FilasVeraces'
<1> DEFINE f == filas[g]
           C == corridas[g]
<1>1. f \in Fila /\ Veraz(f, C)
  BY DEF InvE, Inv, TypeOK, FilasVeraces
<1>2. SUFFICES \E h : Veraz(h, C) /\ filas' = [filas EXCEPT ![g] = h]
  BY UnaVeraz
<1>3. CASE Cancel(g)
  BY <1>1, <1>3, CancelVeraz DEF Cancel
<1>4. CASE Pendiente(g)
  BY <1>1, <1>4, PendienteVeraz DEF Pendiente
<1>5. CASE CambiaVentana(g)
  <2> DEFINE h == [f EXCEPT !.ventana = IF @ = "abierta" THEN "vencida" ELSE "abierta"]
  <2>1. Veraz(h, C)
    BY <1>1 DEF Veraz, Fila
  <2>2. filas' = [filas EXCEPT ![g] = h]
    BY <1>5 DEF CambiaVentana
  <2> QED BY <2>1, <2>2
<1>6. CASE Credencial(g, TRUE)
  <2> DEFINE h == [f EXCEPT !.credencial = TRUE]
  <2>1. Veraz(h, C)
    BY <1>1 DEF Veraz, Fila
  <2>2. filas' = [filas EXCEPT ![g] = h]
    BY <1>6 DEF Credencial
  <2> QED BY <2>1, <2>2
<1>7. ASSUME NEW v \in C, EditarVersion(g, v)
      PROVE  \E h : Veraz(h, C) /\ filas' = [filas EXCEPT ![g] = h]
  <2> DEFINE h == [f EXCEPT !.version = v]
  <2>1. Veraz(h, C)
    BY <1>1 DEF Veraz, Fila
  <2>2. filas' = [filas EXCEPT ![g] = h]
    BY <1>7 DEF EditarVersion
  <2> QED BY <2>1, <2>2
<1>8. ASSUME NEW v \in C, Heartbeat(g, v)
      PROVE  \E h : Veraz(h, C) /\ filas' = [filas EXCEPT ![g] = h]
  <2> DEFINE visto == TrasLatido(f, v)
             h == IF flota = "activa" THEN TrasPendiente(visto, catalogo) ELSE visto
  <2>1. Veraz(visto, C)
    BY <1>1, LatidoVeraz
  <2>2. v \in Versiones
    BY DEF InvE, EquiposBien
  <2>3. visto \in Fila
    BY <1>1, <2>2 DEF TrasLatido, Fila
  <2>4. filas' = [filas EXCEPT ![g] = h]
    BY <1>8 DEF Heartbeat
  <2> HIDE DEF visto
  <2>5. Veraz(h, C)
    BY <2>1, <2>3, PendienteVeraz
  <2> QED BY <2>4, <2>5
<1>9. ASSUME NEW e \in Reportables, NEW v \in Versiones, Acuse(g, e, v),
             e = "aplicada" => v \in C
      PROVE  \E h : Veraz(h, C) /\ filas' = [filas EXCEPT ![g] = h]
  <2>1. AcuseAceptado(f, e, v) /\ filas' = [filas EXCEPT ![g] = TrasAcuse(f, e)]
    BY <1>9 DEF Acuse
  <2>2. Veraz(TrasAcuse(f, e), C)
    BY <1>1, <1>9, <2>1, AcuseVeraz
  <2> QED BY <2>1, <2>2
<1> QED BY <1>3, <1>4, <1>5, <1>6, <1>7, <1>8, <1>9

-----------------------------------------------------------------------------
(* The composed system.                                                    *)

LEMMA InvInicialE == InitE => InvE
<1> SUFFICES ASSUME InitE PROVE InvE
  OBVIOUS
<1>1. Inv
  BY InvInicial DEF InitE
<1>2. ASSUME NEW g \in Gateways
      PROVE  Veraz(filas[g], corridas[g])
  BY DEF InitE, Init, Veraz, FilaInicial
<1>3. PICK corren \in [Gateways -> Versiones] :
        equipos = [g \in Gateways |-> EnEspera(corren[g])]
  <2>1. \A g \in Gateways : equipos[g] = EnEspera(equipos[g].corre)
                              /\ equipos[g].corre \in Versiones
    BY DEF InitE, EnEspera
  <2>2. equipos = [g \in Gateways |-> EnEspera(equipos[g].corre)]
    BY <2>1 DEF InitE
  <2>3. [g \in Gateways |-> equipos[g].corre] \in [Gateways -> Versiones]
    BY <2>1
  <2> QED BY <2>2, <2>3
<1>4. \A g \in Gateways : equipos[g] \in Aparato /\ equipos[g].corre = corren[g]
                            /\ equipos[g].paso = "espera" /\ equipos[g].contestado
  BY <1>3 DEF EnEspera, Aparato, Pasos
<1>5. EquiposBien
  BY <1>3, <1>4 DEF InitE, EquiposBien, EquipoInv
<1>6. RedBien
  BY FS_EmptySet, CotasAssumption DEF InitE, RedBien, RedInv
<1> QED BY <1>1, <1>2, <1>5, <1>6 DEF InvE, FilasVeraces

\* Every step of the composed system is one of the service, or of nobody there.
LEMMA Proyeccion == InvE /\ [NextE]_varsE => [Next]_vars
<1> SUFFICES ASSUME InvE, NextE PROVE [Next]_vars
  BY DEF varsE
<1>1. CASE Administra
  <2> ("apagada" \in Flotas) /\ ("activa" \in Flotas) /\ (TRUE \in BOOLEAN)
    BY DEF Flotas
  <2> QED BY <1>1 DEF Administra, Next, Panel
<1>2. CASE \E r \in Releases, destino \in SUBSET Gateways : Despliega(r, destino)
  BY <1>2 DEF Despliega, Next, Panel
<1>3. ASSUME NEW g \in Gateways, NEW llega \in BOOLEAN, Consulta(g, llega)
      PROVE  Next
  BY <1>3 DEF Consulta, Next, Equipo
<1>4. ASSUME NEW g \in Gateways, PasaVentana(g)
      PROVE  Next
  BY <1>4 DEF PasaVentana, Next, Equipo
<1>5. ASSUME NEW g \in Gateways,
             Empieza(g) \/ Sigue(g) \/ Termina(g) \/ Apagon(g) \/ Envia(g)
      PROVE  UNCHANGED vars
  BY <1>5 DEF Empieza, Sigue, Termina, Apagon, Envia, Da
<1>6. ASSUME NEW g \in Gateways, Late(g)
      PROVE  Next
  <2>1. equipos[g].corre \in Versiones
    BY DEF InvE, EquiposBien, EquipoInv, Aparato
  <2> QED BY <1>6, <2>1 DEF Late, Next, Equipo
<1>7. ASSUME NEW g \in Gateways, NEW v \in corridas[g], Presencia(g, v)
      PROVE  Next
  <2>1. v \in Versiones
    BY DEF InvE, EquiposBien
  <2> QED BY <1>7, <2>1 DEF Presencia, Next, Panel
<1>8. ASSUME NEW g \in Gateways, NEW m \in enVuelo[g], NEW copia \in BOOLEAN,
             NEW contesta \in BOOLEAN, Llega(g, m, copia, contesta)
      PROVE  [Next]_vars
  <2>1. m[1] \in Reportables /\ m[2] \in Versiones
    BY DEF InvE, RedBien
  <2>2. Acuse(g, m[1], m[2]) \/ UNCHANGED vars
    BY <1>8 DEF Llega
  <2> QED BY <2>1, <2>2 DEF Next, Equipo
<1> QED BY <1>1, <1>2, <1>3, <1>4, <1>5, <1>6, <1>7, <1>8 DEF NextE

LEMMA InvPasoE == InvE /\ [NextE]_varsE => InvE'
<1> SUFFICES ASSUME InvE, [NextE]_varsE PROVE InvE'
  OBVIOUS
<1>1. Inv'
  BY Proyeccion, InvPaso DEF InvE
<1> SUFFICES FilasVeraces' /\ EquiposBien' /\ RedBien'
  BY <1>1 DEF InvE
<1>2. CASE UNCHANGED varsE
  BY <1>2, FilasQuietas, EquiposQuietos, RedQuieta DEF varsE, ambiente
<1>3. CASE Administra
  <2>1. UNCHANGED <<equipos, enVuelo, corridas>>
    BY <1>3 DEF Administra, ambiente
  <2>2. FilasVeraces'
    <3>1. CASE \/ \E r \in Releases : Publish(r) \/ Retire(r)
               \/ \E como \in {"apagada", "activa"} \ {flota} : Configura(como)
      BY <2>1, <3>1 DEF Publish, Retire, Configura, InvE, FilasVeraces
    <3>2. CASE \E g \in Gateways : Cancel(g) \/ Credencial(g, TRUE)
      BY <2>1, <3>2, FilasTrasUna
    <3> QED BY <1>3, <3>1, <3>2 DEF Administra
  <2> QED BY <2>1, <2>2, EquiposQuietos, RedQuieta
<1>4. ASSUME NEW r \in Releases, NEW destino \in SUBSET Gateways, Despliega(r, destino)
      PROVE  FilasVeraces' /\ EquiposBien' /\ RedBien'
  BY <1>4, FilasTrasRollout, EquiposQuietos, RedQuieta DEF Despliega
<1>5. ASSUME NEW g \in Gateways, NEW llega \in BOOLEAN, Consulta(g, llega)
      PROVE  FilasVeraces' /\ EquiposBien' /\ RedBien'
  <2>1. UNCHANGED <<enVuelo, corridas>> /\ Pendiente(g)
    BY <1>5 DEF Consulta
  <2>2. CASE equipos' = equipos
    BY <2>1, <2>2, FilasTrasUna, EquiposQuietos, RedQuieta
  <2>3. CASE equipos' = [equipos EXCEPT ![g].orden = filas[g].objetivo]
    <3> DEFINE d == [equipos[g] EXCEPT !.orden = filas[g].objetivo]
    <3>1. equipos[g].paso = "espera" /\ EquipoInv(equipos[g], corridas[g])
            /\ filas[g] \in Fila
      BY <1>5 DEF Consulta, InvE, EquiposBien, Inv, TypeOK
    <3>2. EquipoInv(d, corridas[g])
      BY <3>1 DEF EquipoInv, Aparato, Fila
    <3>3. equipos' = [equipos EXCEPT ![g] = d]
      BY <2>3
    <3> HIDE DEF d
    <3> QED BY <2>1, <3>2, <3>3, FilasTrasUna, OtroEquipo, RedQuieta
  <2> QED BY <1>5, <2>2, <2>3 DEF Consulta
<1>6. ASSUME NEW g \in Gateways, PasaVentana(g)
      PROVE  FilasVeraces' /\ EquiposBien' /\ RedBien'
  <2>1. UNCHANGED <<enVuelo, corridas>> /\ CambiaVentana(g)
    BY <1>6 DEF PasaVentana
  <2>2. CASE equipos' = equipos
    BY <2>1, <2>2, FilasTrasUna, EquiposQuietos, RedQuieta
  <2>3. CASE equipos[g].paso = "espera" /\ equipos' = [equipos EXCEPT ![g].orden = Nulo]
    <3> DEFINE d == [equipos[g] EXCEPT !.orden = Nulo]
    <3>1. EquipoInv(equipos[g], corridas[g])
      BY DEF InvE, EquiposBien
    <3>2. EquipoInv(d, corridas[g])
      BY <2>3, <3>1 DEF EquipoInv, Aparato
    <3>3. equipos' = [equipos EXCEPT ![g] = d]
      BY <2>3
    <3> HIDE DEF d
    <3> QED BY <2>1, <3>2, <3>3, FilasTrasUna, OtroEquipo, RedQuieta
  <2> QED BY <1>6, <2>2, <2>3 DEF PasaVentana
<1>7. ASSUME NEW g \in Gateways, Empieza(g)
      PROVE  FilasVeraces' /\ EquiposBien' /\ RedBien'
  BY <1>7, DaInv DEF Empieza, Reportables
<1>8. ASSUME NEW g \in Gateways, Sigue(g)
      PROVE  FilasVeraces' /\ EquiposBien' /\ RedBien'
  <2>1. equipos[g].orden # Nulo
    BY <1>8 DEF Sigue, InvE, EquiposBien, EquipoInv
  <2> QED BY <1>8, <2>1, DaInv DEF Sigue, Reportables
<1>9. ASSUME NEW g \in Gateways, Termina(g) \/ Apagon(g)
      PROVE  FilasVeraces' /\ EquiposBien' /\ RedBien'
  <2>1. /\ UNCHANGED <<vars, enVuelo, corridas>>
        /\ equipos' = [equipos EXCEPT ![g] = EnEspera(equipos[g].corre)]
    BY <1>9 DEF Termina, Apagon
  <2>2. EquipoInv(EnEspera(equipos[g].corre), corridas[g])
    BY EnEsperaInv DEF InvE, EquiposBien
  <2> QED BY <2>1, <2>2, OtroEquipo, RedQuieta, FilasQuietas
<1>10. ASSUME NEW g \in Gateways, Late(g)
       PROVE  FilasVeraces' /\ EquiposBien' /\ RedBien'
  <2>1. equipos[g].corre \in corridas[g]
    BY DEF InvE, EquiposBien, EquipoInv
  <2> QED BY <1>10, <2>1, FilasTrasUna, EquiposQuietos, RedQuieta DEF Late, ambiente
<1>11. ASSUME NEW g \in Gateways, NEW v \in corridas[g], Presencia(g, v)
       PROVE  FilasVeraces' /\ EquiposBien' /\ RedBien'
  BY <1>11, FilasTrasUna, EquiposQuietos, RedQuieta DEF Presencia
<1>12. ASSUME NEW g \in Gateways, Envia(g)
       PROVE  FilasVeraces' /\ EquiposBien' /\ RedBien'
  <2>1. UNCHANGED <<vars, equipos, corridas>> /\ ~equipos[g].contestado
    BY <1>12 DEF Envia
  <2>2. PICK quedan \in SUBSET enVuelo[g] :
          /\ Cardinality(quedan) < MaxEnVuelo
          /\ enVuelo' = [enVuelo EXCEPT ![g] = quedan \cup {Mensaje(g)}]
    BY <1>12 DEF Envia
  <2>3. RedInv(quedan \cup {Mensaje(g)}, corridas[g])
    <3> DEFINE C == corridas[g]
    <3>1. RedInv(enVuelo[g], C) /\ EquipoInv(equipos[g], C)
      BY DEF InvE, RedBien, EquiposBien
    <3>2. equipos[g].paso \in Reportables /\ VersionDe[equipos[g].orden] \in Versiones
      BY <2>1, <3>1, Constantes DEF EquipoInv, Aparato, Pasos
    <3>3. /\ IsFiniteSet(quedan \cup {Mensaje(g)})
          /\ Cardinality(quedan \cup {Mensaje(g)}) <= MaxEnVuelo
      <4>1. IsFiniteSet(quedan)
        BY <3>1, FS_Subset DEF RedInv
      <4>2. Cardinality(quedan) \in Nat /\ MaxEnVuelo \in Nat
        BY <4>1, FS_CardinalityType, CotasAssumption
      <4>3. Cardinality(quedan \cup {Mensaje(g)}) \in {Cardinality(quedan), Cardinality(quedan) + 1}
              /\ IsFiniteSet(quedan \cup {Mensaje(g)})
        BY <4>1, FS_AddElement
      <4> QED BY <2>2, <4>2, <4>3
    <3>4. \A v \in Versiones : <<"aplicada", v>> \in quedan \cup {Mensaje(g)} => v \in C
      BY <3>1 DEF RedInv, EquipoInv, Mensaje
    <3>5. quedan \cup {Mensaje(g)} \subseteq Reportables \X Versiones
      BY <3>1, <3>2 DEF RedInv, Mensaje
    <3> QED BY <3>3, <3>4, <3>5 DEF RedInv
  <2>4. RedBien'
    BY <2>1, <2>2, <2>3 DEF InvE, RedBien, RedInv
  <2> QED BY <2>1, <2>4, FilasQuietas, EquiposQuietos
<1>13. ASSUME NEW g \in Gateways, NEW m \in enVuelo[g], NEW copia \in BOOLEAN,
              NEW contesta \in BOOLEAN, Llega(g, m, copia, contesta)
       PROVE  FilasVeraces' /\ EquiposBien' /\ RedBien'
  <2>1. UNCHANGED corridas
    BY <1>13 DEF Llega
  <2>2. /\ m[1] \in Reportables /\ m[2] \in Versiones
        /\ m[1] = "aplicada" => m[2] \in corridas[g]
    BY DEF InvE, RedBien, RedInv
  <2>3. FilasVeraces'
    <3>1. CASE Acuse(g, m[1], m[2])
      BY <2>1, <2>2, <3>1, FilasTrasUna
    <3>2. CASE UNCHANGED vars
      BY <2>1, <3>2, FilasQuietas
    <3> QED BY <1>13, <3>1, <3>2 DEF Llega
  <2>4. RedBien'
    <3>1. CASE enVuelo' = enVuelo
      BY <2>1, <3>1, RedQuieta
    <3>2. CASE enVuelo' = [enVuelo EXCEPT ![g] = @ \ {m}]
      <4> DEFINE quedan == enVuelo[g] \ {m}
      <4>1. RedInv(enVuelo[g], corridas[g])
        BY DEF InvE, RedBien
      <4>2. IsFiniteSet(quedan) /\ Cardinality(quedan) <= Cardinality(enVuelo[g])
        BY <4>1, FS_Subset DEF RedInv
      <4>3. Cardinality(quedan) \in Nat /\ Cardinality(enVuelo[g]) \in Nat
              /\ MaxEnVuelo \in Nat
        BY <4>1, <4>2, FS_CardinalityType, CotasAssumption DEF RedInv
      <4>4. Cardinality(quedan) <= MaxEnVuelo
        BY <4>1, <4>2, <4>3 DEF RedInv
      <4>5. RedInv(quedan, corridas[g])
        BY <4>1, <4>2, <4>4 DEF RedInv
      <4> QED BY <2>1, <3>2, <4>5 DEF InvE, RedBien, RedInv
    <3> QED BY <1>13, <3>1, <3>2 DEF Llega
  <2>5. EquiposBien'
    <3>1. CASE equipos' = equipos
      BY <2>1, <3>1, EquiposQuietos
    <3>2. CASE equipos' = [equipos EXCEPT ![g].contestado = TRUE]
      <4> DEFINE d == [equipos[g] EXCEPT !.contestado = TRUE]
      <4>1. EquipoInv(d, corridas[g])
        BY DEF InvE, EquiposBien, EquipoInv, Aparato
      <4>2. equipos' = [equipos EXCEPT ![g] = d]
        BY <3>2
      <4> HIDE DEF d
      <4> QED BY <2>1, <4>1, <4>2, OtroEquipo
    <3> QED BY <1>13, <3>1, <3>2 DEF Llega
  <2> QED BY <2>3, <2>4, <2>5
<1> QED
  BY <1>2, <1>3, <1>4, <1>5, <1>6, <1>7, <1>8, <1>9, <1>10, <1>11, <1>12, <1>13
     DEF NextE

LEMMA InvarianteE == SpecE => []InvE
BY InvInicialE, InvPasoE, PTL DEF SpecE

\* Every behaviour of the composed system is one of the service alone, so what
\* is proved of the service holds with the devices and the network attached.
THEOREM Compone == SpecE => Spec
<1>1. InitE => Init
  BY DEF InitE
<1> QED BY <1>1, Proyeccion, InvarianteE, PTL DEF Spec, SpecE

\* "Aplicada" is never an invention of the CRM.
THEOREM Aplicada_es_verdad == SpecE => []AplicadaEsVerdad
<1>1. InvE => AplicadaEsVerdad
  BY DEF InvE, FilasVeraces, Veraz, AplicadaEsVerdad
<1> QED BY <1>1, InvarianteE, PTL

\* The rows, the devices and the network keep their types.
THEOREM TipoCorrectoE == SpecE => []TypeOKE
<1>1. InvE => TypeOKE
  BY DEF InvE, Inv, TypeOKE, EquiposBien, EquipoInv, RedBien, RedInv, Aparato
<1> QED BY <1>1, InvarianteE, PTL

-----------------------------------------------------------------------------
(* Requests that overlap.                                                  *)

Columnas == {"estado", "objetivo", "ventana", "intentos", "version",
             "anterior", "error", "credencial"}

\* A row that stale writes may have damaged: the database keeps the types of
\* its columns, and puts no bound on the attempts.
FilaT == [estado     : Estados,
          objetivo   : Releases \cup {Nulo},
          ventana    : Ventanas,
          intentos   : Nat,
          version    : Versiones \cup {Nulo},
          anterior   : Versiones \cup {Nulo},
          error      : BOOLEAN,
          credencial : BOOLEAN]

\* The budget of a row that has received o stale writes.
Tope(f, o) ==
  /\ f.intentos <= MaxIntentos + o
  /\ f.estado = "programada" => f.intentos < MaxIntentos + o

FilaBien(f, o) == f \in FilaT /\ Tope(f, o) /\ (o = 0 => FilaInv(f))

\* What a handler makes of the row it reads, be it a damaged one.
Justa(f, h) ==
  /\ h \in FilaT /\ Arista(f, h)
  /\ FilaInv(f) => FilaInv(h)
  /\ \A o \in Nat : Tope(f, o) => Tope(h, o)

\* What a write does to a row it may know nothing about.
Ciega(cambios, o) ==
  \A f \in FilaT :
    LET h == Mezcla(f, cambios)
    IN  /\ h \in FilaT
        /\ \/ h.intentos \in {f.intentos, 0}
           \/ h.estado = "descargando" /\ h.intentos <= MaxIntentos + o

EsDestino(s) ==
  /\ s.fase = "destino" /\ s.r \in Releases /\ s.g \in Gateways
  /\ s = [fase |-> "destino", r |-> s.r, g |-> s.g]

EsOrden(s, fs) ==
  /\ s.fase = "orden" /\ s.g \in Gateways /\ s.leida \in FilaT /\ s.fresca \in BOOLEAN
  /\ s = [fase |-> "orden", g |-> s.g, leida |-> s.leida, fresca |-> s.fresca]
  /\ s.fresca => s.leida = fs[s.g]

EsEscritura(s, fs, os) ==
  /\ s.fase = "escribe" /\ s.g \in Gateways /\ s.fresca \in BOOLEAN
  /\ s = Decidida(s.g, s.cambios, s.fresca)
  /\ Ciega(s.cambios, os[s.g])
  /\ s.fresca => Justa(fs[s.g], Mezcla(fs[s.g], s.cambios))

SesionInv(s, fs, os) ==
  s = Libre \/ EsDestino(s) \/ EsOrden(s, fs) \/ EsEscritura(s, fs, os)

\* The inductive invariant.
InvT ==
  /\ filas \in [Gateways -> FilaT]
  /\ obsoletas \in [Gateways -> Nat]
  /\ DOMAIN peticiones = Peticiones
  /\ \A g \in Gateways : FilaBien(filas[g], obsoletas[g])
  /\ \A p \in Peticiones : SesionInv(peticiones[p], filas, obsoletas)

\* A row is its columns.
LEMMA PorColumnas ==
  ASSUME NEW f \in FilaT, NEW h, DOMAIN h = Columnas,
         h = [c \in Columnas |-> h[c]], \A c \in Columnas : h[c] = f[c]
  PROVE  h = f
<1>1. DOMAIN f = Columnas /\ f = [c \in Columnas |-> f[c]]
  BY DEF FilaT, Columnas
<1> QED BY <1>1

LEMMA EsFilaT ==
  ASSUME NEW h, h = [c \in Columnas |-> h[c]],
         h.estado \in Estados, h.objetivo \in Releases \cup {Nulo},
         h.ventana \in Ventanas, h.intentos \in Nat,
         h.version \in Versiones \cup {Nulo}, h.anterior \in Versiones \cup {Nulo},
         h.error \in BOOLEAN, h.credencial \in BOOLEAN
  PROVE  h \in FilaT
<1> DEFINE k == [estado |-> h.estado, objetivo |-> h.objetivo, ventana |-> h.ventana,
                 intentos |-> h.intentos, version |-> h.version,
                 anterior |-> h.anterior, error |-> h.error,
                 credencial |-> h.credencial]
<1>1. k \in FilaT
  BY DEF FilaT
<1>2. \A c \in Columnas : h[c] = k[c]
  BY DEF Columnas
<1>3. DOMAIN h = Columnas
  OBVIOUS
<1> HIDE DEF k
<1>4. h = k
  BY <1>1, <1>2, <1>3, PorColumnas
<1> QED BY <1>1, <1>4

\* The UPDATE of a request that read l and computed h, over a row f.
LEMMA MezclaDe ==
  ASSUME NEW f \in FilaT, NEW l \in FilaT, NEW h \in FilaT
  PROVE  LET m == Mezcla(f, Cambios(l, h))
         IN  /\ m \in FilaT
             /\ \A c \in Columnas : m[c] = IF h[c] # l[c] THEN h[c] ELSE f[c]
<1> DEFINE m == Mezcla(f, Cambios(l, h))
<1>1. DOMAIN f = Columnas /\ DOMAIN l = Columnas /\ DOMAIN h = Columnas
  BY DEF FilaT, Columnas
<1>2. DOMAIN Cambios(l, h) = {c \in Columnas : h[c] # l[c]}
  BY <1>1 DEF Cambios, Restrict
<1>3. \A c \in DOMAIN Cambios(l, h) : Cambios(l, h)[c] = h[c]
  BY <1>1 DEF Cambios, Restrict
<1>4. m = [c \in Columnas |-> IF h[c] # l[c] THEN h[c] ELSE f[c]]
  BY <1>1, <1>2, <1>3 DEF Mezcla
<1> HIDE DEF m
<1>5. m = [c \in Columnas |-> m[c]]
  BY <1>4
<1>6. \A c \in Columnas : m[c] = IF h[c] # l[c] THEN h[c] ELSE f[c]
  BY <1>4
<1>7. /\ m.estado \in {h.estado, f.estado} /\ m.objetivo \in {h.objetivo, f.objetivo}
      /\ m.ventana \in {h.ventana, f.ventana} /\ m.intentos \in {h.intentos, f.intentos}
      /\ m.version \in {h.version, f.version} /\ m.anterior \in {h.anterior, f.anterior}
      /\ m.error \in {h.error, f.error} /\ m.credencial \in {h.credencial, f.credencial}
  BY <1>6 DEF Columnas
<1>8. m \in FilaT
  BY <1>5, <1>7, EsFilaT DEF FilaT
<1> QED BY <1>6, <1>8 DEF m

\* Over the row it read, the UPDATE leaves what the request computed.
LEMMA MezclaFresca ==
  ASSUME NEW f \in FilaT, NEW h \in FilaT
  PROVE  Mezcla(f, Cambios(f, h)) = h
<1>1. Mezcla(f, Cambios(f, h)) \in FilaT
  BY MezclaDe
<1>2. \A c \in Columnas : Mezcla(f, Cambios(f, h))[c] = h[c]
  BY MezclaDe
<1>3. \A k \in FilaT : DOMAIN k = Columnas /\ k = [c \in Columnas |-> k[c]]
  BY DEF FilaT, Columnas
<1> QED BY <1>1, <1>2, <1>3, PorColumnas

\* What each handler makes of a row, damaged or not.
LEMMA RolloutJusta ==
  ASSUME NEW f \in FilaT, NEW r \in Releases, Desplegable(f, r)
  PROVE  Justa(f, TrasRollout(f, r))
<1> DEFINE h == TrasRollout(f, r)
<1>1. h \in FilaT
  BY Constantes DEF TrasRollout, FilaT, Estados, Ventanas
<1>2. h.estado = "programada" /\ h.intentos = 0
  BY DEF TrasRollout, FilaT
<1>3. FilaInv(f) => FilaInv(h)
  BY RolloutInv
<1> HIDE DEF h
<1>4. Arista(f, h)
  BY <1>2 DEF Arista, Desplegable
<1>5. \A o \in Nat : Tope(h, o)
  BY <1>2, Constantes DEF Tope
<1> QED BY <1>1, <1>3, <1>4, <1>5 DEF Justa, h

LEMMA CancelJusta ==
  ASSUME NEW f \in FilaT, Cancelable(f)
  PROVE  Justa(f, TrasCancel(f))
<1> DEFINE h == TrasCancel(f)
<1>1. h \in FilaT
  BY Constantes DEF TrasCancel, FilaT, Estados, Ventanas
<1>2. h.estado = "sin_pendiente" /\ h.intentos = 0
  BY DEF TrasCancel, FilaT
<1>3. FilaInv(f) => FilaInv(h)
  BY CancelInv
<1> HIDE DEF h
<1>4. Arista(f, h)
  BY <1>2 DEF Arista, Cancelable
<1>5. \A o \in Nat : Tope(h, o)
  BY <1>2, Constantes DEF Tope
<1> QED BY <1>1, <1>3, <1>4, <1>5 DEF Justa, h

LEMMA AcuseJusta ==
  ASSUME NEW f \in FilaT, NEW e \in Reportables, NEW v, AcuseAceptado(f, e, v)
  PROVE  Justa(f, TrasAcuse(f, e))
<1> DEFINE h == TrasAcuse(f, e)
<1>1. f.estado \in Estados /\ f.objetivo \in Releases /\ f.intentos \in Nat
  BY DEF FilaT, AcuseAceptado
<1>1a. VersionDe[f.objetivo] \in Versiones /\ f.intentos + 1 \in Nat /\ e \in Estados
  BY <1>1, Constantes DEF Reportables, Estados
<1>1b. (IF e = "descargando" /\ f.estado # e THEN f.intentos + 1 ELSE f.intentos) \in Nat
  BY <1>1, <1>1a
<1>2. h \in FilaT
  BY <1>1, <1>1a, <1>1b DEF TrasAcuse, FilaT
<1>3. /\ h.estado = e
      /\ h.intentos = IF e = "descargando" /\ f.estado # e
                      THEN f.intentos + 1 ELSE f.intentos
  BY DEF TrasAcuse, FilaT
<1>4. FilaInv(f) => FilaInv(h)
  BY AcuseInv
<1> HIDE DEF h
<1>5. Arista(f, h)
  BY <1>3 DEF Arista, AcuseAceptado
<1>6. e = "descargando" /\ f.estado # e => f.estado = "programada"
  BY <1>1, Tabla DEF AcuseAceptado
<1>7. e # "programada"
  BY DEF Reportables
<1>8. ASSUME NEW o \in Nat, Tope(f, o) PROVE Tope(h, o)
  BY <1>1, <1>3, <1>6, <1>7, <1>8, Constantes DEF Tope
<1> QED BY <1>2, <1>4, <1>5, <1>8 DEF Justa, h

\* A change that leaves state, attempts and whatever FilaInv ties together alone.
LEMMA QuietaJusta ==
  ASSUME NEW f \in FilaT, NEW h \in FilaT, h.estado = f.estado, h.intentos = f.intentos,
         FilaInv(f) => FilaInv(h)
  PROVE  Justa(f, h)
BY DEF Justa, Arista, TransicionValida, Tope

LEMMA PendienteJusta ==
  ASSUME NEW f \in FilaT, NEW cat
  PROVE  /\ Justa(f, TrasPendiente(f, cat))
         /\ TrasPendiente(f, cat).intentos = f.intentos
<1> DEFINE h == TrasPendiente(f, cat)
<1>0. f.estado \in Estados /\ f.intentos \in Nat /\ (FilaInv(f) => FilaInv(h))
  BY PendienteInv DEF FilaT
<1> SUFFICES /\ h \in FilaT /\ h.intentos = f.intentos
             /\ \/ h.estado = f.estado
                \/ h.estado # "programada" /\ TransicionValida(f.estado, h.estado)
                \/ /\ h.estado = "programada" /\ f.estado = "fallida"
                   /\ f.intentos < MaxIntentos
  <2>1. TransicionValida("fallida", "programada")
    BY DEF TransicionValida, Transiciones
  <2>2. Arista(f, h)
    BY <2>1 DEF Arista, TransicionValida
  <2> HIDE DEF h
  <2>3. ASSUME NEW o \in Nat, Tope(f, o) PROVE Tope(h, o)
    BY <1>0, <2>3, Constantes DEF Tope
  <2> QED BY <1>0, <2>2, <2>3 DEF Justa, h
<1>1. CASE Retirada(f, cat)
  <2>1. h = TrasRetiro(f)
    BY <1>1 DEF TrasPendiente, HayOrden
  <2>2. CASE TransicionValida(f.estado, "sin_pendiente")
    <3>1. TrasRetiro(f) \in FilaT
      BY <1>0, <2>2, Constantes DEF TrasRetiro, FilaT, Estados, Ventanas
    <3>2. /\ TrasRetiro(f).estado = "sin_pendiente"
          /\ TrasRetiro(f).intentos = f.intentos
      BY <2>2 DEF TrasRetiro, FilaT
    <3> QED BY <2>1, <2>2, <3>1, <3>2
  <2>3. CASE ~TransicionValida(f.estado, "sin_pendiente")
    BY <2>1, <2>3 DEF TrasRetiro
  <2> QED BY <2>2, <2>3
<1>2. CASE ~Retirada(f, cat) /\ f.estado \in EnCurso /\ YaCorre(f)
  <2>1. h = DadaPorAplicada(f)
    BY <1>2 DEF TrasPendiente, HayOrden
  <2>2. CASE TransicionValida(f.estado, "aplicada")
    <3>1. DadaPorAplicada(f) \in FilaT
      BY <1>0, <2>2 DEF DadaPorAplicada, FilaT, Estados
    <3>2. /\ DadaPorAplicada(f).estado = "aplicada"
          /\ DadaPorAplicada(f).intentos = f.intentos
      BY <2>2 DEF DadaPorAplicada, FilaT
    <3> QED BY <2>1, <2>2, <3>1, <3>2
  <2>3. CASE ~TransicionValida(f.estado, "aplicada")
    BY <2>1, <2>3 DEF DadaPorAplicada
  <2> QED BY <2>2, <2>3
<1>3. CASE HayOrden(f, cat)
  <2>1. h = Vigente(f)
    BY <1>3 DEF TrasPendiente, HayOrden
  <2>2. Vigente(f) \in FilaT
    BY <1>0 DEF Vigente, FilaT, Estados, Ventanas
  <2>3. /\ Vigente(f).estado = IF f.estado = "fallida" THEN "programada" ELSE f.estado
        /\ Vigente(f).intentos = f.intentos
    BY DEF Vigente, FilaT
  <2>4. f.intentos < MaxIntentos
    BY <1>3 DEF HayOrden, PuedeReintentar
  <2> QED BY <2>1, <2>2, <2>3, <2>4
<1>4. CASE ~HayOrden(f, cat) /\ ~Retirada(f, cat) /\ ~(f.estado \in EnCurso /\ YaCorre(f))
  BY <1>4 DEF TrasPendiente
<1> QED BY <1>1, <1>2, <1>3, <1>4

LEMMA LatidoJusta ==
  ASSUME NEW f \in FilaT, NEW v \in Versiones \cup {Nulo}, NEW cat
  PROVE  /\ Justa(f, TrasLatido(f, v))
         /\ Justa(f, TrasPendiente(TrasLatido(f, v), cat))
<1> DEFINE k == TrasLatido(f, v)
           h == TrasPendiente(k, cat)
<1>1. k \in FilaT /\ k.estado = f.estado /\ k.intentos = f.intentos
  BY DEF TrasLatido, FilaT
<1>2. FilaInv(f) => FilaInv(k)
  BY LatidoInv
<1> HIDE DEF k
<1>3. Justa(f, k)
  BY <1>1, <1>2, QuietaJusta
<1>4. Justa(k, h)
  BY <1>1, PendienteJusta
<1> HIDE DEF h
<1>5. Justa(f, h)
  BY <1>1, <1>2, <1>4 DEF Justa, Arista, Tope
<1> QED BY <1>3, <1>5 DEF k, h

LEMMA VersionJusta ==
  ASSUME NEW f \in FilaT, NEW v \in Versiones
  PROVE  Justa(f, [f EXCEPT !.version = v])
<1> DEFINE h == [f EXCEPT !.version = v]
<1>1. h \in FilaT /\ h.estado = f.estado /\ h.intentos = f.intentos
  BY DEF FilaT
<1>2. FilaInv(f) => FilaInv(h)
  BY DEF FilaInv, Fila
<1> QED BY <1>1, <1>2, QuietaJusta

LEMMA VentanaJusta ==
  ASSUME NEW f \in FilaT, f.ventana # "ninguna"
  PROVE  Justa(f, [f EXCEPT !.ventana = IF @ = "abierta" THEN "vencida" ELSE "abierta"])
<1> DEFINE h == [f EXCEPT !.ventana = IF @ = "abierta" THEN "vencida" ELSE "abierta"]
<1>1. h \in FilaT /\ h.estado = f.estado /\ h.intentos = f.intentos
  BY DEF FilaT, Ventanas
<1>2. FilaInv(f) => FilaInv(h)
  BY DEF FilaInv, Fila, Ventanas
<1> QED BY <1>1, <1>2, QuietaJusta

\* What each of them writes, over whatever the row has become.
LEMMA CiegaDe ==
  ASSUME NEW l \in FilaT, NEW h \in FilaT, NEW o \in Nat,
         \/ h.intentos \in {l.intentos, 0}
         \/ /\ h.estado = "descargando" /\ l.estado # "descargando"
            /\ h.intentos <= MaxIntentos + o
  PROVE  Ciega(Cambios(l, h), o)
<1> SUFFICES ASSUME NEW f \in FilaT
             PROVE  LET m == Mezcla(f, Cambios(l, h))
                    IN  /\ m \in FilaT
                        /\ \/ m.intentos \in {f.intentos, 0}
                           \/ m.estado = "descargando" /\ m.intentos <= MaxIntentos + o
  BY DEF Ciega
<1> DEFINE m == Mezcla(f, Cambios(l, h))
<1>1. m \in FilaT /\ \A c \in Columnas : m[c] = IF h[c] # l[c] THEN h[c] ELSE f[c]
  BY MezclaDe
<1> HIDE DEF m
<1>2. /\ m.intentos = IF h.intentos # l.intentos THEN h.intentos ELSE f.intentos
      /\ m.estado = IF h.estado # l.estado THEN h.estado ELSE f.estado
  BY <1>1 DEF Columnas
<1>3. \/ m.intentos \in {f.intentos, 0}
      \/ m.estado = "descargando" /\ m.intentos <= MaxIntentos + o
  BY <1>2
<1> QED BY <1>1, <1>3 DEF m

\* The instant a rollout writes anew although the row held an equal one.
LEMMA ConInstante ==
  ASSUME NEW f \in FilaT, NEW h \in FilaT, h.ventana = "abierta", NEW k \in FilaT,
         NEW c, c = Cambios(f, h),
         NEW cc, cc = [x \in DOMAIN c \cup {"ventana"} |->
                         IF x \in DOMAIN c THEN c[x] ELSE "abierta"]
  PROVE  Mezcla(k, cc) = [Mezcla(k, c) EXCEPT !.ventana = "abierta"]
<1>1. DOMAIN f = Columnas /\ DOMAIN h = Columnas /\ DOMAIN k = Columnas
  BY DEF FilaT, Columnas
<1>2. DOMAIN c \subseteq Columnas /\ ("ventana" \in DOMAIN c => c["ventana"] = "abierta")
  BY <1>1 DEF Cambios, Restrict
<1>3. Mezcla(k, c) = [x \in Columnas |-> IF x \in DOMAIN c THEN c[x] ELSE k[x]]
  BY <1>1 DEF Mezcla
<1>4. Mezcla(k, cc) = [x \in Columnas |-> IF x \in DOMAIN cc THEN cc[x] ELSE k[x]]
  BY <1>1 DEF Mezcla
<1>5. DOMAIN cc = DOMAIN c \cup {"ventana"}
  OBVIOUS
<1>6. \A x \in Columnas :
        (IF x \in DOMAIN cc THEN cc[x] ELSE k[x])
          = IF x = "ventana" THEN "abierta" ELSE IF x \in DOMAIN c THEN c[x] ELSE k[x]
  BY <1>2, <1>5
<1> QED BY <1>3, <1>4, <1>6

LEMMA EscrituraInv ==
  ASSUME NEW g \in Gateways, NEW cambios, NEW fresca \in BOOLEAN, NEW fs, NEW os,
         Ciega(cambios, os[g]), fresca => Justa(fs[g], Mezcla(fs[g], cambios))
  PROVE  SesionInv(Decidida(g, cambios, fresca), fs, os)
<1> DEFINE s == Decidida(g, cambios, fresca)
<1>1. s.fase = "escribe" /\ s.g = g /\ s.cambios = cambios /\ s.fresca = fresca
  BY DEF Decidida
<1> HIDE DEF s
<1>2. s = Decidida(s.g, s.cambios, s.fresca)
  BY <1>1 DEF s
<1> QED BY <1>1, <1>2 DEF SesionInv, EsEscritura, s

LEMMA OrdenInv ==
  ASSUME NEW g \in Gateways, NEW fs, fs[g] \in FilaT, NEW os
  PROVE  SesionInv([fase |-> "orden", g |-> g, leida |-> fs[g], fresca |-> TRUE], fs, os)
<1> DEFINE s == [fase |-> "orden", g |-> g, leida |-> fs[g], fresca |-> TRUE]
<1>1. s.fase = "orden" /\ s.g = g /\ s.leida = fs[g] /\ s.fresca = TRUE
  OBVIOUS
<1>2. s = [fase |-> "orden", g |-> s.g, leida |-> s.leida, fresca |-> s.fresca]
  OBVIOUS
<1> QED BY <1>1, <1>2 DEF SesionInv, EsOrden

LEMMA DestinoInv ==
  ASSUME NEW g \in Gateways, NEW r \in Releases, NEW fs, NEW os
  PROVE  SesionInv([fase |-> "destino", r |-> r, g |-> g], fs, os)
<1> DEFINE s == [fase |-> "destino", r |-> r, g |-> g]
<1>1. s.fase = "destino" /\ s.g = g /\ s.r = r
  OBVIOUS
<1>2. s = [fase |-> "destino", r |-> s.r, g |-> s.g]
  OBVIOUS
<1> QED BY <1>1, <1>2 DEF SesionInv, EsDestino

\* The phase tells which of the four a session is.
LEMMA FaseDe ==
  ASSUME NEW s, NEW fs, NEW os, SesionInv(s, fs, os)
  PROVE  /\ s.fase = "destino" => EsDestino(s)
         /\ s.fase = "orden" => EsOrden(s, fs)
         /\ s.fase = "escribe" => EsEscritura(s, fs, os)
<1>1. Libre.fase = "libre"
  BY DEF Libre
<1> QED BY <1>1 DEF SesionInv, EsDestino, EsOrden, EsEscritura

\* A request that reads or computes, and writes nothing.
LEMMA PasaInv ==
  ASSUME InvT, NEW p \in Peticiones, NEW s, SesionInv(s, filas, obsoletas), Pasa(p, s)
  PROVE  InvT'
<1>1. filas' = filas /\ obsoletas' = obsoletas
  BY DEF Pasa, vars
<1>2. DOMAIN peticiones' = Peticiones
  BY DEF Pasa, InvT
<1>3. \A q \in Peticiones : peticiones'[q] = IF q = p THEN s ELSE peticiones[q]
  BY DEF Pasa, InvT
<1>4. \A q \in Peticiones : SesionInv(peticiones'[q], filas, obsoletas)
  BY <1>3 DEF InvT
<1> QED BY <1>1, <1>2, <1>4 DEF InvT

\* A write of somebody else makes a session stale, or leaves it as it is.
LEMMA SesionEnvejece ==
  ASSUME NEW ses, NEW p \in Peticiones, SesionInv(ses[p], filas, obsoletas),
         NEW nuevas, NEW os, obsoletas \in [Gateways -> Nat], os \in [Gateways -> Nat],
         \A g \in Gateways : obsoletas[g] <= os[g]
  PROVE  SesionInv(Envejece(ses, nuevas)[p], nuevas, os)
<1> DEFINE s == ses[p]
           t == Envejece(ses, nuevas)[p]
<1>1. t = IF "fresca" \in DOMAIN s /\ nuevas[s.g] # filas[s.g]
          THEN [s EXCEPT !.fresca = FALSE] ELSE s
  BY DEF Envejece
<1>2. SesionInv(s, filas, obsoletas)
  OBVIOUS
<1> HIDE DEF s, t
<1>3. CASE s = Libre
  <2>1. "fresca" \notin DOMAIN s
    BY <1>3 DEF Libre
  <2> QED BY <1>1, <1>3, <2>1 DEF SesionInv, t
<1>4. CASE EsDestino(s)
  <2>1. "fresca" \notin DOMAIN s
    <3>1. DOMAIN s = {"fase", "r", "g"}
      BY <1>4 DEF EsDestino
    <3> QED BY <3>1
  <2> QED BY <1>1, <1>4, <2>1 DEF SesionInv, t
<1>5. CASE EsOrden(s, filas)
  <2>1. CASE t = s /\ nuevas[s.g] = filas[s.g]
    BY <1>5, <2>1 DEF SesionInv, EsOrden, t
  <2>2. CASE t = [s EXCEPT !.fresca = FALSE]
    <3>1. /\ t.fase = "orden" /\ t.g = s.g /\ t.leida = s.leida /\ t.fresca = FALSE
          /\ t = [fase |-> "orden", g |-> t.g, leida |-> t.leida, fresca |-> t.fresca]
      BY <1>5, <2>2 DEF EsOrden
    <3> QED BY <1>5, <3>1 DEF SesionInv, EsOrden, t
  <2>3. "fresca" \in DOMAIN s
    BY <1>5 DEF EsOrden
  <2> QED BY <1>1, <2>1, <2>2, <2>3
<1>6. CASE EsEscritura(s, filas, obsoletas)
  <2>1. s.g \in Gateways /\ Ciega(s.cambios, os[s.g])
    BY <1>6, Constantes DEF EsEscritura, Ciega, FilaT
  <2>2. CASE t = s /\ nuevas[s.g] = filas[s.g]
    BY <1>6, <2>1, <2>2 DEF SesionInv, EsEscritura, t
  <2>3. CASE t = [s EXCEPT !.fresca = FALSE]
    <3>1. /\ t.fase = "escribe" /\ t.g = s.g /\ t.cambios = s.cambios /\ t.fresca = FALSE
          /\ t = Decidida(t.g, t.cambios, t.fresca)
      BY <1>6, <2>3 DEF EsEscritura, Decidida
    <3> QED BY <2>1, <3>1 DEF SesionInv, EsEscritura, t
  <2>4. "fresca" \in DOMAIN s
    BY <1>6 DEF EsEscritura, Decidida
  <2> QED BY <1>1, <2>2, <2>3, <2>4
<1> QED BY <1>2, <1>3, <1>4, <1>5, <1>6 DEF SesionInv

\* What a step does to one row: nothing, what a handler makes of it, or a stale write.
Movida(g) ==
  \/ obsoletas'[g] = obsoletas[g] /\ filas'[g] = filas[g]
  \/ obsoletas'[g] = obsoletas[g] /\ Justa(filas[g], filas'[g])
  \/ /\ obsoletas'[g] = obsoletas[g] + 1
     /\ filas'[g] \in FilaT /\ Tope(filas'[g], obsoletas'[g])

LEMMA MovidaBien ==
  ASSUME InvT, NEW g \in Gateways, Movida(g)
  PROVE  /\ FilaBien(filas'[g], obsoletas'[g])
         /\ obsoletas'[g] \in Nat /\ obsoletas[g] <= obsoletas'[g]
         /\ \/ TransicionValida(filas[g].estado, filas'[g].estado)
            \/ obsoletas'[g] > obsoletas[g]
<1>1. obsoletas[g] \in Nat /\ FilaBien(filas[g], obsoletas[g])
  BY DEF InvT
<1>2. CASE obsoletas'[g] = obsoletas[g] /\ filas'[g] = filas[g]
  BY <1>1, <1>2 DEF TransicionValida
<1>3. CASE obsoletas'[g] = obsoletas[g] /\ Justa(filas[g], filas'[g])
  BY <1>1, <1>3 DEF FilaBien, Justa, Arista
<1>4. CASE /\ obsoletas'[g] = obsoletas[g] + 1
           /\ filas'[g] \in FilaT /\ Tope(filas'[g], obsoletas'[g])
  BY <1>1, <1>4 DEF FilaBien
<1> QED BY <1>2, <1>3, <1>4 DEF Movida

\* A step that writes rows, and leaves the sessions older.
LEMMA FilasInv ==
  ASSUME InvT, DOMAIN filas' = Gateways, filas' = [g \in Gateways |-> filas'[g]],
         obsoletas' = [g \in Gateways |-> obsoletas'[g]],
         \A g \in Gateways : Movida(g),
         NEW ses, \A p \in Peticiones : SesionInv(ses[p], filas, obsoletas),
         peticiones' = Envejece(ses, filas')
  PROVE  InvT'
<1>1. \A g \in Gateways : /\ FilaBien(filas'[g], obsoletas'[g])
                          /\ obsoletas'[g] \in Nat /\ obsoletas[g] <= obsoletas'[g]
  BY MovidaBien
<1>2. filas' \in [Gateways -> FilaT] /\ obsoletas' \in [Gateways -> Nat]
  BY <1>1 DEF FilaBien
<1>3. obsoletas \in [Gateways -> Nat]
  BY DEF InvT
<1>4. \A p \in Peticiones : SesionInv(peticiones'[p], filas', obsoletas')
  BY <1>1, <1>2, <1>3, SesionEnvejece
<1>5. DOMAIN peticiones' = Peticiones
  BY DEF Envejece
<1> QED BY <1>1, <1>2, <1>4, <1>5 DEF InvT

LEMMA InvInicialT == InitT => InvT
<1> SUFFICES ASSUME InitT PROVE InvT
  OBVIOUS
<1> DEFINE h == [FilaInicial(Nulo) EXCEPT !.credencial = TRUE]
<1>1. FilaInv(FilaInicial(Nulo))
  BY FilaInicialInv
<1>2. FilaInv(h) /\ h.intentos = 0
  BY <1>1 DEF FilaInv, Fila, FilaInicial
<1>3. h \in FilaT
  BY <1>2, Constantes DEF FilaInv, Fila, FilaT
<1>4. FilaBien(h, 0)
  BY <1>2, <1>3, Constantes DEF FilaBien, Tope
<1> HIDE DEF h
<1>5. filas \in [Gateways -> FilaT] /\ \A g \in Gateways : filas[g] = h
  BY <1>3 DEF InitT, h
<1>6. obsoletas \in [Gateways -> Nat] /\ \A g \in Gateways : obsoletas[g] = 0
  BY DEF InitT
<1>7. DOMAIN peticiones = Peticiones /\ \A p \in Peticiones : peticiones[p] = Libre
  BY DEF InitT
<1> QED BY <1>4, <1>5, <1>6, <1>7 DEF InvT, SesionInv

\* The requests that read.
LEMMA LeenInv ==
  ASSUME InvT, NEW p \in Peticiones, NEW g \in Gateways,
         \/ PideCancel(p, g) \/ PidePendiente(p, g)
         \/ \E r \in Releases : PideRollout(p, r, g)
         \/ \E e \in Reportables, v \in Versiones : PideAcuse(p, g, e, v)
  PROVE  InvT' /\ UNCHANGED <<filas, obsoletas>>
<1>1. filas[g] \in FilaT /\ FilaBien(filas[g], obsoletas[g]) /\ obsoletas[g] \in Nat
  BY DEF InvT
<1>2. CASE PideCancel(p, g)
  <2> DEFINE h == TrasCancel(filas[g])
  <2>1. Justa(filas[g], h)
    BY <1>1, <1>2, CancelJusta DEF PideCancel
  <2>2. h \in FilaT /\ h.intentos = 0
    BY <1>1, <2>1 DEF Justa, TrasCancel, FilaT
  <2> HIDE DEF h
  <2>3. Ciega(Cambios(filas[g], h), obsoletas[g])
    BY <1>1, <2>2, CiegaDe
  <2>4. Mezcla(filas[g], Cambios(filas[g], h)) = h
    BY <1>1, <2>2, MezclaFresca
  <2>5. SesionInv(Decidida(g, Cambios(filas[g], h), TRUE), filas, obsoletas)
    BY <2>1, <2>3, <2>4, EscrituraInv
  <2>6. Pasa(p, Decidida(g, Cambios(filas[g], h), TRUE))
    BY <1>2 DEF PideCancel, h
  <2> QED BY <2>5, <2>6, PasaInv DEF Pasa, vars
<1>3. CASE PidePendiente(p, g)
  <2>1. SesionInv([fase |-> "orden", g |-> g, leida |-> filas[g], fresca |-> TRUE],
                  filas, obsoletas)
    BY <1>1, OrdenInv
  <2> QED BY <1>3, <2>1, PasaInv DEF PidePendiente, Pasa, vars
<1>4. ASSUME NEW r \in Releases, PideRollout(p, r, g)
      PROVE  InvT' /\ UNCHANGED <<filas, obsoletas>>
  <2>1. SesionInv([fase |-> "destino", r |-> r, g |-> g], filas, obsoletas)
    BY DestinoInv
  <2> QED BY <1>4, <2>1, PasaInv DEF PideRollout, Pasa, vars
<1>5. ASSUME NEW e \in Reportables, NEW v \in Versiones, PideAcuse(p, g, e, v)
      PROVE  InvT' /\ UNCHANGED <<filas, obsoletas>>
  <2> DEFINE h == TrasAcuse(filas[g], e)
  <2>1. Justa(filas[g], h)
    BY <1>1, <1>5, AcuseJusta DEF PideAcuse
  <2>2. /\ h \in FilaT /\ h.estado = e
        /\ h.intentos = IF e = "descargando" /\ filas[g].estado # e
                        THEN filas[g].intentos + 1 ELSE filas[g].intentos
    BY <1>1, <2>1 DEF Justa, TrasAcuse, FilaT
  <2>3. e = "descargando" /\ filas[g].estado # e => filas[g].estado = "programada"
    BY <1>1, <1>5, Tabla DEF PideAcuse, AcuseAceptado, FilaT
  <2>4. \/ h.intentos = filas[g].intentos
        \/ /\ h.estado = "descargando" /\ filas[g].estado # "descargando"
           /\ h.intentos <= MaxIntentos + obsoletas[g]
    BY <1>1, <2>2, <2>3, Constantes DEF FilaBien, Tope, FilaT
  <2> HIDE DEF h
  <2>5. Ciega(Cambios(filas[g], h), obsoletas[g])
    BY <1>1, <2>2, <2>4, CiegaDe
  <2>6. Mezcla(filas[g], Cambios(filas[g], h)) = h
    BY <1>1, <2>2, MezclaFresca
  <2>7. SesionInv(Decidida(g, Cambios(filas[g], h), TRUE), filas, obsoletas)
    BY <2>1, <2>5, <2>6, EscrituraInv
  <2>8. Pasa(p, Decidida(g, Cambios(filas[g], h), TRUE))
    BY <1>5 DEF PideAcuse, h
  <2> QED BY <2>7, <2>8, PasaInv DEF Pasa, vars
<1> QED BY <1>2, <1>3, <1>4, <1>5

LEMMA LibreInv ==
  ASSUME InvT, NEW p \in Peticiones, Pasa(p, Libre)
  PROVE  InvT' /\ UNCHANGED <<filas, obsoletas>>
BY PasaInv DEF SesionInv, Pasa, vars

LEMMA LeeRolloutInv ==
  ASSUME InvT, NEW p \in Peticiones, LeeRollout(p)
  PROVE  InvT' /\ UNCHANGED <<filas, obsoletas>>
<1> DEFINE g == peticiones[p].g
           r == peticiones[p].r
           f == filas[g]
           h == TrasRollout(f, r)
           c == Cambios(f, h)
           cc == [x \in DOMAIN c \cup {"ventana"} |->
                    IF x \in DOMAIN c THEN c[x] ELSE "abierta"]
<1>1. g \in Gateways /\ r \in Releases
  BY FaseDe DEF LeeRollout, InvT, EsDestino
<1>2. f \in FilaT /\ obsoletas[g] \in Nat
  BY <1>1 DEF InvT
<1>3. CASE ~Desplegable(f, r)
  BY <1>3, LibreInv DEF LeeRollout
<1>4. CASE Desplegable(f, r)
  <2>1. Justa(f, h)
    BY <1>1, <1>2, <1>4, RolloutJusta
  <2>2. h \in FilaT /\ h.ventana = "abierta" /\ h.intentos = 0
    BY <1>2, <2>1 DEF Justa, TrasRollout, FilaT
  <2>3. PICK instante \in {c, [ventana |-> "abierta"]} :
          Pasa(p, Decidida(g, [x \in DOMAIN c \cup DOMAIN instante |->
                                 IF x \in DOMAIN c THEN c[x] ELSE instante[x]], TRUE))
    BY <1>4 DEF LeeRollout
  <2>4. c = [x \in DOMAIN c |-> c[x]]
    BY DEF Cambios, Restrict
  <2>5. Pasa(p, Decidida(g, c, TRUE)) \/ Pasa(p, Decidida(g, cc, TRUE))
    <3>1. CASE instante = c
      <4>1. [x \in DOMAIN c \cup DOMAIN instante |->
               IF x \in DOMAIN c THEN c[x] ELSE instante[x]] = [x \in DOMAIN c |-> c[x]]
        BY <3>1
      <4> QED BY <2>3, <2>4, <4>1
    <3>2. CASE instante = [ventana |-> "abierta"]
      <4>1. DOMAIN instante = {"ventana"} /\ instante["ventana"] = "abierta"
        BY <3>2
      <4>2. [x \in DOMAIN c \cup DOMAIN instante |->
               IF x \in DOMAIN c THEN c[x] ELSE instante[x]] = cc
        BY <4>1
      <4> QED BY <2>3, <4>2
    <3> QED BY <2>3, <3>1, <3>2
  <2> HIDE DEF h
  <2>6. Ciega(c, obsoletas[g]) /\ Mezcla(f, c) = h
    BY <1>2, <2>2, CiegaDe, MezclaFresca
  <2>6a. /\ c = Cambios(f, h)
         /\ cc = [x \in DOMAIN c \cup {"ventana"} |->
                    IF x \in DOMAIN c THEN c[x] ELSE "abierta"]
    OBVIOUS
  <2>8. \A m \in FilaT : LET n == [m EXCEPT !.ventana = "abierta"]
                         IN  /\ n \in FilaT /\ n.intentos = m.intentos
                             /\ n.estado = m.estado
                             /\ m.ventana = "abierta" => n = m
    BY DEF FilaT, Ventanas
  <2> HIDE DEF c, cc, f
  <2>7. ASSUME NEW k \in FilaT
        PROVE  Mezcla(k, cc) = [Mezcla(k, c) EXCEPT !.ventana = "abierta"]
    BY <1>2, <2>2, <2>6a, ConInstante
  <2>9. Ciega(cc, obsoletas[g])
    <3> SUFFICES ASSUME NEW k \in FilaT
                 PROVE  LET n == Mezcla(k, cc)
                        IN  /\ n \in FilaT
                            /\ \/ n.intentos \in {k.intentos, 0}
                               \/ /\ n.estado = "descargando"
                                  /\ n.intentos <= MaxIntentos + obsoletas[g]
      BY DEF Ciega
    <3>1. LET m == Mezcla(k, c)
          IN  /\ m \in FilaT
              /\ \/ m.intentos \in {k.intentos, 0}
                 \/ /\ m.estado = "descargando"
                    /\ m.intentos <= MaxIntentos + obsoletas[g]
      BY <2>6 DEF Ciega
    <3>2. Mezcla(k, cc) = [Mezcla(k, c) EXCEPT !.ventana = "abierta"]
      BY <2>7
    <3> QED BY <2>8, <3>1, <3>2
  <2>10. Mezcla(f, cc) = h
    BY <1>2, <2>2, <2>6, <2>7, <2>8
  <2>11. /\ SesionInv(Decidida(g, c, TRUE), filas, obsoletas)
         /\ SesionInv(Decidida(g, cc, TRUE), filas, obsoletas)
    BY <1>1, <2>1, <2>6, <2>9, <2>10, EscrituraInv DEF f
  <2> QED BY <2>5, <2>11, PasaInv DEF Pasa, vars
<1> QED BY <1>3, <1>4

LEMMA DecidePendienteInv ==
  ASSUME InvT, NEW p \in Peticiones, DecidePendiente(p)
  PROVE  InvT' /\ UNCHANGED <<filas, obsoletas>>
<1> DEFINE q == peticiones[p]
           h == TrasPendiente(q.leida, catalogo)
           c == Cambios(q.leida, h)
<1>1. /\ q.g \in Gateways /\ q.leida \in FilaT /\ q.fresca \in BOOLEAN
      /\ q.fresca => q.leida = filas[q.g]
  BY FaseDe DEF DecidePendiente, InvT, EsOrden
<1>2. Pasa(p, Libre) \/ Pasa(p, Decidida(q.g, c, q.fresca))
  BY DEF DecidePendiente
<1>3. obsoletas[q.g] \in Nat
  BY <1>1 DEF InvT
<1>4. Justa(q.leida, h)
  BY <1>1, PendienteJusta
<1>5. h \in FilaT /\ h.intentos = q.leida.intentos
  BY <1>1, <1>4, PendienteJusta DEF Justa
<1> HIDE DEF h, q
<1>6. Ciega(c, obsoletas[q.g])
  BY <1>1, <1>3, <1>5, CiegaDe
<1>7. q.fresca => Justa(filas[q.g], Mezcla(filas[q.g], c))
  BY <1>1, <1>4, <1>5, MezclaFresca
<1> HIDE DEF c
<1>8. SesionInv(Decidida(q.g, c, q.fresca), filas, obsoletas)
  BY <1>1, <1>6, <1>7, EscrituraInv
<1> QED BY <1>2, <1>8, LibreInv, PasaInv DEF Pasa, vars

\* The write: the row takes what a fresh request computed, or the columns of a stale one.
LEMMA ConfirmaInv ==
  ASSUME InvT, NEW p \in Peticiones, Confirma(p)
  PROVE  InvT' /\ \A g \in Gateways : Movida(g)
<1> DEFINE q == peticiones[p]
           fila == Mezcla(filas[q.g], q.cambios)
           nuevas == IF CumpleCheck(fila) THEN [filas EXCEPT ![q.g] = fila] ELSE filas
           pisa == ~q.fresca /\ nuevas # filas
           ses == [peticiones EXCEPT ![p] = Libre]
<1>1. /\ q.g \in Gateways /\ q.fresca \in BOOLEAN
      /\ Ciega(q.cambios, obsoletas[q.g])
      /\ q.fresca => Justa(filas[q.g], fila)
  BY FaseDe DEF Confirma, InvT, EsEscritura
<1>2. /\ filas' = nuevas
      /\ obsoletas' = [obsoletas EXCEPT ![q.g] = IF pisa THEN @ + 1 ELSE @]
      /\ peticiones' = Envejece(ses, filas')
  BY DEF Confirma
<1>3. /\ filas \in [Gateways -> FilaT] /\ obsoletas \in [Gateways -> Nat]
      /\ \A g \in Gateways : FilaBien(filas[g], obsoletas[g])
  BY DEF InvT
<1>4. /\ fila \in FilaT
      /\ \/ fila.intentos \in {filas[q.g].intentos, 0}
         \/ fila.estado = "descargando" /\ fila.intentos <= MaxIntentos + obsoletas[q.g]
  BY <1>1, <1>3 DEF Ciega
<1>5. \A x \in Peticiones : SesionInv(ses[x], filas, obsoletas)
  BY DEF InvT, SesionInv
<1> HIDE DEF fila, ses
<1>6. \A g \in Gateways : obsoletas'[g] = IF g = q.g /\ pisa THEN obsoletas[g] + 1
                                          ELSE obsoletas[g]
  BY <1>2, <1>3
<1>7. nuevas \in [Gateways -> FilaT]
  BY <1>3, <1>4
<1>8. \A g \in Gateways : nuevas[g] \in {filas[g]} \cup IF g = q.g THEN {fila} ELSE {}
  BY <1>3
<1>9. ASSUME NEW g \in Gateways PROVE Movida(g)
  <2>1. CASE nuevas = filas
    BY <1>2, <1>6, <2>1 DEF Movida
  <2>2. CASE g # q.g
    BY <1>2, <1>6, <1>8, <2>2 DEF Movida
  <2>3. CASE nuevas # filas /\ g = q.g /\ q.fresca
    BY <1>1, <1>2, <1>6, <1>8, <2>3 DEF Movida
  <2>4. CASE nuevas # filas /\ g = q.g /\ ~q.fresca
    <3>1. obsoletas'[g] = obsoletas[g] + 1
      BY <1>6, <2>4
    <3>2. filas'[g] \in {filas[g], fila} /\ filas'[g] \in FilaT
      BY <1>2, <1>7, <1>8, <2>4
    <3>3. Tope(filas[g], obsoletas[g]) /\ obsoletas[g] \in Nat /\ filas[g].intentos \in Nat
      BY <1>3 DEF FilaBien, FilaT
    <3>4. Tope(filas[g], obsoletas[g] + 1)
      BY <3>3, Constantes DEF Tope
    <3>5. Tope(fila, obsoletas[g] + 1)
      BY <1>4, <2>4, <3>3, Constantes DEF Tope, FilaT
    <3> QED BY <3>1, <3>2, <3>4, <3>5 DEF Movida
  <2> QED BY <1>1, <2>1, <2>2, <2>3, <2>4
<1>10. DOMAIN filas' = Gateways /\ filas' = [g \in Gateways |-> filas'[g]]
  BY <1>2, <1>7
<1>11. obsoletas' = [g \in Gateways |-> obsoletas'[g]]
  BY <1>2, <1>3
<1> QED BY <1>2, <1>5, <1>9, <1>10, <1>11, FilasInv

\* What stays one step leaves no row worse than the handlers do.
LEMMA SolasInv ==
  ASSUME InvT, Solas
  PROVE  InvT' /\ \A g \in Gateways : Movida(g)
<1>1. filas \in [Gateways -> FilaT] /\ obsoletas \in [Gateways -> Nat]
  BY DEF InvT
<1>2. peticiones' = Envejece(peticiones, filas') /\ obsoletas' = obsoletas
  BY DEF Solas
<1>3. ASSUME NEW k \in Gateways, NEW h, Justa(filas[k], h),
             filas' = [filas EXCEPT ![k] = h]
      PROVE  DOMAIN filas' = Gateways /\ filas' = [g \in Gateways |-> filas'[g]]
               /\ \A g \in Gateways : filas'[g] = filas[g] \/ Justa(filas[g], filas'[g])
  <2>1. h \in FilaT
    BY <1>3 DEF Justa
  <2>2. filas' \in [Gateways -> FilaT]
    BY <1>1, <1>3, <2>1
  <2>3. \A g \in Gateways : filas'[g] = IF g = k THEN h ELSE filas[g]
    BY <1>1, <1>3
  <2> QED BY <1>3, <2>2, <2>3
<1>4. DOMAIN filas' = Gateways /\ filas' = [g \in Gateways |-> filas'[g]]
        /\ \A g \in Gateways : filas'[g] = filas[g] \/ Justa(filas[g], filas'[g])
  <2>1. CASE \E r \in Releases : Retire(r)
    BY <1>1, <2>1 DEF Retire
  <2>2. ASSUME NEW k \in Gateways, CambiaVentana(k) PROVE <1>4
    <3> DEFINE h == [filas[k] EXCEPT !.ventana =
                       IF @ = "abierta" THEN "vencida" ELSE "abierta"]
    <3>1. Justa(filas[k], h)
      BY <1>1, <2>2, VentanaJusta DEF CambiaVentana
    <3>2. filas' = [filas EXCEPT ![k] = h]
      BY <2>2 DEF CambiaVentana
    <3> HIDE DEF h
    <3> QED BY <1>3, <3>1, <3>2
  <2>3. ASSUME NEW k \in Gateways, NEW v \in Versiones, EditarVersion(k, v) PROVE <1>4
    <3> DEFINE h == [filas[k] EXCEPT !.version = v]
    <3>1. Justa(filas[k], h)
      BY <1>1, VersionJusta
    <3>2. filas' = [filas EXCEPT ![k] = h]
      BY <2>3 DEF EditarVersion
    <3> HIDE DEF h
    <3> QED BY <1>3, <3>1, <3>2
  <2>4. ASSUME NEW k \in Gateways, NEW v \in Versiones \cup {Nulo}, Heartbeat(k, v)
        PROVE  <1>4
    <3> DEFINE visto == TrasLatido(filas[k], v)
               h == IF flota = "activa" THEN TrasPendiente(visto, catalogo) ELSE visto
    <3>1. Justa(filas[k], h)
      BY <1>1, LatidoJusta
    <3>2. filas' = [filas EXCEPT ![k] = h]
      BY <2>4 DEF Heartbeat
    <3> HIDE DEF h
    <3> QED BY <1>3, <3>1, <3>2
  <2> QED BY <2>1, <2>2, <2>3, <2>4 DEF Solas
<1>5. \A g \in Gateways : Movida(g)
  BY <1>2, <1>4 DEF Movida
<1>6. obsoletas' = [g \in Gateways |-> obsoletas'[g]]
  BY <1>1, <1>2
<1>7. \A p \in Peticiones : SesionInv(peticiones[p], filas, obsoletas)
  BY DEF InvT
<1> QED BY <1>2, <1>4, <1>5, <1>6, <1>7, FilasInv

LEMMA InvPasoT ==
  ASSUME InvT, [NextT]_varsT
  PROVE  InvT' /\ \A g \in Gateways : Movida(g)
<1>1. CASE UNCHANGED varsT
  BY <1>1 DEF varsT, vars, InvT, Movida
<1>2. UNCHANGED <<filas, obsoletas>> => \A g \in Gateways : Movida(g)
  BY DEF Movida
<1>3. ASSUME NEW p \in Peticiones, LeeRollout(p) \/ DecidePendiente(p) \/ Confirma(p)
      PROVE  InvT' /\ \A g \in Gateways : Movida(g)
  BY <1>2, <1>3, LeeRolloutInv, DecidePendienteInv, ConfirmaInv
<1> QED BY <1>1, <1>2, <1>3, LeenInv, SolasInv DEF NextT

LEMMA InvarianteT == SpecT => []InvT
<1>1. InvT /\ [NextT]_varsT => InvT'
  BY InvPasoT
<1> QED BY <1>1, InvInicialT, PTL DEF SpecT

\* Whatever requests overlap, a fleet no stale write has reached is one the atomic
\* service could have left: target, window, state, attempts and reason agree.
THEOREM Filas_sin_pisar == SpecT => []FilasSinPisar
<1>1. InvT => FilasSinPisar
  <2> SUFFICES ASSUME InvT, \A g \in Gateways : obsoletas[g] = 0
               PROVE  ObjetivoCoherente /\ PresupuestoRespetado /\ MotivoVeraz
    BY DEF FilasSinPisar
  <2>1. \A g \in Gateways : FilaInv(filas[g])
    BY DEF InvT, FilaBien
  <2>2. filas \in [Gateways -> Fila]
    BY <2>1 DEF InvT, FilaInv
  <2> QED BY <2>1, <2>2, InvPorFila
<1> QED BY <1>1, InvarianteT, PTL

\* Each stale write costs a gateway at most one attempt over MAX_INTENTOS.
THEOREM Desborde_acotado == SpecT => []DesbordeAcotado
<1>1. InvT => DesbordeAcotado
  BY DEF InvT, FilaBien, Tope, DesbordeAcotado
<1> QED BY <1>1, InvarianteT, PTL

\* Only a stale write takes a row along an edge TRANSICIONES does not have.
THEOREM Salto_solo_pisando == SpecT => SaltoSoloPisando
<1>1. InvT /\ [NextT]_varsT =>
        [\A g \in Gateways :
           \/ TransicionValida(filas[g].estado, filas'[g].estado)
           \/ obsoletas'[g] > obsoletas[g]]_varsT
  BY InvPasoT, MovidaBien
<1> QED BY <1>1, InvarianteT, PTL DEF SpecT, SaltoSoloPisando
=============================================================================
