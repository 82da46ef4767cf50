------------------------ MODULE ConfigEntrega_proofs ------------------------
(***************************************************************************)
(* Proofs about ConfigEntrega, for any number of requests and contents.    *)
(*                                                                         *)
(* Type correctness needs nothing.  The two properties of the record of    *)
(* what was applied need that an edit never brings an old content back.    *)
(* Then versions are ordered part by part, and everything in the system    *)
(* lines up: what is on record as applied is no newer than what the device *)
(* runs, and that no newer than what is on file (Ordenadas).  Beside it,   *)
(* a version whose row part is still the one on file was current once      *)
(* (EnteraSi): it is what the acknowledgement is compared with.            *)
(***************************************************************************)
EXTENDS ConfigEntrega, TLAPS

\* v is no newer than w, in any of its parts.
Hasta(v, w) ==
  /\ v.ajustes <= w.ajustes
  /\ v.firmware <= w.firmware
  /\ v.equipos <= w.equipos

\* If the row still has the part of the row in v, v was current once.
EnteraSi(v, f) ==
  v.ajustes = f.ajustes /\ v.firmware = f.firmware => v \in vigentes

\* The row a session holds is no newer than the one on file.
LeidaAntes(p) ==
  peticiones[p] # Libre =>
    /\ peticiones[p].leida.ajustes <= fila.ajustes
    /\ peticiones[p].leida.firmware <= fila.firmware

\* The download the device waits for was read after the file it uses.
BajaDespues(p) ==
  espera = p /\ peticiones[p].fase = "baja" /\ corre # Nulo =>
    /\ corre.ajustes <= peticiones[p].leida.ajustes
    /\ corre.firmware <= peticiones[p].leida.firmware

\* What is being acknowledged is no newer than what the device uses.
AcuseAntes(p) ==
  peticiones[p].fase \in {"acuse", "escribe"} =>
    corre # Nulo /\ Hasta(peticiones[p].version, corre)

AcuseEntero(p) ==
  /\ peticiones[p].fase = "acuse" =>
       EnteraSi(peticiones[p].version, peticiones[p].leida)
  /\ peticiones[p].fase = "escribe" => peticiones[p].version \in vigentes

Ordenadas ==
  /\ corre # Nulo => Hasta(corre, Actual) /\ EnteraSi(corre, fila)
  /\ fila.aplicada # Nulo => corre # Nulo /\ Hasta(fila.aplicada, corre)

Pendientes(p) ==
  LeidaAntes(p) /\ BajaDespues(p) /\ AcuseAntes(p) /\ AcuseEntero(p)

\* The inductive invariant, beside TypeOK.
Inv ==
  /\ Actual \in vigentes
  /\ AplicadaFueVigente
  /\ Ordenadas
  /\ \A p \in Peticiones : Pendientes(p)

-----------------------------------------------------------------------------
(* The operators.                                                          *)

LEMMA HuellaParte ==
  ASSUME NEW f, NEW e, NEW t
  PROVE  Huella(Documento(f, e, t))
           = [ajustes |-> f.ajustes, firmware |-> f.firmware, equipos |-> e]
BY DEF Huella, Documento, Restrict

LEMMA ActualEs ==
  Actual = [ajustes |-> fila.ajustes, firmware |-> fila.firmware,
            equipos |-> equipos]
BY HuellaParte DEF Actual

\* The flush of an acknowledgement: the part of the document stays as it was,
\* and the version on record is the one acknowledged or the one that was there.
LEMMA MezclaEs ==
  ASSUME NEW f \in Filas, NEW l \in Filas, NEW v \in Versiones
  PROVE  LET n == Mezcla(f, l, TrasAcuse(l, v))
         IN  /\ n \in Filas
             /\ n.ajustes = f.ajustes /\ n.firmware = f.firmware
             /\ n.aplicada \in {v, f.aplicada}
<1> DEFINE t == TrasAcuse(l, v)
           n == Mezcla(f, l, t)
           g(c) == IF t[c] # l[c] THEN t[c] ELSE f[c]
<1>1. DOMAIN f = {"habilitada", "aplicada", "ajustes", "firmware"} BY DEF Filas
<1>2. n = [c \in {"habilitada", "aplicada", "ajustes", "firmware"} |-> g(c)]
  BY <1>1 DEF Mezcla
<1>3. t.habilitada = FALSE /\ t.aplicada = v
      /\ t.ajustes = l.ajustes /\ t.firmware = l.firmware
  BY DEF TrasAcuse, Filas
<1>4. /\ n.habilitada \in BOOLEAN /\ n.aplicada \in {v, f.aplicada}
      /\ n.ajustes = f.ajustes /\ n.firmware = f.firmware
  BY <1>2, <1>3 DEF Filas
<1>5. n = [habilitada |-> n.habilitada, aplicada |-> n.aplicada,
           ajustes |-> n.ajustes, firmware |-> n.firmware]
  BY <1>2
<1> HIDE DEF n
<1>6. n \in Filas BY <1>4, <1>5 DEF Filas
<1> QED BY <1>4, <1>6 DEF n

-----------------------------------------------------------------------------
(* Type correctness.                                                       *)

LEMMA TipoInicia == Init => TypeOK
BY ActualEs, EntregaAssumption
   DEF Init, TypeOK, Filas, Versiones, Contenidos, Sesiones, Libre

\* What a request of the device does to the sessions.
LEMMA PideEs ==
  ASSUME TypeOK, NEW p \in Peticiones, NEW s, Pide(p, s)
  PROVE  /\ espera = Nulo /\ espera' = p
         /\ peticiones' = [peticiones EXCEPT ![p] = s]
         /\ UNCHANGED <<fila, equipos, corre, vigentes>>
BY DEF Pide

LEMMA TipoSigue == TypeOK /\ [Next]_vars => TypeOK'
<1> SUFFICES ASSUME TypeOK, [Next]_vars PROVE TypeOK'
  OBVIOUS
<1> USE EntregaAssumption
<1>1. ASSUME Edita, fila' \in Filas, equipos' \in Contenidos PROVE TypeOK'
  <2>1. Actual' \in Versiones
    <3>1. Actual' = [ajustes |-> fila'.ajustes, firmware |-> fila'.firmware,
                     equipos |-> equipos']
      BY HuellaParte DEF Actual
    <3> QED BY <1>1, <3>1 DEF Versiones, Filas
  <2> QED BY <1>1, <2>1 DEF TypeOK, Edita
<1>2. CASE EditaGateway
  BY <1>1, <1>2 DEF EditaGateway, TypeOK, Filas, Siguientes
<1>3. CASE EditaEquipos
  BY <1>1, <1>3 DEF EditaEquipos, TypeOK, Siguientes
<1>4. CASE Heartbeat
  BY <1>1, <1>4 DEF Heartbeat, TypeOK, Filas, Siguientes
<1>5. CASE Interruptor
  BY <1>5 DEF Interruptor, TypeOK, Filas
<1>6. CASE Abandona
  BY <1>6 DEF Abandona, TypeOK
<1>7. ASSUME NEW p \in Peticiones, PideConfig(p) PROVE TypeOK'
  BY <1>7, PideEs DEF PideConfig, TypeOK, Sesiones, Libre
<1>8. ASSUME NEW p \in Peticiones, PideAcuse(p) PROVE TypeOK'
  BY <1>8, PideEs DEF PideAcuse, TypeOK, Sesiones, Libre
<1>9. ASSUME NEW p \in Peticiones, Responde(p), UNCHANGED <<equipos, vigentes>>,
             fila' \in Filas, corre' \in Versiones \cup {Nulo}
      PROVE  TypeOK'
  BY <1>9 DEF Responde, TypeOK, Sesiones
<1>10. ASSUME NEW p \in Peticiones, Sirve(p) PROVE TypeOK'
  <2>1. peticiones[p].leida \in Filas
    BY <1>10 DEF Sirve, TypeOK, Sesiones, Libre
  <2>2. corre' \in Versiones \cup {Nulo}
    BY <1>10, <2>1, HuellaParte DEF Sirve, TypeOK, Versiones, Filas
  <2> QED BY <1>9, <1>10, <2>2 DEF Sirve, TypeOK
<1>11. ASSUME NEW p \in Peticiones, Comprueba(p) PROVE TypeOK'
  <2>1. peticiones[p] \in [fase : {"acuse", "escribe"}, leida : Filas,
                           version : Versiones]
    BY <1>11 DEF Comprueba, TypeOK, Sesiones, Libre
  <2>2. CASE Responde(p)
    BY <1>9, <1>11, <2>2 DEF Comprueba, TypeOK
  <2>3. CASE /\ peticiones' = [peticiones EXCEPT ![p].fase = "escribe"]
             /\ UNCHANGED espera
    <3>1. [peticiones[p] EXCEPT !.fase = "escribe"] \in Sesiones \ {Libre}
      BY <2>1 DEF Sesiones, Libre
    <3> QED BY <1>11, <2>3, <3>1 DEF Comprueba, TypeOK
  <2> QED BY <1>11, <2>2, <2>3 DEF Comprueba
<1>12. ASSUME NEW p \in Peticiones, Confirma(p) PROVE TypeOK'
  <2>1. peticiones[p].leida \in Filas /\ peticiones[p].version \in Versiones
    BY <1>12 DEF Confirma, TypeOK, Sesiones, Libre
  <2>2. fila' \in Filas
    BY <1>12, <2>1, MezclaEs DEF Confirma, TypeOK
  <2> QED BY <1>9, <1>12, <2>2 DEF Confirma, TypeOK
<1>13. CASE UNCHANGED vars
  BY <1>13 DEF vars, TypeOK
<1> QED
  BY <1>2, <1>3, <1>4, <1>5, <1>6, <1>7, <1>8, <1>10, <1>11, <1>12, <1>13
  DEF Next, Servidor

\* Rows, sessions, the device and what it waits for keep their types.
THEOREM TipoCorrecto == Spec => []TypeOK
BY TipoInicia, TipoSigue, PTL DEF Spec

-----------------------------------------------------------------------------
(* What is on record as applied, when contents never come back.            *)

\* The types the leaves below need, as plain arithmetic.
LEMMA SesionEs ==
  ASSUME TypeOK, NEW p \in Peticiones
  PROVE  /\ peticiones[p].fase \in {"baja", "acuse", "escribe"} =>
              peticiones[p] # Libre /\ peticiones[p].leida \in Filas
         /\ peticiones[p].fase \in {"acuse", "escribe"} =>
              peticiones[p].version \in Versiones
         /\ peticiones[p] # Libre =>
              peticiones[p].fase \in {"baja", "acuse", "escribe"}
BY DEF TypeOK, Sesiones, Libre

LEMMA InvInicia == Init => Inv
BY ActualEs, EntregaAssumption
   DEF Init, Inv, AplicadaFueVigente, Ordenadas, Pendientes, LeidaAntes,
       BajaDespues, AcuseAntes, AcuseEntero, Libre

\* An edit makes one part newer and leaves the rest alone.
LEMMA EditaConserva ==
  ASSUME TypeOK, Inv, Edita, fila' \in Filas, equipos' \in Contenidos,
         fila'.aplicada = fila.aplicada,
         \/ fila' = fila /\ equipos < equipos'
         \/ /\ equipos' = equipos
            /\ fila.ajustes <= fila'.ajustes /\ fila.firmware <= fila'.firmware
            /\ fila.ajustes < fila'.ajustes \/ fila.firmware < fila'.firmware
  PROVE  Inv'
<1> USE EntregaAssumption
<1>1. /\ Actual' = [ajustes |-> fila'.ajustes, firmware |-> fila'.firmware,
                    equipos |-> equipos']
      /\ vigentes' = vigentes \cup {Actual'}
      /\ UNCHANGED <<peticiones, corre, espera>>
  BY HuellaParte DEF Actual, Edita
<1>2. Hasta(Actual, Actual')
  BY <1>1, ActualEs DEF Hasta, TypeOK, Filas, Contenidos
<1>3. Actual' \in vigentes' /\ AplicadaFueVigente'
  BY <1>1 DEF Inv, AplicadaFueVigente
<1>4. Ordenadas'
  <2>1. ASSUME corre # Nulo PROVE Hasta(corre, Actual')
    BY <1>1, <1>2, <2>1, ActualEs
    DEF Inv, Ordenadas, Hasta, TypeOK, Filas, Versiones, Contenidos
  <2>2. ASSUME corre # Nulo, corre.ajustes = fila'.ajustes,
               corre.firmware = fila'.firmware
        PROVE  corre \in vigentes'
    <3>1. Hasta(corre, Actual) BY <2>2 DEF Inv, Ordenadas
    <3>2. fila' = fila
      BY <2>2, <3>1, ActualEs DEF Hasta, TypeOK, Filas, Contenidos
    <3> QED BY <1>1, <2>2, <3>2 DEF Inv, Ordenadas, EnteraSi
  <2> QED BY <1>1, <2>1, <2>2 DEF Inv, Ordenadas, EnteraSi
<1>5. ASSUME NEW p \in Peticiones PROVE Pendientes(p)'
  <2>1. Pendientes(p) BY DEF Inv
  <2>2. LeidaAntes(p)'
    BY <1>1, <2>1, SesionEs
    DEF Pendientes, LeidaAntes, TypeOK, Filas, Contenidos
  <2>3. BajaDespues(p)' /\ AcuseAntes(p)'
    BY <1>1, <2>1 DEF Pendientes, BajaDespues, AcuseAntes
  <2>4. AcuseEntero(p)'
    BY <1>1, <2>1 DEF Pendientes, AcuseEntero, EnteraSi
  <2> QED BY <2>2, <2>3, <2>4 DEF Pendientes
<1> QED BY <1>3, <1>4, <1>5 DEF Inv

\* A request comes in: its session holds the row on file.
LEMMA PideConserva ==
  ASSUME TypeOK, Inv, NEW p \in Peticiones, NEW s,
         Pide(p, s),
         \/ s = [fase |-> "baja", leida |-> fila]
         \/ corre # Nulo /\ s = [fase |-> "acuse", leida |-> fila, version |-> corre]
  PROVE  Inv'
<1>1. /\ UNCHANGED <<fila, equipos, corre, vigentes>> /\ espera' = p
      /\ peticiones'[p] = s
      /\ \A q \in Peticiones \ {p} : peticiones'[q] = peticiones[q]
      /\ espera = Nulo
  BY DEF Pide, TypeOK
<1>2. Actual' = Actual BY <1>1 DEF Actual
<1>3. ASSUME NEW q \in Peticiones \ {p} PROVE Pendientes(q)'
  BY <1>1, <1>3 DEF Inv, Pendientes, LeidaAntes, BajaDespues, AcuseAntes,
                    AcuseEntero, EnteraSi
<1>4. Pendientes(p)'
  <2>1. LeidaAntes(p)'
    BY <1>1 DEF LeidaAntes, TypeOK, Filas, Contenidos
  <2>2. corre # Nulo => Hasta(corre, Actual) /\ EnteraSi(corre, fila)
    BY DEF Inv, Ordenadas
  <2>3. BajaDespues(p)'
    BY <1>1, <2>2, ActualEs DEF BajaDespues, Hasta
  <2>4. AcuseAntes(p)'
    BY <1>1 DEF AcuseAntes, Hasta, TypeOK, Versiones, Contenidos
  <2>5. AcuseEntero(p)'
    BY <1>1, <2>2 DEF AcuseEntero, EnteraSi
  <2> QED BY <2>1, <2>3, <2>4, <2>5 DEF Pendientes
<1> QED
  BY <1>1, <1>2, <1>3, <1>4
  DEF Inv, AplicadaFueVigente, Ordenadas, EnteraSi

\* A request that ends without a word to the device, or the device gives up.
LEMMA AcabaConserva ==
  ASSUME TypeOK, Inv, UNCHANGED <<fila, equipos, corre, vigentes>>,
         espera' \in {espera, Nulo},
         \A q \in Peticiones : peticiones'[q] \in {peticiones[q], Libre}
  PROVE  Inv'
<1>1. Actual' = Actual BY DEF Actual
<1>2. ASSUME NEW q \in Peticiones PROVE Pendientes(q)'
  BY <1>2, EntregaAssumption
  DEF Inv, Pendientes, LeidaAntes, BajaDespues, AcuseAntes, AcuseEntero,
      EnteraSi, Libre
<1> QED BY <1>1, <1>2 DEF Inv, AplicadaFueVigente, Ordenadas, EnteraSi

\* The document is served: what the device takes is newer than what it had,
\* and no newer than what is on file.
LEMMA SirveConserva ==
  ASSUME TypeOK, Inv, NEW p \in Peticiones, Sirve(p)
  PROVE  Inv'
<1> USE EntregaAssumption
<1> DEFINE l == peticiones[p].leida
           d == [ajustes |-> l.ajustes, firmware |-> l.firmware,
                 equipos |-> equipos]
<1>1. /\ UNCHANGED <<fila, equipos, vigentes>>
      /\ espera' \in {espera, Nulo} /\ espera' # p
      /\ \A q \in Peticiones : peticiones'[q] \in {peticiones[q], Libre}
      /\ peticiones[p].fase = "baja"
  BY DEF Sirve, Responde, TypeOK
<1>2. CASE corre' = corre
  BY <1>1, <1>2, AcabaConserva
<1>3. CASE espera = p /\ corre' = d
  <2>1. l \in Filas /\ Pendientes(p) /\ peticiones[p] # Libre
    BY <1>1, SesionEs DEF Inv
  <2>2. /\ l.ajustes <= fila.ajustes /\ l.firmware <= fila.firmware
        /\ corre # Nulo => corre.ajustes <= l.ajustes /\ corre.firmware <= l.firmware
    BY <1>1, <1>3, <2>1 DEF Pendientes, LeidaAntes, BajaDespues
  <2>3. Actual' = Actual BY <1>1 DEF Actual
  <2>4. corre' \in Versiones /\ corre' # Nulo
    BY <1>3, <2>1 DEF TypeOK, Filas, Versiones
  <2>5. Hasta(corre', Actual)
    BY <1>3, <2>2, ActualEs DEF Hasta, TypeOK, Contenidos
  <2>6. EnteraSi(corre', fila)
    BY <1>3, ActualEs DEF EnteraSi, Inv
  <2>7. ASSUME corre # Nulo, NEW v \in Versiones, Hasta(v, corre)
        PROVE  Hasta(v, corre')
    BY <1>3, <2>1, <2>2, <2>7, ActualEs
    DEF Inv, Ordenadas, Hasta, TypeOK, Versiones, Filas, Contenidos
  <2>8. Ordenadas'
    BY <1>1, <2>3, <2>4, <2>5, <2>6, <2>7
    DEF Inv, Ordenadas, EnteraSi, TypeOK, Filas
  <2>9. ASSUME NEW q \in Peticiones PROVE Pendientes(q)'
    <3>1. CASE peticiones'[q] = Libre
      BY <1>1, <3>1 DEF Pendientes, LeidaAntes, BajaDespues, AcuseAntes,
                        AcuseEntero, Libre
    <3>2. CASE peticiones'[q] = peticiones[q]
      <4>1. Pendientes(q) BY DEF Inv
      <4>2. LeidaAntes(q)' BY <1>1, <3>2, <4>1 DEF Pendientes, LeidaAntes
      <4>3. BajaDespues(q)' BY <1>1, <1>3 DEF BajaDespues, TypeOK
      <4>4. AcuseAntes(q)'
        BY <2>4, <2>7, <3>2, <4>1, SesionEs DEF Pendientes, AcuseAntes
      <4>5. AcuseEntero(q)'
        BY <1>1, <3>2, <4>1 DEF Pendientes, AcuseEntero, EnteraSi
      <4> QED BY <4>2, <4>3, <4>4, <4>5 DEF Pendientes
    <3> QED BY <1>1, <3>1, <3>2
  <2> QED BY <1>1, <2>3, <2>8, <2>9 DEF Inv, AplicadaFueVigente
<1> QED BY <1>2, <1>3, HuellaParte DEF Sirve

\* The version compared equal: its row part is the one the session read, so it
\* was current once.
LEMMA CompruebaConserva ==
  ASSUME TypeOK, Inv, NEW p \in Peticiones, Comprueba(p)
  PROVE  Inv'
<1> DEFINE q == peticiones[p]
<1>1. UNCHANGED <<fila, equipos, corre, vigentes>> /\ q.fase = "acuse"
  BY DEF Comprueba
<1>2. CASE Responde(p)
  <2>1. /\ espera' \in {espera, Nulo}
        /\ \A r \in Peticiones : peticiones'[r] \in {peticiones[r], Libre}
    BY <1>2 DEF Responde, TypeOK
  <2> QED BY <1>1, <2>1, AcabaConserva
<1>3. CASE /\ peticiones' = [peticiones EXCEPT ![p].fase = "escribe"]
           /\ UNCHANGED espera
           /\ q.version = [ajustes |-> q.leida.ajustes,
                           firmware |-> q.leida.firmware, equipos |-> equipos]
  <2>1. /\ peticiones'[p].fase = "escribe" /\ peticiones'[p].leida = q.leida
        /\ peticiones'[p].version = q.version
        /\ \A r \in Peticiones \ {p} : peticiones'[r] = peticiones[r]
    BY <1>1, <1>3, SesionEs DEF TypeOK, Sesiones, Libre
  <2>2. Actual' = Actual BY <1>1 DEF Actual
  <2>3. Pendientes(p) /\ q # Libre BY <1>1, SesionEs DEF Inv
  <2>4. Pendientes(p)'
    BY <1>1, <1>3, <2>1, <2>3
    DEF Pendientes, LeidaAntes, BajaDespues, AcuseAntes, AcuseEntero, EnteraSi
  <2>5. ASSUME NEW r \in Peticiones \ {p} PROVE Pendientes(r)'
    BY <1>1, <1>3, <2>1, <2>5
    DEF Inv, Pendientes, LeidaAntes, BajaDespues, AcuseAntes, AcuseEntero,
        EnteraSi
  <2> QED
    BY <1>1, <2>2, <2>4, <2>5
    DEF Inv, AplicadaFueVigente, Ordenadas, EnteraSi
<1> QED BY <1>2, <1>3, HuellaParte DEF Comprueba, AcuseVale

LEMMA ConfirmaConserva ==
  ASSUME TypeOK, Inv, NEW p \in Peticiones, Confirma(p)
  PROVE  Inv'
<1> DEFINE q == peticiones[p]
<1>1. /\ q.fase = "escribe" /\ q # Libre /\ Pendientes(p)
      /\ q.leida \in Filas /\ q.version \in Versiones
  BY SesionEs DEF Confirma, Inv
<1>2. /\ fila'.ajustes = fila.ajustes /\ fila'.firmware = fila.firmware
      /\ fila'.aplicada \in {q.version, fila.aplicada}
  BY <1>1, MezclaEs DEF Confirma, TypeOK
<1>3. /\ UNCHANGED <<equipos, corre, vigentes>> /\ espera' \in {espera, Nulo}
      /\ \A r \in Peticiones : peticiones'[r] \in {peticiones[r], Libre}
  BY DEF Confirma, Responde, TypeOK
<1>4. Actual' = Actual BY <1>2, <1>3, HuellaParte DEF Actual
<1>5. AplicadaFueVigente'
  BY <1>1, <1>2, <1>3 DEF Inv, AplicadaFueVigente, Pendientes, AcuseEntero
<1>6. Ordenadas'
  BY <1>1, <1>2, <1>3, <1>4
  DEF Inv, Ordenadas, EnteraSi, Pendientes, AcuseAntes
<1>7. ASSUME NEW r \in Peticiones PROVE Pendientes(r)'
  BY <1>2, <1>3, <1>7, EntregaAssumption
  DEF Inv, Pendientes, LeidaAntes, BajaDespues, AcuseAntes, AcuseEntero,
      EnteraSi, Libre
<1> QED BY <1>3, <1>4, <1>5, <1>6, <1>7 DEF Inv

LEMMA InvSigue ==
  ASSUME ~Deshace PROVE TypeOK /\ Inv /\ [Next]_vars => Inv'
<1> SUFFICES ASSUME TypeOK, Inv, [Next]_vars PROVE Inv'
  OBVIOUS
<1>1. CASE EditaGateway
  BY <1>1, EditaConserva
  DEF EditaGateway, TypeOK, Filas, Siguientes, Contenidos
<1>2. CASE EditaEquipos
  BY <1>2, EditaConserva DEF EditaEquipos, TypeOK, Siguientes, Contenidos
<1>3. CASE Heartbeat
  BY <1>3, EditaConserva DEF Heartbeat, TypeOK, Filas, Siguientes, Contenidos
<1>4. CASE Interruptor
  <2>1. /\ fila'.ajustes = fila.ajustes /\ fila'.firmware = fila.firmware
        /\ fila'.aplicada = fila.aplicada
        /\ UNCHANGED <<equipos, peticiones, corre, espera, vigentes>>
    BY <1>4 DEF Interruptor, TypeOK, Filas
  <2>2. Actual' = Actual BY <2>1, HuellaParte DEF Actual
  <2> QED
    BY <2>1, <2>2
    DEF Inv, AplicadaFueVigente, Ordenadas, EnteraSi, Pendientes, LeidaAntes,
        BajaDespues, AcuseAntes, AcuseEntero
<1>5. CASE Abandona
  BY <1>5, AcabaConserva DEF Abandona
<1>6. ASSUME NEW p \in Peticiones, PideConfig(p) \/ PideAcuse(p) PROVE Inv'
  BY <1>6, PideConserva DEF PideConfig, PideAcuse
<1>7. ASSUME NEW p \in Peticiones, Servidor(p) PROVE Inv'
  BY <1>7, SirveConserva, CompruebaConserva, ConfirmaConserva DEF Servidor
<1>8. CASE UNCHANGED vars
  BY <1>8, AcabaConserva DEF vars
<1> QED BY <1>1, <1>2, <1>3, <1>4, <1>5, <1>6, <1>7, <1>8 DEF Next

\* Whatever the interleaving, the version on record as applied was once the
\* whole document of the gateway (the comparison of acknowledge).
THEOREM FueVigente ==
  ASSUME ~Deshace PROVE Spec => []AplicadaFueVigente
<1>1. Inv => AplicadaFueVigente BY DEF Inv
<1> QED BY TipoInicia, TipoSigue, InvInicia, InvSigue, <1>1, PTL DEF Spec

\* A gateway the panel shows as up to date runs the current version: applied is
\* no newer than running, running no newer than current, and the ends meet.
THEOREM DesfaseSeVe ==
  ASSUME ~Deshace PROVE Spec => []DesfaseVisible
<1>1. TypeOK /\ Inv => DesfaseVisible
  <2> SUFFICES ASSUME TypeOK, Inv, fila.aplicada = Actual PROVE corre = Actual
    BY DEF DesfaseVisible, Desactualizada
  <2>1. Actual \in Versiones /\ Actual # Nulo
    BY EntregaAssumption DEF TypeOK, Inv
  <2>2. corre \in Versiones /\ Hasta(Actual, corre) /\ Hasta(corre, Actual)
    BY <2>1 DEF Inv, Ordenadas, TypeOK
  <2> QED BY <2>1, <2>2 DEF Hasta, Versiones, Contenidos
<1> QED BY TipoInicia, TipoSigue, InvInicia, InvSigue, <1>1, PTL DEF Spec

=============================================================================
