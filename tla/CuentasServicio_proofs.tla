----------------------- MODULE CuentasServicio_proofs -----------------------
(***************************************************************************)
(* Type correctness, LlavesRecientes and SecretoNoVuelve of module         *)
(* CuentasServicio, for any number of accounts, requests and secrets, and  *)
(* any life of accounts and tokens.                                        *)
(***************************************************************************)
EXTENDS CuentasServicio, TLAPS

USE ServiciosAssumption

\* A request that will put a new secret on file.
Rota(q) ==
  q.fase = "escribe" /\ q.nueva # Borrada /\ q.nueva.secreto # q.leida.secreto

\* The tokens about to be handed over are as recent as the ones that were.
PorEntregar ==
  \A p \in Peticiones :
    peticiones[p].fase = "emite" /\ peticiones[p].llave # Nulo =>
      retirado[peticiones[p].llave.sub][peticiones[p].llave.secreto]
        <= VidaServicio - peticiones[p].llave.queda

\* Secrets are generated in order, one to each request, and used after.
Generados ==
  /\ \A s \in Servicios : \A n \in fueron[s] : n <= emitidos[s]
  /\ \A s \in Servicios : servicios[s] = SinCrear => emitidos[s] = 0
  /\ \A p \in Peticiones : Rota(peticiones[p]) =>
       /\ peticiones[p].nueva.secreto <= emitidos[peticiones[p].id]
       /\ peticiones[p].nueva.secreto \notin fueron[peticiones[p].id]
  /\ \A p, r \in Peticiones :
       (Rota(peticiones[p]) /\ Rota(peticiones[r]) /\ p # r
          /\ peticiones[p].id = peticiones[r].id)
       => peticiones[p].nueva.secreto # peticiones[r].nueva.secreto

Escrituras ==
  [fase : {"escribe"}, id : Servicios, leida : Filas, nueva : Filas \cup {Borrada}]

Entregas == [fase : {"emite"}, llave : Llaves \cup {Nulo}, id : Servicios]

-----------------------------------------------------------------------------
LEMMA Distintas ==
  SinCrear \notin Filas /\ Borrada \notin Filas /\ SinCrear # Borrada
BY DEF Filas, SinCrear, Borrada

LEMMA MezclaFila ==
  ASSUME NEW f \in Filas, NEW l \in Filas, NEW n \in Filas
  PROVE  /\ Mezcla(f, l, n) \in Filas
         /\ Mezcla(f, l, n).secreto =
              IF n.secreto # l.secreto THEN n.secreto ELSE f.secreto
BY DEF Filas, Columnas, Mezcla

LEMMA VenceFila ==
  ASSUME NEW f
  PROVE  /\ f \in Filas => Vence(f) \in Filas /\ Vence(f).secreto = f.secreto
         /\ f \notin Filas => Vence(f) = f
<1>1. CASE f \in Filas /\ f.vida \in 1..MaxVida
  <2>1. f.vida - 1 \in 0..MaxVida
    BY <1>1
  <2> QED BY <1>1, <2>1 DEF Vence, Filas
<1>2. CASE ~(f \in Filas /\ f.vida \in 1..MaxVida)
  BY <1>2 DEF Vence
<1> QED BY <1>1, <1>2

\* Sessions: a free one, a change, a token about to be handed over.
LEMMA TresFases ==
  ASSUME TypeOK, NEW p \in Peticiones
  PROVE  /\ peticiones[p].fase = "escribe" => peticiones[p] \in Escrituras
         /\ peticiones[p].fase = "emite" => peticiones[p] \in Entregas
         /\ peticiones[p] \in {Libre} \cup Escrituras \cup Entregas
         /\ peticiones[p].fase = "libre" => peticiones[p] = Libre
BY DEF TypeOK, Sesiones, Escrituras, Entregas, Libre

LEMMA Fases ==
  /\ Libre.fase = "libre"
  /\ \A q \in Escrituras : q.fase = "escribe"
  /\ \A q \in Entregas : q.fase = "emite"
  /\ Sesiones = {Libre} \cup Escrituras \cup Entregas
BY DEF Libre, Escrituras, Entregas, Sesiones

-----------------------------------------------------------------------------
(* Types.                                                                  *)

\* TypeOK, less the two histories.
Datos ==
  /\ servicios \in [Servicios -> Filas \cup {SinCrear, Borrada}]
  /\ peticiones \in [Peticiones -> Sesiones]
  /\ emitidos \in [Servicios -> 0..MaxSecretos]
  /\ llaves \subseteq Llaves

LEMMA HistoriaTipo ==
  ASSUME TypeOK, Datos', NEW pasa \in BOOLEAN, Historia(pasa)
  PROVE  TypeOK'
<1>1. \A antes \in 0..VidaServicio + 1, ahora \in BOOLEAN :
        Edad(ahora, antes, pasa) \in 0..VidaServicio + 1
  BY DEF Edad
<1>2. retirado' \in [Servicios -> [Secretos -> 0..VidaServicio + 1]]
  <2>1. \A s \in Servicios, n \in Secretos :
          Edad(Usable(servicios'[s]) /\ servicios'[s].secreto = n, retirado[s][n], pasa)
            \in 0..VidaServicio + 1
    BY <1>1 DEF TypeOK
  <2> QED BY <2>1 DEF Historia
<1>3. fueron' \in [Servicios -> SUBSET Secretos]
  BY DEF Historia, TypeOK, Datos, Filas
<1>4. \A s \in Servicios : Existe(s)' => servicios'[s].secreto \in fueron'[s]
  BY DEF Historia, Existe
<1> QED BY <1>2, <1>3, <1>4 DEF TypeOK, Datos

LEMMA CreateDatos ==
  ASSUME TypeOK, NEW s \in Servicios, Create(s)
  PROVE  Datos'
<1>1. PICK v \in (1..MaxVida) \cup {Nulo} :
        servicios' = [servicios EXCEPT ![s] = [activo |-> TRUE, vida |-> v, secreto |-> 1]]
  BY DEF Create
<1>2. [activo |-> TRUE, vida |-> v, secreto |-> 1] \in Filas
  BY DEF Filas, Secretos
<1>3. emitidos' \in [Servicios -> 0..MaxSecretos]
  BY DEF Create, TypeOK
<1> QED BY <1>1, <1>2, <1>3 DEF Create, TypeOK, Datos

LEMMA LeeDatos ==
  ASSUME TypeOK, NEW p \in Peticiones, NEW s \in Servicios,
         NEW nueva \in Filas \cup {Borrada}, Lee(p, s, nueva),
         emitidos' \in [Servicios -> 0..MaxSecretos]
  PROVE  Datos'
<1>1. [fase |-> "escribe", id |-> s, leida |-> servicios[s], nueva |-> nueva] \in Escrituras
  BY DEF Lee, Existe, Escrituras
<1> QED BY <1>1, Fases DEF Lee, TypeOK, Datos

\* What an edit or a rotation reads and means to write.
LEMMA UpdateLee ==
  ASSUME TypeOK, NEW p \in Peticiones, NEW s \in Servicios, Update(p, s)
  PROVE  \E nueva \in Filas :
           /\ Lee(p, s, nueva) /\ nueva.secreto = servicios[s].secreto
           /\ servicios[s] \in Filas
<1>1. PICK a \in BOOLEAN, v \in (1..MaxVida) \cup {Nulo, servicios[s].vida} :
        Lee(p, s, [servicios[s] EXCEPT !.activo = a, !.vida = v])
  BY DEF Update
<1>2. servicios[s] \in Filas
  BY DEF Update, Existe
<1>3. v \in (0..MaxVida) \cup {Nulo}
  BY <1>2 DEF Filas
<1>4. /\ [servicios[s] EXCEPT !.activo = a, !.vida = v] \in Filas
      /\ [servicios[s] EXCEPT !.activo = a, !.vida = v].secreto = servicios[s].secreto
  BY <1>2, <1>3 DEF Filas
<1> QED BY <1>1, <1>2, <1>4

LEMMA RotateLee ==
  ASSUME TypeOK, NEW p \in Peticiones, NEW s \in Servicios, RotateSecret(p, s)
  PROVE  /\ emitidos' = [emitidos EXCEPT ![s] = @ + 1]
         /\ emitidos' \in [Servicios -> 0..MaxSecretos]
         /\ servicios[s] \in Filas
         /\ \E nueva \in Filas : Lee(p, s, nueva) /\ nueva.secreto = emitidos[s] + 1
<1>1. emitidos[s] \in 0..MaxSecretos /\ emitidos[s] < MaxSecretos
  BY DEF RotateSecret, TypeOK
<1>2. /\ emitidos' = [emitidos EXCEPT ![s] = @ + 1] /\ emitidos'[s] = emitidos[s] + 1
      /\ emitidos' \in [Servicios -> 0..MaxSecretos]
  BY <1>1 DEF RotateSecret, TypeOK
<1>3. servicios[s] \in Filas
  BY DEF RotateSecret, Lee, Existe
<1>4. /\ [servicios[s] EXCEPT !.secreto = emitidos'[s]] \in Filas
      /\ [servicios[s] EXCEPT !.secreto = emitidos'[s]].secreto = emitidos[s] + 1
  BY <1>1, <1>2, <1>3 DEF Filas, Secretos
<1> QED BY <1>2, <1>3, <1>4 DEF RotateSecret

LEMMA PanelDatos ==
  ASSUME TypeOK, NEW p \in Peticiones, NEW s \in Servicios,
         Update(p, s) \/ RotateSecret(p, s) \/ Delete(p, s)
  PROVE  Datos'
<1>1. CASE Update(p, s)
  BY <1>1, UpdateLee, LeeDatos DEF Update, TypeOK
<1>2. CASE RotateSecret(p, s)
  BY <1>2, RotateLee, LeeDatos
<1>3. CASE Delete(p, s)
  BY <1>3, LeeDatos DEF Delete, TypeOK
<1> QED BY <1>1, <1>2, <1>3

LEMMA CommitDatos ==
  ASSUME TypeOK, NEW p \in Peticiones, Commit(p)
  PROVE  Datos'
<1> DEFINE q == peticiones[p]
<1>1. q \in Escrituras
  BY TresFases DEF Commit
<1>2. CASE ~Existe(q.id) \/ q.nueva = Borrada
  BY <1>1, <1>2, Fases DEF Commit, Responde, TypeOK, Datos, Escrituras
<1>3. CASE ~(~Existe(q.id) \/ q.nueva = Borrada)
  <2>1. Mezcla(servicios[q.id], q.leida, q.nueva) \in Filas
    BY <1>1, <1>3, MezclaFila DEF Existe, Escrituras
  <2>2. servicios' = [servicios EXCEPT ![q.id] = Mezcla(servicios[q.id], q.leida, q.nueva)]
    BY <1>3 DEF Commit
  <2>3. servicios' \in [Servicios -> Filas \cup {SinCrear, Borrada}]
    <3> HIDE DEF q
    <3> QED BY <2>1, <2>2 DEF TypeOK
  <2>4. peticiones' \in [Peticiones -> Sesiones]
    BY Fases DEF Commit, Responde, TypeOK
  <2> QED BY <2>3, <2>4 DEF Commit, Responde, TypeOK, Datos
<1> QED BY <1>2, <1>3

LEMMA TokenDatos ==
  ASSUME TypeOK, NEW p \in Peticiones,
         IssueToken(p) \/ \E s \in Servicios : PideToken(p, s)
  PROVE  Datos'
<1>1. CASE IssueToken(p)
  <2>1. peticiones[p] \in Entregas
    BY <1>1, TresFases DEF IssueToken
  <2>2. llaves' \subseteq Llaves
    BY <1>1, <2>1 DEF IssueToken, Entregas, TypeOK
  <2> QED BY <1>1, <2>2, Fases DEF IssueToken, Responde, TypeOK, Datos
<1>2. ASSUME NEW s \in Servicios, PideToken(p, s) PROVE Datos'
  <2> PICK n \in Secretos :
        peticiones' = [peticiones EXCEPT ![p] = [fase |-> "emite", id |-> s,
          llave |-> [sub |-> s, secreto |-> n, queda |-> VidaServicio]]]
    BY <1>2 DEF PideToken
  <2>1. [sub |-> s, secreto |-> n, queda |-> VidaServicio] \in Llaves
    BY DEF Llaves
  <2>2. [fase |-> "emite", id |-> s,
         llave |-> [sub |-> s, secreto |-> n, queda |-> VidaServicio]] \in Entregas
    BY <2>1 DEF Entregas
  <2> QED BY <1>2, <2>2, Fases DEF PideToken, TypeOK, Datos
<1> QED BY <1>1, <1>2

\* An instant takes one from what is left, and nothing else.
LEMMA VenceSesionTipo ==
  ASSUME NEW q \in Sesiones
  PROVE  /\ VenceSesion(q) \in Sesiones /\ VenceSesion(q).fase = q.fase
         /\ q.fase = "escribe" =>
              /\ VenceSesion(q).id = q.id
              /\ VenceSesion(q).leida.secreto = q.leida.secreto
              /\ VenceSesion(q).nueva = Borrada <=> q.nueva = Borrada
              /\ q.nueva # Borrada => VenceSesion(q).nueva.secreto = q.nueva.secreto
         /\ q.fase = "emite" => VenceSesion(q).llave = VenceLlave(q.llave)
<1>1. CASE q = Libre
  BY <1>1, Fases DEF VenceSesion
<1>2. CASE q \in Escrituras
  <2>1. VenceSesion(q) = [q EXCEPT !.leida = Vence(@), !.nueva = Vence(@)]
    BY <1>2, Fases DEF VenceSesion
  <2>2. q.leida \in Filas /\ q.nueva \in Filas \cup {Borrada} /\ q.id \in Servicios
    BY <1>2 DEF Escrituras
  <2>3. Vence(q.leida) \in Filas /\ Vence(q.leida).secreto = q.leida.secreto
    BY <2>2, VenceFila
  <2>4. /\ q.nueva \in Filas => Vence(q.nueva) \in Filas /\ Vence(q.nueva).secreto = q.nueva.secreto
        /\ q.nueva = Borrada => Vence(q.nueva) = Borrada
    BY VenceFila, Distintas
  <2>5. VenceSesion(q) = [fase |-> "escribe", id |-> q.id, leida |-> Vence(q.leida),
                          nueva |-> Vence(q.nueva)]
    BY <1>2, <2>1 DEF Escrituras
  <2>6. VenceSesion(q) \in Escrituras
    BY <2>2, <2>3, <2>4, <2>5 DEF Escrituras
  <2> QED BY <1>2, <2>2, <2>3, <2>4, <2>5, <2>6, Fases, Distintas
<1>3. CASE q \in Entregas
  <2>1. VenceSesion(q) = [q EXCEPT !.llave = VenceLlave(@)]
    BY <1>3, Fases DEF VenceSesion
  <2>2. VenceLlave(q.llave) \in Llaves \cup {Nulo}
    BY <1>3 DEF VenceLlave, Entregas, Llaves
  <2>3. VenceSesion(q) \in Entregas /\ VenceSesion(q).llave = VenceLlave(q.llave)
    BY <1>3, <2>1, <2>2 DEF Entregas
  <2> QED BY <1>3, <2>3, Fases
<1> QED BY <1>1, <1>2, <1>3, Fases

LEMMA PasaDatos ==
  ASSUME TypeOK, Pasa
  PROVE  Datos'
<1>1. llaves' \subseteq Llaves
  BY DEF Pasa, Gasta, TypeOK, Llaves
<1>2. peticiones' \in [Peticiones -> Sesiones]
  BY VenceSesionTipo DEF Pasa, TypeOK
<1>3. servicios' \in [Servicios -> Filas \cup {SinCrear, Borrada}]
  BY VenceFila DEF Pasa, TypeOK
<1> QED BY <1>1, <1>2, <1>3 DEF Pasa, TypeOK, Datos

LEMMA PasoTipo ==
  ASSUME TypeOK, [Next]_vars
  PROVE  TypeOK'
<1>1. ASSUME Pasa, Historia(TRUE) PROVE TypeOK'
  BY <1>1, PasaDatos, HistoriaTipo
<1>2. ASSUME NEW s \in Servicios, Create(s), Historia(FALSE) PROVE TypeOK'
  BY <1>2, CreateDatos, HistoriaTipo
<1>3. ASSUME NEW p \in Peticiones, Peticion(p), Historia(FALSE) PROVE TypeOK'
  <2>1. Datos'
    BY <1>3, CommitDatos, TokenDatos, PanelDatos DEF Peticion
  <2> QED BY <1>3, <2>1, HistoriaTipo
<1>4. CASE UNCHANGED vars
  BY <1>4 DEF vars, TypeOK, Existe
<1> QED BY <1>1, <1>2, <1>3, <1>4 DEF Next

LEMMA InitTipo == Init => TypeOK
BY Fases, Distintas DEF Init, TypeOK, Existe

\* Every account, request, secret and token on file has its type.
THEOREM TipoCorrecto == Spec => []TypeOK
BY InitTipo, PasoTipo, PTL DEF Spec

-----------------------------------------------------------------------------
(* The histories.                                                          *)

LEMMA RetiradoPaso ==
  ASSUME TypeOK, NEW pasa \in BOOLEAN, Historia(pasa),
         NEW s \in Servicios, NEW n \in Secretos
  PROVE  /\ retirado[s][n] \in Nat /\ retirado'[s][n] \in Nat
         /\ retirado'[s][n] <= retirado[s][n] + 1
         /\ ~pasa => retirado'[s][n] <= retirado[s][n]
         /\ Usable(servicios'[s]) /\ servicios'[s].secreto = n => retirado'[s][n] = 0
<1> DEFINE ahora == Usable(servicios'[s]) /\ servicios'[s].secreto = n
<1>1. retirado[s][n] \in Nat
  BY DEF TypeOK
<1>2. retirado'[s][n] = Edad(ahora, retirado[s][n], pasa)
  BY DEF Historia
<1> HIDE DEF ahora
<1>3. /\ retirado'[s][n] \in Nat /\ retirado'[s][n] <= retirado[s][n] + 1
      /\ ~pasa => retirado'[s][n] <= retirado[s][n]
      /\ ahora => retirado'[s][n] = 0
  BY <1>1, <1>2 DEF Edad
<1> QED BY <1>1, <1>3 DEF ahora

LEMMA FueronPaso ==
  ASSUME TypeOK, NEW pasa \in BOOLEAN, Historia(pasa), NEW s \in Servicios
  PROVE  /\ servicios'[s] \notin Filas => fueron'[s] = fueron[s]
         /\ servicios'[s] \in Filas => fueron'[s] = fueron[s] \cup {servicios'[s].secreto}
         /\ Existe(s) /\ servicios'[s].secreto = servicios[s].secreto => fueron'[s] = fueron[s]
BY DEF TypeOK, Historia

-----------------------------------------------------------------------------
(* LlavesRecientes.                                                        *)

Recientes == LlavesRecientes /\ PorEntregar

LEMMA SigueReciente ==
  ASSUME TypeOK, NEW pasa \in BOOLEAN, Historia(pasa), NEW t \in Llaves,
         retirado[t.sub][t.secreto] <= VidaServicio - t.queda
  PROVE  /\ ~pasa => retirado'[t.sub][t.secreto] <= VidaServicio - t.queda
         /\ retirado'[t.sub][t.secreto] <= VidaServicio - (t.queda - 1)
<1>1. t.sub \in Servicios /\ t.secreto \in Secretos /\ t.queda \in 1..VidaServicio
  BY DEF Llaves
<1>2. /\ retirado[t.sub][t.secreto] \in Nat /\ retirado'[t.sub][t.secreto] \in Nat
      /\ retirado'[t.sub][t.secreto] <= retirado[t.sub][t.secreto] + 1
      /\ ~pasa => retirado'[t.sub][t.secreto] <= retirado[t.sub][t.secreto]
  BY <1>1, RetiradoPaso
<1> QED BY <1>1, <1>2

\* Handing over is of what was pending, and what goes on pending was.
LEMMA RecientesQuietas ==
  ASSUME TypeOK, Recientes, Historia(FALSE),
         \A t \in llaves' :
           \/ t \in llaves
           \/ \E r \in Peticiones :
                peticiones[r].fase = "emite" /\ peticiones[r].llave # Nulo /\ peticiones[r].llave = t,
         \A r \in Peticiones :
           peticiones'[r].fase = "emite" => peticiones'[r] = peticiones[r]
  PROVE  Recientes'
<1>1. \A r \in Peticiones :
        peticiones[r].fase = "emite" /\ peticiones[r].llave # Nulo =>
          peticiones[r].llave \in Llaves
  BY TresFases DEF Entregas
<1>2. ASSUME NEW t \in llaves' PROVE retirado'[t.sub][t.secreto] <= VidaServicio - t.queda
  <2>1. t \in Llaves /\ retirado[t.sub][t.secreto] <= VidaServicio - t.queda
    BY <1>1, <1>2 DEF Recientes, LlavesRecientes, PorEntregar, TypeOK
  <2> QED BY <2>1, SigueReciente
<1>3. ASSUME NEW r \in Peticiones, peticiones'[r].fase = "emite", peticiones'[r].llave # Nulo
      PROVE  retirado'[peticiones'[r].llave.sub][peticiones'[r].llave.secreto]
               <= VidaServicio - peticiones'[r].llave.queda
  <2>1. /\ peticiones'[r] = peticiones[r] /\ peticiones[r].llave \in Llaves
        /\ retirado[peticiones[r].llave.sub][peticiones[r].llave.secreto]
             <= VidaServicio - peticiones[r].llave.queda
    BY <1>1, <1>3 DEF Recientes, PorEntregar
  <2> DEFINE t == peticiones[r].llave
  <2>2. retirado'[t.sub][t.secreto] <= VidaServicio - t.queda
    <3> HIDE DEF t
    <3> QED BY <2>1, SigueReciente DEF t
  <2> QED BY <2>1, <2>2
<1> QED BY <1>2, <1>3 DEF Recientes, LlavesRecientes, PorEntregar

LEMMA RecientesPide ==
  ASSUME TypeOK, TypeOK', Recientes, Historia(FALSE),
         NEW p \in Peticiones, NEW s \in Servicios, PideToken(p, s)
  PROVE  Recientes'
<1> PICK n \in Secretos :
      /\ Verifica(servicios[s], n)
      /\ peticiones' = [peticiones EXCEPT ![p] = [fase |-> "emite", id |-> s,
           llave |-> [sub |-> s, secreto |-> n, queda |-> VidaServicio]]]
  BY DEF PideToken
<1>1. retirado'[s][n] = 0
  BY RetiradoPaso DEF PideToken, Verifica
<1>2. ASSUME NEW t \in llaves' PROVE retirado'[t.sub][t.secreto] <= VidaServicio - t.queda
  <2>1. t \in Llaves /\ retirado[t.sub][t.secreto] <= VidaServicio - t.queda
    BY <1>2 DEF Recientes, LlavesRecientes, TypeOK, PideToken
  <2> QED BY <2>1, SigueReciente
<1>3. ASSUME NEW r \in Peticiones, peticiones'[r].fase = "emite", peticiones'[r].llave # Nulo
      PROVE  retirado'[peticiones'[r].llave.sub][peticiones'[r].llave.secreto]
               <= VidaServicio - peticiones'[r].llave.queda
  <2>1. CASE r = p
    <3>1. peticiones'[r].llave = [sub |-> s, secreto |-> n, queda |-> VidaServicio]
      BY <2>1 DEF TypeOK
    <3> QED BY <1>1, <3>1
  <2>2. CASE r # p
    <3>1. peticiones'[r] = peticiones[r]
      BY <2>2 DEF TypeOK
    <3>2. /\ peticiones[r].llave \in Llaves
          /\ retirado[peticiones[r].llave.sub][peticiones[r].llave.secreto]
               <= VidaServicio - peticiones[r].llave.queda
      BY <1>3, <3>1, TresFases DEF Recientes, PorEntregar, Entregas
    <3> DEFINE t == peticiones[r].llave
    <3>3. retirado'[t.sub][t.secreto] <= VidaServicio - t.queda
      <4> HIDE DEF t
      <4> QED BY <3>2, SigueReciente DEF t
    <3> QED BY <3>1, <3>3
  <2> QED BY <2>1, <2>2
<1> QED BY <1>2, <1>3 DEF Recientes, LlavesRecientes, PorEntregar

LEMMA RecientesPasa ==
  ASSUME TypeOK, Recientes, Pasa, Historia(TRUE)
  PROVE  Recientes'
<1>1. ASSUME NEW x \in Llaves, retirado[x.sub][x.secreto] <= VidaServicio - x.queda,
             NEW t, t = [x EXCEPT !.queda = @ - 1]
      PROVE  retirado'[t.sub][t.secreto] <= VidaServicio - t.queda
  <2>1. t.sub = x.sub /\ t.secreto = x.secreto /\ t.queda = x.queda - 1
    BY <1>1 DEF Llaves
  <2> QED BY <1>1, <2>1, SigueReciente
<1>2. ASSUME NEW t \in llaves' PROVE retirado'[t.sub][t.secreto] <= VidaServicio - t.queda
  <2> PICK x \in llaves : t = [x EXCEPT !.queda = @ - 1]
    BY <1>2 DEF Pasa, Gasta
  <2> QED BY <1>1 DEF Recientes, LlavesRecientes, TypeOK
<1>3. ASSUME NEW r \in Peticiones, peticiones'[r].fase = "emite", peticiones'[r].llave # Nulo
      PROVE  retirado'[peticiones'[r].llave.sub][peticiones'[r].llave.secreto]
               <= VidaServicio - peticiones'[r].llave.queda
  <2>1. peticiones[r] \in Sesiones /\ peticiones'[r] = VenceSesion(peticiones[r])
    BY DEF TypeOK, Pasa
  <2>2. peticiones[r].fase = "emite" /\ peticiones'[r].llave = VenceLlave(peticiones[r].llave)
    BY <1>3, <2>1, VenceSesionTipo
  <2>3. peticiones[r].llave \in Llaves \cup {Nulo}
    BY <2>2, TresFases DEF Entregas
  <2>4. /\ peticiones[r].llave # Nulo
        /\ peticiones'[r].llave = [peticiones[r].llave EXCEPT !.queda = @ - 1]
    BY <1>3, <2>2 DEF VenceLlave
  <2>5. retirado[peticiones[r].llave.sub][peticiones[r].llave.secreto]
          <= VidaServicio - peticiones[r].llave.queda
    BY <2>2, <2>4 DEF Recientes, PorEntregar
  <2> QED BY <1>1, <2>3, <2>4, <2>5
<1> QED BY <1>2, <1>3 DEF Recientes, LlavesRecientes, PorEntregar

LEMMA RecientesPeticion ==
  ASSUME TypeOK, TypeOK', Recientes, Historia(FALSE), NEW p \in Peticiones, Peticion(p)
  PROVE  Recientes'
<1>1. CASE Commit(p)
  BY <1>1, RecientesQuietas, Fases DEF Commit, Responde, TypeOK
<1>2. CASE IssueToken(p)
  <2>1. \A r \in Peticiones : peticiones'[r].fase = "emite" => peticiones'[r] = peticiones[r]
    BY <1>2, Fases DEF IssueToken, Responde, TypeOK
  <2> QED BY <1>2, <2>1, RecientesQuietas DEF IssueToken
<1>3. ASSUME NEW s \in Servicios, NEW nueva, Lee(p, s, nueva) PROVE Recientes'
  <2>1. \A r \in Peticiones : peticiones'[r].fase = "emite" => peticiones'[r] = peticiones[r]
    BY <1>3 DEF Lee, TypeOK
  <2> QED BY <1>3, <2>1, RecientesQuietas DEF Lee
<1>4. ASSUME NEW s \in Servicios, Update(p, s) \/ RotateSecret(p, s) \/ Delete(p, s)
      PROVE  Recientes'
  BY <1>3, <1>4 DEF Update, RotateSecret, Delete
<1> QED BY <1>1, <1>2, <1>4, RecientesPide DEF Peticion

LEMMA RecientesPaso ==
  ASSUME TypeOK, Recientes, [Next]_vars
  PROVE  Recientes'
<1>1. TypeOK'
  BY PasoTipo
<1>2. ASSUME NEW s \in Servicios, Create(s), Historia(FALSE) PROVE Recientes'
  BY <1>2, RecientesQuietas DEF Create
<1>3. CASE UNCHANGED vars
  BY <1>3 DEF vars, Recientes, LlavesRecientes, PorEntregar
<1> QED BY <1>1, <1>2, <1>3, RecientesPasa, RecientesPeticion DEF Next

\* Whatever is rotated, switched off or deleted leaves no token that lives longer
\* than a token does, with any number of requests under way.
THEOREM Llaves_recientes == Spec => []LlavesRecientes
<1>1. Init => Recientes
  BY Fases DEF Init, Recientes, LlavesRecientes, PorEntregar
<1>2. TypeOK /\ Recientes /\ [Next]_vars => Recientes'
  BY RecientesPaso
<1>3. Recientes => LlavesRecientes
  BY DEF Recientes
<1> QED BY <1>1, <1>2, <1>3, TipoCorrecto, PTL DEF Spec

-----------------------------------------------------------------------------
(* SecretoNoVuelve.                                                        *)

\* Nothing is generated, nothing new is on file, and what will be written was
\* going to be.
LEMMA GeneradosQuietos ==
  ASSUME Generados, emitidos' = emitidos,
         \A s \in Servicios : fueron'[s] = fueron[s],
         \A s \in Servicios : servicios'[s] = SinCrear => servicios[s] = SinCrear,
         \A r \in Peticiones : Rota(peticiones'[r]) =>
           /\ Rota(peticiones[r]) /\ peticiones'[r].id = peticiones[r].id
           /\ peticiones'[r].nueva.secreto = peticiones[r].nueva.secreto,
         \A r \in Peticiones : Rota(peticiones[r]) => peticiones[r].id \in Servicios
  PROVE  Generados'
BY DEF Generados

LEMMA RotaId ==
  ASSUME TypeOK, NEW r \in Peticiones, Rota(peticiones[r])
  PROVE  /\ peticiones[r].id \in Servicios /\ peticiones[r].leida \in Filas
         /\ peticiones[r].nueva \in Filas
BY TresFases DEF Rota, Escrituras

LEMMA GeneradosLee ==
  ASSUME TypeOK, Generados, Historia(FALSE), NEW p \in Peticiones, NEW s \in Servicios,
         NEW nueva \in Filas \cup {Borrada}, Lee(p, s, nueva), emitidos' = emitidos,
         nueva = Borrada \/ nueva.secreto = servicios[s].secreto
  PROVE  Generados'
<1>1. \A r \in Peticiones : Rota(peticiones'[r]) => peticiones'[r] = peticiones[r]
  BY DEF Lee, TypeOK, Rota
<1>2. \A x \in Servicios : fueron'[x] = fueron[x]
  BY FueronPaso DEF Lee, Existe
<1> QED BY <1>1, <1>2, GeneradosQuietos, RotaId DEF Lee

LEMMA GeneradosRotate ==
  ASSUME TypeOK, Generados, Historia(FALSE), NEW p \in Peticiones, NEW s \in Servicios,
         RotateSecret(p, s)
  PROVE  Generados'
<1> PICK nueva \in Filas : Lee(p, s, nueva) /\ nueva.secreto = emitidos[s] + 1
  BY RotateLee
<1>1. /\ emitidos' = [emitidos EXCEPT ![s] = @ + 1] /\ servicios' = servicios
      /\ servicios[s] \in Filas
  BY RotateLee DEF Lee
<1>2. \A x \in Servicios : fueron'[x] = fueron[x]
  BY <1>1, FueronPaso DEF Existe
<1>3. \A x \in Servicios : emitidos[x] \in Nat /\ emitidos'[x] \in Nat /\ emitidos[x] <= emitidos'[x]
  BY <1>1 DEF TypeOK
<1>4. emitidos'[s] = emitidos[s] + 1
  BY <1>1 DEF TypeOK
<1>5. /\ peticiones'[p].id = s /\ peticiones'[p].nueva.secreto = emitidos[s] + 1
      /\ \A r \in Peticiones \ {p} : peticiones'[r] = peticiones[r]
  BY DEF Lee, TypeOK
<1>6. \A x \in Servicios : \A n \in fueron[x] : n \in Nat /\ n <= emitidos[x]
  BY DEF Generados, TypeOK, Secretos
<1>7. \A x \in Servicios : \A n \in fueron'[x] : n <= emitidos'[x]
  BY <1>2, <1>3, <1>6
<1>8. \A x \in Servicios : servicios'[x] = SinCrear => emitidos'[x] = 0
  BY <1>1, Distintas DEF Generados, TypeOK
<1>9. ASSUME NEW r \in Peticiones, Rota(peticiones'[r])
      PROVE  /\ peticiones'[r].nueva.secreto <= emitidos'[peticiones'[r].id]
             /\ peticiones'[r].nueva.secreto \notin fueron'[peticiones'[r].id]
  <2>1. CASE r = p
    BY <1>2, <1>3, <1>4, <1>5, <1>6, <2>1
  <2>2. CASE r # p
    <3>1. peticiones'[r] = peticiones[r] /\ Rota(peticiones[r])
      BY <1>5, <1>9, <2>2
    <3>2. peticiones[r].id \in Servicios /\ peticiones[r].nueva.secreto \in Nat
      BY <3>1, RotaId DEF Filas, Secretos
    <3> QED BY <1>2, <1>3, <3>1, <3>2 DEF Generados
  <2> QED BY <2>1, <2>2
<1>10. ASSUME NEW r \in Peticiones \ {p}, Rota(peticiones'[r]), peticiones'[r].id = s
       PROVE  peticiones'[r].nueva.secreto \in Nat /\ peticiones'[r].nueva.secreto <= emitidos[s]
  BY <1>5, <1>10, RotaId DEF Generados, Filas, Secretos
<1>11. ASSUME NEW r \in Peticiones, NEW t \in Peticiones, Rota(peticiones'[r]),
              Rota(peticiones'[t]), r # t, peticiones'[r].id = peticiones'[t].id
       PROVE  peticiones'[r].nueva.secreto # peticiones'[t].nueva.secreto
  <2>1. CASE r = p \/ t = p
    BY <1>3, <1>5, <1>10, <1>11, <2>1
  <2>2. CASE r # p /\ t # p
    BY <1>5, <1>11, <2>2 DEF Generados
  <2> QED BY <2>1, <2>2
<1> QED BY <1>7, <1>8, <1>9, <1>11 DEF Generados

LEMMA GeneradosCreate ==
  ASSUME TypeOK, Generados, Historia(FALSE), NEW s \in Servicios, Create(s)
  PROVE  Generados'
<1>1. /\ servicios[s] = SinCrear /\ servicios'[s] \in Filas /\ servicios'[s].secreto = 1
      /\ \A x \in Servicios \ {s} : servicios'[x] = servicios[x]
  BY DEF Create, TypeOK, Filas, Secretos
<1>2. /\ emitidos' = [emitidos EXCEPT ![s] = 1] /\ emitidos[s] = 0 /\ emitidos'[s] = 1
      /\ \A x \in Servicios \ {s} : emitidos'[x] = emitidos[x]
  BY <1>1 DEF Create, TypeOK, Generados
<1>3. fueron[s] = {}
  BY <1>2 DEF Generados, TypeOK, Secretos
<1>4. fueron'[s] = {1} /\ \A x \in Servicios \ {s} : fueron'[x] = fueron[x]
  BY <1>1, <1>3, FueronPaso DEF Existe
<1>5. \A r \in Peticiones : Rota(peticiones[r]) =>
        peticiones[r].id \in Servicios \ {s}
  <2> SUFFICES ASSUME NEW r \in Peticiones, Rota(peticiones[r]), peticiones[r].id = s
               PROVE  FALSE
    BY RotaId
  <2>1. peticiones[r].nueva.secreto \in 1..MaxSecretos
    BY RotaId DEF Filas, Secretos
  <2> QED BY <1>2, <2>1 DEF Generados
<1>6. peticiones' = peticiones
  BY DEF Create
<1> QED BY <1>1, <1>2, <1>4, <1>5, <1>6, Distintas DEF Generados

\* What Commit puts on file: the secret that was there, or a new one.
LEMMA CommitSecreto ==
  ASSUME TypeOK, NEW p \in Peticiones, Commit(p)
  PROVE  LET q == peticiones[p] IN
         /\ q \in Escrituras
         /\ servicios'[q.id] \in Filas \cup {Borrada}
         /\ \A x \in Servicios \ {q.id} : servicios'[x] = servicios[x]
         /\ servicios'[q.id] \in Filas =>
              /\ Existe(q.id)
              /\ servicios'[q.id].secreto =
                   IF Rota(q) THEN q.nueva.secreto ELSE servicios[q.id].secreto
<1> DEFINE q == peticiones[p]
<1>1. q \in Escrituras /\ q.fase = "escribe"
  BY TresFases DEF Commit
<1>2. q.id \in Servicios /\ q.leida \in Filas /\ q.nueva \in Filas \cup {Borrada}
  BY <1>1 DEF Escrituras
<1>3. \A x \in Servicios \ {q.id} : servicios'[x] = servicios[x]
  BY <1>2 DEF Commit, TypeOK
<1>4. CASE ~Existe(q.id) \/ q.nueva = Borrada
  <2>1. servicios'[q.id] = Borrada
    BY <1>2, <1>4 DEF Commit, TypeOK
  <2> QED BY <1>1, <1>3, <2>1, Distintas
<1>5. CASE ~(~Existe(q.id) \/ q.nueva = Borrada)
  <2>1. servicios'[q.id] = Mezcla(servicios[q.id], q.leida, q.nueva)
    BY <1>2, <1>5 DEF Commit, TypeOK
  <2>2. servicios[q.id] \in Filas /\ q.nueva \in Filas
    BY <1>2, <1>5 DEF Existe
  <2>3. /\ servicios'[q.id] \in Filas
        /\ servicios'[q.id].secreto =
             IF q.nueva.secreto # q.leida.secreto THEN q.nueva.secreto
             ELSE servicios[q.id].secreto
    BY <1>2, <2>1, <2>2, MezclaFila
  <2>4. Rota(q) <=> q.nueva.secreto # q.leida.secreto
    BY <1>1, <1>5 DEF Rota
  <2> QED BY <1>1, <1>3, <1>5, <2>3, <2>4
<1> QED BY <1>4, <1>5

LEMMA GeneradosCommit ==
  ASSUME TypeOK, Generados, Historia(FALSE), NEW p \in Peticiones, Commit(p)
  PROVE  Generados'
<1> DEFINE q == peticiones[p]
<1>1. q.id \in Servicios
  BY CommitSecreto DEF Escrituras
<1>2. /\ emitidos' = emitidos
      /\ \A r \in Peticiones : Rota(peticiones'[r]) => r # p /\ peticiones'[r] = peticiones[r]
  BY Fases DEF Commit, Responde, TypeOK, Rota
<1>3. \A x \in Servicios \ {q.id} : servicios'[x] = servicios[x] /\ fueron'[x] = fueron[x]
  BY CommitSecreto, FueronPaso DEF Existe
<1>4. servicios'[q.id] # SinCrear
  BY CommitSecreto, Distintas
<1>5. CASE fueron'[q.id] = fueron[q.id]
  <2>1. \A x \in Servicios : fueron'[x] = fueron[x]
    BY <1>3, <1>5
  <2>2. \A x \in Servicios : servicios'[x] = SinCrear => servicios[x] = SinCrear
    BY <1>3, <1>4
  <2> QED BY <1>2, <2>1, <2>2, GeneradosQuietos, RotaId
<1>6. CASE fueron'[q.id] # fueron[q.id]
  <2>1. servicios'[q.id] \in Filas /\ servicios'[q.id].secreto # servicios[q.id].secreto
    BY <1>1, <1>6, CommitSecreto, FueronPaso DEF Existe
  <2>2. Rota(q) /\ fueron'[q.id] = fueron[q.id] \cup {q.nueva.secreto}
    BY <1>1, <2>1, CommitSecreto, FueronPaso
  <2>3. q.nueva.secreto <= emitidos[q.id]
    BY <2>2 DEF Generados
  <2>4. \A r \in Peticiones : Rota(peticiones'[r]) /\ peticiones'[r].id = q.id =>
          peticiones'[r].nueva.secreto # q.nueva.secreto
    BY <1>2, <2>2 DEF Generados
  <2>5. \A x \in Servicios : \A n \in fueron'[x] : n <= emitidos'[x]
    BY <1>2, <1>3, <2>2, <2>3 DEF Generados
  <2>6. \A x \in Servicios : servicios'[x] = SinCrear => emitidos'[x] = 0
    BY <1>2, <1>3, <1>4 DEF Generados
  <2>7. ASSUME NEW r \in Peticiones, Rota(peticiones'[r])
        PROVE  /\ peticiones'[r].nueva.secreto <= emitidos'[peticiones'[r].id]
               /\ peticiones'[r].nueva.secreto \notin fueron'[peticiones'[r].id]
    <3>1. peticiones'[r] = peticiones[r] /\ Rota(peticiones[r]) /\ peticiones[r].id \in Servicios
      BY <1>2, <2>7, RotaId
    <3>2. /\ peticiones[r].nueva.secreto <= emitidos[peticiones[r].id]
          /\ peticiones[r].nueva.secreto \notin fueron[peticiones[r].id]
      BY <3>1 DEF Generados
    <3>3. CASE peticiones[r].id = q.id
      BY <1>2, <2>2, <2>4, <2>7, <3>1, <3>2, <3>3
    <3>4. CASE peticiones[r].id # q.id
      BY <1>2, <1>3, <3>1, <3>2, <3>4
    <3> QED BY <3>3, <3>4
  <2>8. \A r, t \in Peticiones :
          (Rota(peticiones'[r]) /\ Rota(peticiones'[t]) /\ r # t
             /\ peticiones'[r].id = peticiones'[t].id)
          => peticiones'[r].nueva.secreto # peticiones'[t].nueva.secreto
    BY <1>2 DEF Generados
  <2> QED BY <2>5, <2>6, <2>7, <2>8 DEF Generados
<1> QED BY <1>5, <1>6

LEMMA GeneradosPasa ==
  ASSUME TypeOK, Generados, Pasa, Historia(TRUE)
  PROVE  Generados'
<1>1. \A s \in Servicios :
        /\ servicios[s] \in Filas =>
             servicios'[s] \in Filas /\ servicios'[s].secreto = servicios[s].secreto
        /\ servicios[s] \notin Filas => servicios'[s] = servicios[s]
  BY VenceFila DEF Pasa
<1>2. \A s \in Servicios : fueron'[s] = fueron[s]
  BY <1>1, FueronPaso DEF Existe
<1>3. \A s \in Servicios : servicios'[s] = SinCrear => servicios[s] = SinCrear
  BY <1>1, Distintas
<1>4. ASSUME NEW r \in Peticiones, Rota(peticiones'[r])
      PROVE  /\ Rota(peticiones[r]) /\ peticiones'[r].id = peticiones[r].id
             /\ peticiones'[r].nueva.secreto = peticiones[r].nueva.secreto
  <2>1. peticiones[r] \in Sesiones /\ peticiones'[r] = VenceSesion(peticiones[r])
    BY DEF TypeOK, Pasa
  <2> QED BY <1>4, <2>1, VenceSesionTipo DEF Rota
<1> QED BY <1>2, <1>3, <1>4, GeneradosQuietos, RotaId DEF Pasa

LEMMA GeneradosPeticion ==
  ASSUME TypeOK, Generados, Historia(FALSE), NEW p \in Peticiones, Peticion(p)
  PROVE  Generados'
<1>1. CASE IssueToken(p) \/ \E s \in Servicios : PideToken(p, s)
  <2>1. servicios' = servicios /\ emitidos' = emitidos
    BY <1>1 DEF IssueToken, PideToken, Responde
  <2>2. \A r \in Peticiones : Rota(peticiones'[r]) => peticiones'[r] = peticiones[r]
    BY <1>1, Fases DEF IssueToken, PideToken, Responde, TypeOK, Rota
  <2>3. \A x \in Servicios : fueron'[x] = fueron[x]
    BY <2>1, FueronPaso DEF Existe
  <2> QED BY <2>1, <2>2, <2>3, GeneradosQuietos, RotaId
<1>2. ASSUME NEW s \in Servicios, Update(p, s) PROVE Generados'
  BY <1>2, UpdateLee, GeneradosLee DEF Update
<1>3. ASSUME NEW s \in Servicios, Delete(p, s) PROVE Generados'
  BY <1>3, GeneradosLee DEF Delete
<1> QED BY <1>1, <1>2, <1>3, GeneradosCommit, GeneradosRotate DEF Peticion

LEMMA GeneradosPaso ==
  ASSUME TypeOK, Generados, [Next]_vars
  PROVE  Generados'
<1>1. CASE UNCHANGED vars
  BY <1>1 DEF vars, Generados
<1> QED BY <1>1, GeneradosPasa, GeneradosCreate, GeneradosPeticion DEF Next

NoVuelve ==
  \A s \in Servicios :
    Existe(s) /\ servicios'[s] \in Filas /\ servicios'[s].secreto # servicios[s].secreto
      => servicios'[s].secreto \notin fueron[s]

\* Only Commit changes the secret on file, and what it writes was never there.
LEMMA PasoNoVuelve ==
  ASSUME TypeOK, Generados, [Next]_vars
  PROVE  NoVuelve
<1> SUFFICES ASSUME NEW s \in Servicios, Existe(s), servicios'[s] \in Filas,
                    servicios'[s].secreto # servicios[s].secreto
             PROVE  servicios'[s].secreto \notin fueron[s]
  BY DEF NoVuelve
<1>1. ~Pasa
  BY VenceFila DEF Pasa, Existe
<1>2. ASSUME NEW x \in Servicios, Create(x) PROVE FALSE
  BY <1>2, Distintas DEF Create, TypeOK, Existe
<1>3. ASSUME NEW p \in Peticiones, Peticion(p) PROVE servicios'[s].secreto \notin fueron[s]
  <2>1. Commit(p)
    BY <1>3 DEF Peticion, IssueToken, Update, RotateSecret, Delete, Lee, PideToken
  <2>2. /\ s = peticiones[p].id /\ Rota(peticiones[p])
        /\ servicios'[s].secreto = peticiones[p].nueva.secreto
    BY <2>1, CommitSecreto
  <2> QED BY <2>2 DEF Generados
<1>4. servicios' # servicios
  OBVIOUS
<1> QED BY <1>1, <1>2, <1>3, <1>4 DEF Next, vars

\* A secret that was taken back is never on file again, whatever was being edited
\* when it was rotated, and however many rotations overlap.
THEOREM Secreto_no_vuelve == Spec => SecretoNoVuelve
<1>1. ASSUME Init PROVE Generados
  <2>1. \A p \in Peticiones : ~Rota(peticiones[p])
    BY <1>1, Fases DEF Init, Rota
  <2>2. \A s \in Servicios : emitidos[s] = 0 /\ \A n : n \notin fueron[s]
    BY <1>1 DEF Init
  <2> QED BY <2>1, <2>2 DEF Generados
<1>2. TypeOK /\ Generados /\ [Next]_vars => Generados'
  BY GeneradosPaso
<1>3. TypeOK /\ Generados /\ [Next]_vars => [NoVuelve]_vars
  BY PasoNoVuelve
<1>4. Spec => []Generados
  BY <1>1, <1>2, TipoCorrecto, PTL DEF Spec
<1>5. Spec => [][NoVuelve]_vars
  BY <1>3, <1>4, TipoCorrecto, PTL DEF Spec
<1> QED BY <1>5 DEF SecretoNoVuelve, NoVuelve
=============================================================================
