--------------------------- MODULE Sesiones_proofs ---------------------------
(***************************************************************************)
(* The invariants of module Sesiones, for any number of accounts,          *)
(* companies and tokens, any life of the tokens and any window.            *)
(*                                                                         *)
(* AlcanceReciente and MonitorSoloAdmitidos ask nothing of the limiter,    *)
(* which only takes steps away.  IntentosAcotados asks nothing of the      *)
(* rest: a queue is in the order of its ages, so that what popleft takes   *)
(* is all that is out of the window, and the passwords looked at are never *)
(* more, nor newer, than the attempts that were counted.                   *)
(***************************************************************************)
EXTENDS Sesiones, FiniteSetTheorems, TLAPS

USE SesionesAssumption

\* TypeOK, less the windows of the limiter.
Tipos ==
  /\ users \in [Cuentas -> Filas]
  /\ tokens \subseteq Accesos \cup Refrescos
  /\ hace \in [Cuentas -> [Cosas -> 0..VidaAcceso + 1]]

\* What an access token opens was open to its account since it was minted.
Reciente(t, h) ==
  /\ t.client_id # Nulo => h[t.sub][t.client_id] <= VidaAcceso - t.queda
  /\ t.scope = "full" => h[t.sub]["todo"] <= VidaAcceso - t.queda

Admisible(t) == t.aud = "monitor" => t.role \in {"cliente", "admin"}

Inv == Tipos /\ AlcanceReciente /\ MonitorSoloAdmitidos

-----------------------------------------------------------------------------
LEMMA Clases ==
  /\ \A t \in Accesos : t.tipo = "access"
  /\ \A t \in Refrescos : t.tipo = "refresh"
  /\ Accesos \cap Refrescos = {}
BY DEF Accesos, Refrescos

LEMMA CampoAcceso ==
  ASSUME NEW t \in Accesos
  PROVE  /\ t.sub \in Cuentas /\ t.aud \in Superficies /\ t.role \in Roles
         /\ t.client_id \in Clientes \cup {Nulo} /\ t.queda \in 1..VidaAcceso
         /\ t.client_id # Nulo => t.client_id \in Cosas
         /\ "todo" \in Cosas
BY DEF Accesos, Cosas

\* In one step what was open is a little further back, and no more than that.
LEMMA HistoriaPaso ==
  ASSUME Tipos, NEW pasa \in BOOLEAN, Historia(pasa), NEW u \in Cuentas, NEW q \in Cosas
  PROVE  /\ hace[u][q] \in Nat /\ hace'[u][q] \in Nat
         /\ hace'[u][q] <= hace[u][q] + 1
         /\ ~pasa => hace'[u][q] <= hace[u][q]
         /\ Abre(users'[u], q) => hace'[u][q] = 0
<1> DEFINE ahora == Abre(users'[u], q)
<1>1. hace[u][q] \in Nat
  BY DEF Tipos
<1>2. hace'[u][q] = Edad(ahora, hace[u][q], pasa)
  BY DEF Historia
<1> HIDE DEF ahora
<1>3. /\ hace'[u][q] \in Nat /\ hace'[u][q] <= hace[u][q] + 1
      /\ ~pasa => hace'[u][q] <= hace[u][q]
      /\ ahora => hace'[u][q] = 0
  BY <1>1, <1>2 DEF Edad
<1> QED BY <1>1, <1>3 DEF ahora

LEMMA HaceTipo ==
  ASSUME Tipos, NEW pasa \in BOOLEAN, Historia(pasa)
  PROVE  hace' \in [Cuentas -> [Cosas -> 0..VidaAcceso + 1]]
<1>1. \A u \in Cuentas, q \in Cosas :
        Edad(Abre(users'[u], q), hace[u][q], pasa) \in 0..VidaAcceso + 1
  <2>1. \A antes \in 0..VidaAcceso + 1, ahora \in BOOLEAN :
          Edad(ahora, antes, pasa) \in 0..VidaAcceso + 1
    BY DEF Edad
  <2>2. \A u \in Cuentas, q \in Cosas : Abre(users'[u], q) \in BOOLEAN
    BY DEF Abre
  <2> QED BY <2>1, <2>2 DEF Tipos
<1> QED BY <1>1 DEF Historia

\* A token that is kept while no time passes.
LEMMA GuardaToken ==
  ASSUME Tipos, Historia(FALSE), NEW t \in Accesos, Reciente(t, hace)
  PROVE  Reciente(t, hace')
<1>1. ASSUME NEW q \in Cosas, hace[t.sub][q] <= VidaAcceso - t.queda
      PROVE  hace'[t.sub][q] <= VidaAcceso - t.queda
  <2>1. t.sub \in Cuentas /\ t.queda \in 1..VidaAcceso
    BY CampoAcceso
  <2>2. /\ hace[t.sub][q] \in Nat /\ hace'[t.sub][q] \in Nat
        /\ hace'[t.sub][q] <= hace[t.sub][q]
    BY <2>1, HistoriaPaso
  <2> QED BY <1>1, <2>1, <2>2
<1> QED BY <1>1, CampoAcceso DEF Reciente

\* A token of which an instant went by.
LEMMA GastaToken ==
  ASSUME Tipos, Historia(TRUE), NEW t \in Accesos, Reciente(t, hace), t.queda > 1
  PROVE  LET n == [t EXCEPT !.queda = @ - 1]
         IN  n \in Accesos /\ Reciente(n, hace') /\ (Admisible(n) <=> Admisible(t))
<1> DEFINE n == [t EXCEPT !.queda = @ - 1]
<1>1. /\ n \in Accesos /\ n.queda = t.queda - 1 /\ n.sub = t.sub /\ n.scope = t.scope
      /\ n.client_id = t.client_id /\ n.aud = t.aud /\ n.role = t.role
  BY DEF Accesos
<1> HIDE DEF n
<1>2. ASSUME NEW q \in Cosas, hace[t.sub][q] <= VidaAcceso - t.queda
      PROVE  hace'[t.sub][q] <= VidaAcceso - (t.queda - 1)
  <2>1. t.sub \in Cuentas /\ t.queda \in 1..VidaAcceso
    BY CampoAcceso
  <2>2. /\ hace[t.sub][q] \in Nat /\ hace'[t.sub][q] \in Nat
        /\ hace'[t.sub][q] <= hace[t.sub][q] + 1
    BY <2>1, HistoriaPaso
  <2> QED BY <1>2, <2>1, <2>2
<1>3. Reciente(n, hace')
  BY <1>1, <1>2, CampoAcceso DEF Reciente
<1>4. Admisible(n) <=> Admisible(t)
  BY <1>1 DEF Admisible
<1> QED BY <1>1, <1>3, <1>4 DEF n

-----------------------------------------------------------------------------
(* The steps.                                                              *)

\* One request mints one pair of the row as it leaves it.
Acunada(u, aud, elegida) ==
  /\ users'[u].is_active
  /\ elegida # Nulo => users'[u].role = "admin"
  /\ aud = "monitor" => users'[u].role \in {"cliente", "admin"}
  /\ tokens' = tokens \cup Par(u, users'[u], aud, elegida)

LEMMA ParTipo ==
  ASSUME NEW u \in Cuentas, NEW f \in Filas, NEW aud \in Superficies,
         NEW elegida \in Clientes \cup {Nulo}
  PROVE  /\ Par(u, f, aud, elegida) \subseteq Accesos \cup Refrescos
         /\ \A t \in Par(u, f, aud, elegida) \cap Accesos :
              /\ t.sub = u /\ t.aud = aud /\ t.role = f.role
              /\ t.client_id = IF elegida # Nulo THEN elegida ELSE f.client_id
              /\ t.scope = "full" => ~f.must_change
              /\ t.queda = VidaAcceso
<1>1. /\ f.role \in Roles /\ f.client_id \in Clientes \cup {Nulo} /\ f.must_change \in BOOLEAN
  BY DEF Filas
<1> QED BY <1>1 DEF Par, Accesos, Refrescos

\* What a pair opens its row opens.
LEMMA ParAbre ==
  ASSUME NEW u \in Cuentas, NEW f \in Filas, NEW aud \in Superficies,
         NEW elegida \in Clientes \cup {Nulo}, f.is_active,
         elegida # Nulo => f.role = "admin",
         NEW t \in Par(u, f, aud, elegida) \cap Accesos
  PROVE  /\ t.client_id # Nulo => Abre(f, t.client_id)
         /\ t.scope = "full" => Abre(f, "todo")
<1>1. t.client_id # Nulo => t.client_id # "todo"
  BY CampoAcceso
<1> QED BY <1>1, ParTipo DEF Abre

LEMMA PasoAcunada ==
  ASSUME Inv, Historia(FALSE), users' \in [Cuentas -> Filas],
         NEW u \in Cuentas, NEW aud \in Superficies,
         NEW elegida \in Clientes \cup {Nulo}, Acunada(u, aud, elegida)
  PROVE  Inv'
<1>1. users'[u] \in Filas
  OBVIOUS
<1>2. Par(u, users'[u], aud, elegida) \subseteq Accesos \cup Refrescos
  BY <1>1, ParTipo
<1>3. Tipos'
  BY <1>2, HaceTipo DEF Inv, Tipos, Acunada
<1>4. ASSUME NEW t \in Par(u, users'[u], aud, elegida), t \in Accesos
      PROVE  Reciente(t, hace') /\ Admisible(t)
  <2>1. /\ t.sub = u /\ t.queda = VidaAcceso /\ t.aud = aud /\ t.role = users'[u].role
    BY <1>1, <1>4, ParTipo
  <2>2. /\ t.client_id # Nulo => Abre(users'[u], t.client_id)
        /\ t.scope = "full" => Abre(users'[u], "todo")
    BY <1>1, <1>4, ParAbre DEF Acunada
  <2>3. /\ t.client_id # Nulo => hace'[u][t.client_id] = 0
        /\ t.scope = "full" => hace'[u]["todo"] = 0
    BY <1>4, <2>2, HistoriaPaso, CampoAcceso DEF Inv
  <2> QED BY <2>1, <2>3 DEF Reciente, Admisible, Acunada
<1>5. ASSUME NEW t \in tokens, t \in Accesos
      PROVE  Reciente(t, hace') /\ Admisible(t)
  BY <1>5, GuardaToken DEF Inv, AlcanceReciente, MonitorSoloAdmitidos, Reciente, Admisible
<1>6. \A t \in tokens' \cap Accesos : Reciente(t, hace') /\ Admisible(t)
  BY <1>4, <1>5 DEF Acunada
<1>7. AlcanceReciente' /\ MonitorSoloAdmitidos'
  BY <1>6 DEF AlcanceReciente, MonitorSoloAdmitidos, Reciente, Admisible
<1> QED BY <1>3, <1>7 DEF Inv

LEMMA PasoQuieto ==
  ASSUME Inv, Historia(FALSE), users' \in [Cuentas -> Filas], tokens' = tokens
  PROVE  Inv'
<1>1. Tipos'
  BY HaceTipo DEF Inv, Tipos
<1>2. \A t \in tokens' \cap Accesos : Reciente(t, hace') /\ Admisible(t)
  BY GuardaToken DEF Inv, AlcanceReciente, MonitorSoloAdmitidos, Reciente, Admisible
<1>3. AlcanceReciente' /\ MonitorSoloAdmitidos'
  BY <1>2 DEF AlcanceReciente, MonitorSoloAdmitidos, Reciente, Admisible
<1> QED BY <1>1, <1>3 DEF Inv

LEMMA PasoPasa ==
  ASSUME Inv, Pasa, Historia(TRUE)
  PROVE  Inv'
<1>1. tokens' \subseteq Accesos \cup Refrescos
  <2>1. ASSUME NEW x \in Refrescos, x.queda > 1 PROVE [x EXCEPT !.queda = @ - 1] \in Refrescos
    BY <2>1 DEF Refrescos
  <2> QED BY <2>1, GastaToken DEF Pasa, Gasta, Inv, Tipos, Accesos
<1>2. Tipos'
  BY <1>1, HaceTipo DEF Inv, Tipos, Pasa
<1>3. ASSUME NEW t \in tokens', t \in Accesos
      PROVE  Reciente(t, hace') /\ Admisible(t)
  <2>1. PICK x \in tokens : x.queda > 1 /\ t = [x EXCEPT !.queda = @ - 1]
    BY DEF Pasa, Gasta
  <2>2. x \in Accesos
    <3>1. x \in Refrescos => t \in Refrescos
      BY <2>1 DEF Refrescos
    <3> QED BY <1>3, <3>1, Clases DEF Inv, Tipos
  <2>3. Reciente(x, hace) /\ Admisible(x)
    BY <2>2 DEF Inv, AlcanceReciente, MonitorSoloAdmitidos, Reciente, Admisible
  <2> QED BY <2>1, <2>2, <2>3, GastaToken DEF Inv
<1>4. AlcanceReciente' /\ MonitorSoloAdmitidos'
  BY <1>3 DEF AlcanceReciente, MonitorSoloAdmitidos, Reciente, Admisible
<1> QED BY <1>2, <1>4 DEF Inv

\* Whoever holds a token holds an account, and what a row says of it.
LEMMA TokenFila ==
  ASSUME Inv, NEW t \in tokens
  PROVE  /\ t.sub \in Cuentas /\ users[t.sub] \in Filas
         /\ t.tipo = "refresh" => t.client_id \in Clientes \cup {Nulo}
BY Clases DEF Inv, Tipos, Accesos, Refrescos

LEMMA PropiaFila ==
  ASSUME NEW f \in Filas
  PROVE  /\ Propia(f) \in Filas /\ Propia(f).role = f.role
         /\ Propia(f).is_active = f.is_active
BY DEF Propia, Filas

\* With no company chosen the monitor admits whoever has one, or is an administrator.
LEMMA PairForAdmite ==
  ASSUME NEW f \in Filas, PairFor(f, Nulo)
  PROVE  f.role \in {"cliente", "admin"}
BY DEF PairFor, Filas

LEMMA PasoCuenta ==
  ASSUME Inv, Historia(FALSE), NEW u \in Cuentas,
         Login(u) \/ MonitorLogin(u) \/ MonitorLoginFallido(u) \/ EditaCuenta(u)
  PROVE  Inv'
<1>1. users \in [Cuentas -> Filas]
  BY DEF Inv, Tipos
<1>2. CASE Login(u)
  <2>1. users' = users /\ Acunada(u, "crm", Nulo)
    BY <1>2 DEF Login, Otorga, Emite, Acunada
  <2> QED BY <1>1, <2>1, PasoAcunada DEF Superficies
<1>3. CASE MonitorLogin(u)
  <2>1. users' = users /\ Acunada(u, "monitor", Nulo)
    BY <1>3 DEF MonitorLogin, Admitido, Emite, Acunada
  <2> QED BY <1>1, <2>1, PasoAcunada DEF Superficies
<1>4. CASE MonitorLoginFallido(u)
  BY <1>1, <1>4, PasoQuieto DEF MonitorLoginFallido, Golpea
<1>5. CASE EditaCuenta(u)
  BY <1>1, <1>5, PasoQuieto DEF EditaCuenta
<1> QED BY <1>2, <1>3, <1>4, <1>5

LEMMA PasoToken ==
  ASSUME Inv, Historia(FALSE), NEW t \in tokens,
         \/ Refresh(t) \/ MonitorRefresh(t)
         \/ Impersonate(t) \/ StopImpersonating(t)
         \/ ChangeOwnPassword(t) \/ MonitorChangeOwnPassword(t)
  PROVE  Inv'
<1>1. users \in [Cuentas -> Filas] /\ t.sub \in Cuentas /\ users[t.sub] \in Filas
  BY TokenFila DEF Inv, Tipos
<1>2. CASE Refresh(t)
  <2>1. users' = users /\ Acunada(t.sub, "crm", Nulo)
    BY <1>2 DEF Refresh, Otorga, Emite, Acunada
  <2> QED BY <1>1, <2>1, PasoAcunada DEF Superficies
<1>3. CASE MonitorRefresh(t)
  <2> DEFINE elegida == Elegida(t, users[t.sub])
  <2>1. elegida \in Clientes \cup {Nulo} /\ (elegida # Nulo => users[t.sub].role = "admin")
    BY <1>3, TokenFila DEF MonitorRefresh, Elegida
  <2>2. users' = users /\ Acunada(t.sub, "monitor", elegida)
    BY <1>3, <2>1 DEF MonitorRefresh, Otorga, Emite, Acunada, Admitido
  <2> HIDE DEF elegida
  <2>3. PICK c \in Clientes \cup {Nulo} : c = elegida
    BY <2>1
  <2> QED BY <1>1, <2>2, <2>3, PasoAcunada DEF Superficies
<1>4. CASE Impersonate(t)
  <2>1. PICK c \in Clientes : users' = users /\ Acunada(t.sub, "monitor", c)
    BY <1>4 DEF Impersonate, ValeEntero, Vale, Otorga, Emite, Acunada
  <2> QED BY <1>1, <2>1, PasoAcunada DEF Superficies
<1>5. CASE StopImpersonating(t)
  <2>1. users' = users /\ Acunada(t.sub, "monitor", Nulo)
    BY <1>5 DEF StopImpersonating, ValeEntero, Vale, Otorga, Emite, Acunada
  <2> QED BY <1>1, <2>1, PasoAcunada DEF Superficies
<1>6. CASE ChangeOwnPassword(t)
  <2>1. users' \in [Cuentas -> Filas]
    BY <1>1, <1>6, PropiaFila DEF ChangeOwnPassword
  <2> QED BY <1>6, <2>1, PasoQuieto DEF ChangeOwnPassword
<1>7. CASE MonitorChangeOwnPassword(t)
  <2>1. /\ users' \in [Cuentas -> Filas] /\ users'[t.sub] = Propia(users[t.sub])
    BY <1>1, <1>7, PropiaFila DEF MonitorChangeOwnPassword
  <2>2. Acunada(t.sub, "monitor", Nulo)
    BY <1>1, <1>7, <2>1, PropiaFila, PairForAdmite
       DEF MonitorChangeOwnPassword, Vale, Emite, Acunada
  <2> QED BY <1>1, <2>1, <2>2, PasoAcunada DEF Superficies
<1> QED BY <1>2, <1>3, <1>4, <1>5, <1>6, <1>7

LEMMA Paso ==
  ASSUME Inv, [Next]_vars
  PROVE  Inv'
<1>1. CASE UNCHANGED vars
  BY <1>1 DEF vars, Inv, Tipos, AlcanceReciente, MonitorSoloAdmitidos
<1>2. ASSUME MonitorLoginAjeno, Historia(FALSE) PROVE Inv'
  BY <1>2, PasoQuieto DEF MonitorLoginAjeno, Golpea, Inv, Tipos
<1> QED BY <1>1, <1>2, PasoPasa, PasoCuenta, PasoToken DEF Next, Persona

LEMMA Comienzo == Init => Inv
BY DEF Init, Inv, Tipos, AlcanceReciente, MonitorSoloAdmitidos

LEMMA Siempre == Spec => []Inv
BY Comienzo, Paso, PTL DEF Spec

\* Whatever an administrator takes away is closed to the tokens of the account
\* within the life of an access token, however often the session is refreshed and
\* whatever is edited meanwhile.
THEOREM Alcance_reciente == Spec => []AlcanceReciente
BY Siempre, PTL DEF Inv

\* No access token of the monitoring web is held by anybody but clients and
\* administrators.
THEOREM Monitor_solo_admitidos == Spec => []MonitorSoloAdmitidos
BY Siempre, PTL DEF Inv

-----------------------------------------------------------------------------
(* The limiter.                                                            *)

USE LimitadorAssumption

\* A queue: ages in the window, the oldest first.
EsCola(h) ==
  /\ h \in Seq(0..(Ventana - 1))
  /\ \A i, j \in 1..Len(h) : i <= j => h[i] >= h[j]

\* Counting from the newest, what was looked at is no newer than what was counted.
Sigue(p, h) ==
  /\ Len(p) <= Len(h)
  /\ \A j \in 0..(Len(p) - 1) : p[Len(p) - j] >= h[Len(h) - j]

Acorde(p, h) == EsCola(p) /\ EsCola(h) /\ Sigue(p, h) /\ Len(h) <= MaxIntentos

LEMMA AcordeOlvido == Acorde(Olvido, Olvido)
BY DEF Acorde, EsCola, Sigue, Olvido

LEMMA GolpeDe ==
  ASSUME NEW h, EsCola(h)
  PROVE  /\ EsCola(Golpe(h)) /\ Len(Golpe(h)) = Len(h) + 1
         /\ Golpe(h)[Len(h) + 1] = 0 /\ \A i \in 1..Len(h) : Golpe(h)[i] = h[i]
<1>1. h \in Seq(0..(Ventana - 1)) /\ Len(h) \in Nat /\ 0 \in 0..(Ventana - 1)
  BY DEF EsCola
<1>2. /\ Golpe(h) \in Seq(0..(Ventana - 1)) /\ Len(Golpe(h)) = Len(h) + 1
      /\ Golpe(h)[Len(h) + 1] = 0 /\ \A i \in 1..Len(h) : Golpe(h)[i] = h[i]
  BY <1>1 DEF Golpe
<1>3. \A i \in 1..Len(h) : h[i] \in Nat
  BY <1>1
<1> HIDE DEF Golpe
<1>4. ASSUME NEW i \in 1..(Len(h) + 1), NEW j \in 1..(Len(h) + 1), i <= j
      PROVE  Golpe(h)[i] >= Golpe(h)[j]
  <2>1. CASE j = Len(h) + 1
    BY <1>1, <1>2, <1>3, <1>4, <2>1
  <2>2. CASE j # Len(h) + 1
    <3>1. i \in 1..Len(h) /\ j \in 1..Len(h)
      BY <1>1, <1>4, <2>2
    <3> QED BY <1>2, <1>4, <3>1 DEF EsCola
  <2> QED BY <2>1, <2>2
<1> QED BY <1>2, <1>4 DEF EsCola

LEMMA AcordeDos ==
  ASSUME NEW p, NEW h, Acorde(p, h), Cabe(h)
  PROVE  Acorde(Golpe(p), Golpe(h))
<1>1. Len(p) \in Nat /\ Len(h) \in Nat /\ Len(p) <= Len(h)
  BY DEF Acorde, EsCola, Sigue
<1>2. /\ EsCola(Golpe(p)) /\ Len(Golpe(p)) = Len(p) + 1
      /\ Golpe(p)[Len(p) + 1] = 0 /\ \A i \in 1..Len(p) : Golpe(p)[i] = p[i]
      /\ EsCola(Golpe(h)) /\ Len(Golpe(h)) = Len(h) + 1
      /\ Golpe(h)[Len(h) + 1] = 0 /\ \A i \in 1..Len(h) : Golpe(h)[i] = h[i]
  BY GolpeDe DEF Acorde
<1>3. ASSUME NEW j \in 0..Len(p)
      PROVE  Golpe(p)[Len(p) + 1 - j] >= Golpe(h)[Len(h) + 1 - j]
  <2>1. CASE j = 0
    BY <1>1, <1>2, <2>1
  <2>2. CASE j # 0
    <3>1. j - 1 \in 0..(Len(p) - 1)
      BY <1>1, <2>2
    <3>2. p[Len(p) - (j - 1)] >= h[Len(h) - (j - 1)]
      BY <3>1 DEF Acorde, Sigue
    <3>3. /\ Len(p) - (j - 1) = Len(p) + 1 - j /\ Len(h) - (j - 1) = Len(h) + 1 - j
          /\ Len(p) + 1 - j \in 1..Len(p) /\ Len(h) + 1 - j \in 1..Len(h)
      BY <1>1, <2>2
    <3> QED BY <1>2, <3>2, <3>3
  <2> QED BY <2>1, <2>2
<1>4. Sigue(Golpe(p), Golpe(h))
  BY <1>1, <1>2, <1>3 DEF Sigue
<1>5. Len(Golpe(h)) <= MaxIntentos
  BY <1>1, <1>2 DEF Cabe
<1> QED BY <1>2, <1>4, <1>5 DEF Acorde

LEMMA AcordeUno ==
  ASSUME NEW p, NEW h, Acorde(p, h), Cabe(h)
  PROVE  Acorde(p, Golpe(h))
<1>1. Len(p) \in Nat /\ Len(h) \in Nat /\ Len(p) <= Len(h)
  BY DEF Acorde, EsCola, Sigue
<1>2. /\ EsCola(Golpe(h)) /\ Len(Golpe(h)) = Len(h) + 1
      /\ Golpe(h)[Len(h) + 1] = 0 /\ \A i \in 1..Len(h) : Golpe(h)[i] = h[i]
  BY GolpeDe DEF Acorde
<1>3. /\ \A i \in 1..Len(p) : p[i] \in Nat
      /\ \A i \in 1..Len(h) : h[i] \in Nat
  BY DEF Acorde, EsCola
<1>4. ASSUME NEW j \in 0..(Len(p) - 1)
      PROVE  p[Len(p) - j] >= Golpe(h)[Len(h) + 1 - j]
  <2>1. Len(p) - j \in 1..Len(p) /\ Len(h) - j \in 1..Len(h)
    BY <1>1
  <2>2. CASE j = 0
    BY <1>1, <1>2, <1>3, <2>1, <2>2
  <2>3. CASE j # 0
    <3>1. Len(h) + 1 - j \in 1..Len(h) /\ Len(h) - j <= Len(h) + 1 - j
      BY <1>1, <2>1, <2>3
    <3>2. p[Len(p) - j] >= h[Len(h) - j]
      BY DEF Acorde, Sigue
    <3>3. h[Len(h) - j] >= h[Len(h) + 1 - j]
      BY <2>1, <3>1 DEF Acorde, EsCola
    <3>4. Golpe(h)[Len(h) + 1 - j] = h[Len(h) + 1 - j]
      BY <1>2, <3>1
    <3> QED BY <1>3, <2>1, <3>1, <3>2, <3>3, <3>4
  <2> QED BY <2>2, <2>3
<1>5. Sigue(p, Golpe(h))
  BY <1>1, <1>2, <1>4 DEF Sigue
<1>6. Len(Golpe(h)) <= MaxIntentos
  BY <1>1, <1>2 DEF Cabe
<1> QED BY <1>2, <1>5, <1>6 DEF Acorde

\* What popleft takes is what is out of the window, and all of it.
LEMMA FueraDe ==
  ASSUME NEW h, EsCola(h)
  PROVE  LET n == Cardinality(Fuera(h))
         IN  /\ n \in 0..Len(h)
             /\ \A i \in 1..n : h[i] + 1 >= Ventana
             /\ \A i \in (n + 1)..Len(h) : h[i] + 1 < Ventana
<1> DEFINE S == Fuera(h)
           n == Cardinality(S)
<1>1. h \in Seq(0..(Ventana - 1)) /\ Len(h) \in Nat /\ DOMAIN h = 1..Len(h)
  BY DEF EsCola
<1>2. \A i \in 1..Len(h) : h[i] \in Nat
  BY <1>1
<1>3. S \subseteq 1..Len(h) /\ \A i \in S : \A j \in 1..i : h[j] + 1 >= Ventana
  BY <1>1 DEF Fuera
<1>4. \A k \in Nat : IsFiniteSet(1..k) /\ Cardinality(1..k) = k
  BY FS_Interval
<1>5. IsFiniteSet(S) /\ n \in Nat /\ n <= Len(h)
  BY <1>1, <1>3, <1>4, FS_Subset, FS_CardinalityType
<1>6. \A i \in S : \A j \in 1..i : j \in S
  BY <1>1, <1>3 DEF Fuera
<1> HIDE DEF S
<1>7. ASSUME NEW i \in 1..n PROVE i \in S
  <2>1. SUFFICES ASSUME i \notin S PROVE FALSE
    OBVIOUS
  <2>2. i - 1 \in Nat /\ i \in Nat
    BY <1>5
  <2>3. S \subseteq 1..(i - 1)
    BY <1>1, <1>3, <1>6, <2>1, <2>2
  <2>4. IsFiniteSet(1..(i - 1)) /\ Cardinality(1..(i - 1)) = i - 1
    BY <1>4, <2>2
  <2>5. n <= i - 1
    BY <2>3, <2>4, FS_Subset
  <2> QED BY <1>5, <2>2, <2>5
<1>8. ASSUME NEW i \in (n + 1)..Len(h) PROVE h[i] + 1 < Ventana
  <2>1. n + 1 \in 1..Len(h) /\ i \in 1..Len(h) /\ n + 1 <= i
    BY <1>1, <1>5
  <2>2. n + 1 \notin S
    <3>1. SUFFICES ASSUME n + 1 \in S PROVE FALSE
      OBVIOUS
    <3>2. 1..(n + 1) \subseteq S
      BY <1>6, <3>1
    <3>3. n + 1 <= n
      BY <1>4, <1>5, <3>2, FS_Subset
    <3> QED BY <1>5, <3>3
  <2>3. PICK j \in 1..(n + 1) : ~(h[j] + 1 >= Ventana)
    BY <1>1, <2>1, <2>2 DEF Fuera, S
  <2>4. j \in 1..Len(h) /\ j <= i
    BY <1>1, <1>5, <2>1
  <2>5. h[j] >= h[i]
    BY <2>1, <2>4 DEF EsCola
  <2> QED BY <1>2, <2>1, <2>3, <2>4, <2>5
<1>9. \A i \in 1..n : h[i] + 1 >= Ventana
  <2>1. \A i \in 1..n : i \in S /\ i \in 1..i
    BY <1>5, <1>7
  <2> QED BY <1>3, <2>1
<1>10. n \in 0..Len(h)
  BY <1>1, <1>5
<1> QED BY <1>8, <1>9, <1>10 DEF S

LEMMA PodaDe ==
  ASSUME NEW h, EsCola(h)
  PROVE  \E n \in 0..Len(h) :
           /\ EsCola(Poda(h)) /\ Len(Poda(h)) = Len(h) - n
           /\ \A i \in 1..(Len(h) - n) : Poda(h)[i] = h[i + n] + 1
           /\ \A i \in 1..n : h[i] + 1 >= Ventana
           /\ \A i \in (n + 1)..Len(h) : h[i] + 1 < Ventana
<1> DEFINE n == Cardinality(Fuera(h))
<1>1. h \in Seq(0..(Ventana - 1)) /\ Len(h) \in Nat
  BY DEF EsCola
<1>2. /\ n \in 0..Len(h)
      /\ \A i \in 1..n : h[i] + 1 >= Ventana
      /\ \A i \in (n + 1)..Len(h) : h[i] + 1 < Ventana
  BY FueraDe
<1>3. Poda(h) = [i \in 1..(Len(h) - n) |-> h[i + n] + 1]
  BY DEF Poda
<1> HIDE DEF n
<1>4. Len(h) - n \in Nat
  BY <1>1, <1>2
<1>5. \A i \in 1..(Len(h) - n) : i + n \in (n + 1)..Len(h) /\ i + n \in 1..Len(h)
  BY <1>1, <1>2
<1>6. \A i \in 1..(Len(h) - n) : h[i + n] \in Nat /\ h[i + n] + 1 \in 0..(Ventana - 1)
  BY <1>1, <1>2, <1>5
<1>7. Poda(h) \in Seq(0..(Ventana - 1)) /\ Len(Poda(h)) = Len(h) - n
  BY <1>3, <1>4, <1>6
<1>8. ASSUME NEW i \in 1..(Len(h) - n), NEW j \in 1..(Len(h) - n), i <= j
      PROVE  Poda(h)[i] >= Poda(h)[j]
  <2>1. h[i + n] >= h[j + n]
    BY <1>2, <1>5, <1>8 DEF EsCola
  <2> QED BY <1>3, <1>6, <2>1
<1>9. EsCola(Poda(h))
  BY <1>7, <1>8 DEF EsCola
<1> QED BY <1>2, <1>3, <1>7, <1>9

LEMMA AcordePoda ==
  ASSUME NEW p, NEW h, Acorde(p, h)
  PROVE  Acorde(Poda(p), Poda(h))
<1>1. Len(p) \in Nat /\ Len(h) \in Nat /\ Len(p) <= Len(h) /\ Len(h) <= MaxIntentos
  BY DEF Acorde, EsCola, Sigue
<1>2. /\ \A i \in 1..Len(p) : p[i] \in Nat
      /\ \A i \in 1..Len(h) : h[i] \in Nat
  BY DEF Acorde, EsCola
<1>3. PICK m \in 0..Len(p) :
        /\ EsCola(Poda(p)) /\ Len(Poda(p)) = Len(p) - m
        /\ \A i \in 1..(Len(p) - m) : Poda(p)[i] = p[i + m] + 1
        /\ \A i \in (m + 1)..Len(p) : p[i] + 1 < Ventana
  BY PodaDe DEF Acorde
<1>4. PICK n \in 0..Len(h) :
        /\ EsCola(Poda(h)) /\ Len(Poda(h)) = Len(h) - n
        /\ \A i \in 1..(Len(h) - n) : Poda(h)[i] = h[i + n] + 1
        /\ \A i \in 1..n : h[i] + 1 >= Ventana
  BY PodaDe DEF Acorde
<1> DEFINE a == Len(p) - m
           b == Len(h) - n
<1>5. a \in Nat /\ b \in Nat
  BY <1>1
<1>6. ASSUME NEW j \in 0..(a - 1)
      PROVE  /\ Len(h) - j \in (n + 1)..Len(h)
             /\ p[Len(p) - j] >= h[Len(h) - j]
  <2>1. j \in 0..(Len(p) - 1) /\ Len(p) - j \in (m + 1)..Len(p)
        /\ Len(p) - j \in 1..Len(p) /\ Len(h) - j \in 1..Len(h)
    BY <1>1
  <2>2. p[Len(p) - j] >= h[Len(h) - j]
    BY <2>1 DEF Acorde, Sigue
  <2>3. p[Len(p) - j] + 1 < Ventana
    BY <1>3, <2>1
  <2>4. h[Len(h) - j] + 1 < Ventana
    BY <1>2, <2>1, <2>2, <2>3
  <2>5. Len(h) - j \notin 1..n
    <3>1. SUFFICES ASSUME Len(h) - j \in 1..n PROVE FALSE
      OBVIOUS
    <3>2. h[Len(h) - j] + 1 >= Ventana
      BY <1>4, <3>1
    <3>3. h[Len(h) - j] \in Nat
      BY <1>2, <2>1
    <3> QED BY <2>4, <3>2, <3>3
  <2> QED BY <1>1, <2>1, <2>2, <2>5
<1>7. a <= b
  <2>1. CASE a = 0
    BY <1>5, <2>1
  <2>2. CASE a # 0
    <3>1. a - 1 \in 0..(a - 1)
      BY <1>5, <2>2
    <3>2. Len(h) - (a - 1) \in (n + 1)..Len(h)
      BY <1>6, <3>1
    <3> QED BY <1>1, <1>5, <3>2
  <2> QED BY <2>1, <2>2
<1>8. ASSUME NEW j \in 0..(a - 1)
      PROVE  Poda(p)[a - j] >= Poda(h)[b - j]
  <2>1. a - j \in 1..a /\ b - j \in 1..b
    BY <1>5, <1>7
  <2>2. (a - j) + m = Len(p) - j /\ (b - j) + n = Len(h) - j
    BY <1>1
  <2>3. Poda(p)[a - j] = p[Len(p) - j] + 1 /\ Poda(h)[b - j] = h[Len(h) - j] + 1
    BY <1>3, <1>4, <2>1, <2>2
  <2>4. p[Len(p) - j] >= h[Len(h) - j]
    BY <1>6
  <2>5. Len(p) - j \in 1..Len(p) /\ Len(h) - j \in 1..Len(h)
    BY <1>1, <1>5
  <2>6. p[Len(p) - j] \in Nat /\ h[Len(h) - j] \in Nat
    BY <1>2, <2>5
  <2>7. p[Len(p) - j] + 1 >= h[Len(h) - j] + 1
    BY <2>4, <2>6
  <2> QED BY <2>3, <2>7
<1>9. Sigue(Poda(p), Poda(h))
  BY <1>3, <1>4, <1>7, <1>8 DEF Sigue
<1>10. Len(Poda(h)) <= MaxIntentos
  BY <1>1, <1>4
<1> QED BY <1>3, <1>4, <1>9, <1>10 DEF Acorde

\* The inductive invariant of the limiter.
Limites ==
  /\ DOMAIN hits = Claves /\ DOMAIN probadas = Claves
  /\ hits = [k \in Claves |-> hits[k]] /\ probadas = [k \in Claves |-> probadas[k]]
  /\ \A k \in Claves : Acorde(probadas[k], hits[k])

LEMMA PasoLimites ==
  ASSUME Limites, [Next]_vars
  PROVE  Limites'
<1> DEFINE Bien == /\ hits' = [k \in Claves |-> hits'[k]]
                   /\ probadas' = [k \in Claves |-> probadas'[k]]
                   /\ \A k \in Claves : Acorde(probadas'[k], hits'[k])
<1>0. ASSUME Bien PROVE Limites'
  <2>1. DOMAIN hits' = Claves /\ DOMAIN probadas' = Claves
    BY <1>0
  <2> QED BY <1>0, <2>1 DEF Limites
<1>1. \A k \in Claves : Acorde(probadas[k], hits[k])
  BY DEF Limites
<1>2. ASSUME UNCHANGED <<hits, probadas>> PROVE Bien
  BY <1>2 DEF Limites
<1>3. ASSUME Pasa PROVE Bien
  BY <1>1, <1>3, AcordePoda DEF Pasa
<1>4. ASSUME NEW u \in Cuentas, MonitorLogin(u) PROVE Bien
  BY <1>1, <1>4, AcordeOlvido DEF MonitorLogin
<1>5. ASSUME NEW A \in SUBSET Claves, NEW B \in SUBSET A, Golpea(A, B),
             \A k \in A : Cabe(hits[k])
      PROVE  Bien
  <2>1. \A k \in Claves :
          /\ hits'[k] = IF k \in A THEN Golpe(hits[k]) ELSE hits[k]
          /\ probadas'[k] = IF k \in B THEN Golpe(probadas[k]) ELSE probadas[k]
    BY <1>5 DEF Golpea
  <2>2. \A k \in Claves : Acorde(probadas'[k], hits'[k])
    BY <1>1, <1>5, <2>1, AcordeDos, AcordeUno
  <2> QED BY <1>5, <2>2 DEF Golpea
<1>6. ASSUME NEW u \in Cuentas, MonitorLoginFallido(u) PROVE Bien
  <2>1. "ip" \in Claves /\ u \in Claves
    BY DEF Claves
  <2>2. CASE Cabe(hits[u])
    <3>1. Golpea({"ip", u}, {"ip", u}) /\ \A k \in {"ip", u} : Cabe(hits[k])
      BY <1>6, <2>2 DEF MonitorLoginFallido
    <3> QED BY <1>5, <2>1, <3>1
  <2>3. CASE ~Cabe(hits[u])
    <3>1. Golpea({"ip"}, {}) /\ \A k \in {"ip"} : Cabe(hits[k])
      BY <1>6, <2>3 DEF MonitorLoginFallido
    <3> QED BY <1>5, <2>1, <3>1
  <2> QED BY <2>2, <2>3
<1>7. ASSUME MonitorLoginAjeno PROVE Bien
  <2>1. "ip" \in Claves
    BY DEF Claves
  <2>2. CASE Golpea({"ip"}, {"ip"})
    <3>1. \A k \in {"ip"} : Cabe(hits[k])
      BY <1>7 DEF MonitorLoginAjeno
    <3> QED BY <1>5, <2>1, <2>2, <3>1
  <2>3. CASE /\ hits' = [hits EXCEPT !["ip"] = Olvido]
             /\ probadas' = [probadas EXCEPT !["ip"] = Olvido]
    BY <1>1, <2>1, <2>3, AcordeOlvido DEF Limites
  <2> QED BY <1>7, <2>2, <2>3 DEF MonitorLoginAjeno
<1> HIDE DEF Bien
<1>8. CASE UNCHANGED vars
  BY <1>0, <1>2, <1>8 DEF vars
<1>9. ASSUME NEW u \in Cuentas, EditaCuenta(u) \/ Login(u) PROVE Bien
  BY <1>2, <1>9 DEF EditaCuenta, Login, Otorga
<1>10. ASSUME NEW t \in tokens,
              \/ Refresh(t) \/ MonitorRefresh(t) \/ Impersonate(t)
              \/ StopImpersonating(t) \/ ChangeOwnPassword(t)
              \/ MonitorChangeOwnPassword(t)
       PROVE  Bien
  BY <1>2, <1>10
     DEF Refresh, MonitorRefresh, Impersonate, StopImpersonating, ChangeOwnPassword,
         MonitorChangeOwnPassword, Otorga
<1> QED
  BY <1>0, <1>3, <1>4, <1>6, <1>7, <1>8, <1>9, <1>10 DEF Next, Persona

LEMMA ComienzoLimites == Init => Limites
<1> SUFFICES ASSUME Init PROVE Limites
  OBVIOUS
<1> QED BY AcordeOlvido DEF Init, Limites

LEMMA SiempreLimites == Spec => []Limites
BY ComienzoLimites, PasoLimites, PTL DEF Spec

\* Between two right passwords no address, nor all that comes from one source, has
\* more than MAX_ATTEMPTS passwords looked at in a window: the prune from the left
\* takes only what is out of it, and a refused attempt never makes room.
THEOREM Intentos_acotados == Spec => []IntentosAcotados
<1>1. Limites => IntentosAcotados
  <2> SUFFICES ASSUME Limites, NEW k \in Claves PROVE Len(probadas[k]) <= MaxIntentos
    BY DEF IntentosAcotados
  <2>1. Acorde(probadas[k], hits[k])
    BY DEF Limites
  <2>2. Len(probadas[k]) \in Nat /\ Len(hits[k]) \in Nat
    BY <2>1 DEF Acorde, EsCola
  <2> QED BY <2>1, <2>2 DEF Acorde, Sigue
<1> QED BY <1>1, SiempreLimites, PTL

\* The rows, the tokens and the windows keep their types: a token has time left,
\* and an attempt that is kept is in the window.
THEOREM TipoCorrecto == Spec => []TypeOK
<1>1. Inv /\ Limites => TypeOK
  <2> SUFFICES ASSUME Inv, Limites PROVE TypeOK
    OBVIOUS
  <2>1. \A k \in Claves : /\ hits[k] \in Seq(0..(Ventana - 1))
                          /\ probadas[k] \in Seq(0..(Ventana - 1))
    BY DEF Limites, Acorde, EsCola
  <2>2. /\ hits \in [Claves -> Seq(0..(Ventana - 1))]
        /\ probadas \in [Claves -> Seq(0..(Ventana - 1))]
    BY <2>1 DEF Limites
  <2> QED BY <2>2 DEF Inv, Tipos, TypeOK
<1> QED BY <1>1, Siempre, SiempreLimites, PTL
=============================================================================
