--------------------------- MODULE Usuarios_proofs ---------------------------
(***************************************************************************)
(* Type correctness, CuentasSinPisar and UltimoAdminSoloPorSolape of       *)
(* module Usuarios, for any number of accounts, addresses, companies and   *)
(* requests.                                                               *)
(***************************************************************************)
EXTENDS Usuarios, TLAPS

USE UsuariosAssumption

\* What CuentasSinPisar asks of a row.
Bien(fila) == Binding(fila) /\ (fila.must_change <=> fila.password = "given")

\* What a session holds: a new row is right, a change keeps a right row right,
\* and whoever takes an administrator away has counted another.
SesionBien(q) ==
  q # Libre =>
    /\ q.leida = SinCrear => q.nueva \in Filas /\ Bien(q.nueva)
    /\ q.leida # SinCrear /\ q.nueva # Borrada =>
         /\ Cambiadas(q.leida, q.nueva) \subseteq q.columnas
         /\ Bien(q.leida) => Bien(q.nueva)
    /\ q.fase = "escribe" /\ LosesAdmin(q.leida, q.nueva) => q.otros # {}

Inv ==
  /\ TypeOK /\ CuentasSinPisar
  /\ \A p \in Peticiones : SesionBien(peticiones[p])

-----------------------------------------------------------------------------
(* Rows.                                                                   *)

LEMMA Distintas ==
  SinCrear \notin Filas /\ Borrada \notin Filas /\ SinCrear # Borrada
BY DEF Filas, SinCrear, Borrada

LEMMA MezclaFila ==
  ASSUME NEW q, NEW f \in Filas, q.nueva \in Filas
  PROVE  Mezcla(f, q) \in Filas
BY DEF Filas, Columnas, Mezcla

\* A change written over the row it was decided on leaves the row decided.
LEMMA MezclaFresca ==
  ASSUME NEW q, NEW f \in Filas, q.nueva \in Filas,
         Cambiadas(f, q.nueva) \subseteq q.columnas
  PROVE  \A c \in Columnas : Mezcla(f, q)[c] = q.nueva[c]
BY DEF Filas, Columnas, Mezcla, Cambiadas

LEMMA BienPorColumnas ==
  ASSUME NEW f \in Filas, NEW g \in Filas, \A c \in Columnas : f[c] = g[c], Bien(g)
  PROVE  Bien(f)
BY DEF Filas, Columnas, Bien, Binding

-----------------------------------------------------------------------------
(* Requests.                                                               *)

\* What is prepared of a row that is there, or not yet, is a session.
LEMMA PreparaInv ==
  ASSUME Inv, NEW p \in Peticiones, NEW u \in Cuentas, NEW nueva \in Filas \cup {Borrada},
         NEW columnas \in SUBSET Columnas, Prepara(p, u, nueva, columnas),
         users[u] \in Filas \cup {SinCrear},
         users[u] = SinCrear => nueva \in Filas /\ Bien(nueva),
         users[u] # SinCrear /\ nueva # Borrada =>
           /\ Cambiadas(users[u], nueva) \subseteq columnas
           /\ Bien(users[u]) => Bien(nueva)
  PROVE  Inv'
<1> DEFINE q == [fase |-> IF LosesAdmin(users[u], nueva) THEN "cuenta" ELSE "escribe",
                 id |-> u, leida |-> users[u], nueva |-> nueva, columnas |-> columnas,
                 otros |-> {}]
<1>1. q \in Sesiones
  BY DEF Sesiones
<1>2. peticiones' = [peticiones EXCEPT ![p] = q] /\ UNCHANGED <<users, pisadas>>
  BY DEF Prepara
<1>3. SesionBien(q)
  BY DEF SesionBien
<1>4. TypeOK'
  BY <1>1, <1>2 DEF Inv, TypeOK, Vivas
<1>5. CuentasSinPisar'
  BY <1>2 DEF Inv, CuentasSinPisar, Vivas
<1>6. (\A r \in Peticiones : SesionBien(peticiones[r]))'
  BY <1>2, <1>3 DEF Inv, TypeOK
<1> QED BY <1>4, <1>5, <1>6 DEF Inv

LEMMA EditaInv ==
  ASSUME Inv, NEW p \in Peticiones, NEW u \in Vivas, NEW nueva \in Filas,
         Edita(p, u, nueva) \/ EditaClave(p, u, nueva), Bien(users[u]) => Bien(nueva)
  PROVE  Inv'
<1>1. u \in Cuentas /\ users[u] \in Filas /\ users[u] # SinCrear
  BY Distintas DEF Vivas
<1>2. Cambiadas(users[u], nueva) \cup {"password"} \subseteq Columnas
  BY DEF Cambiadas, Columnas
<1>3. CASE Edita(p, u, nueva)
  BY <1>1, <1>2, <1>3, PreparaInv DEF Edita
<1>4. CASE EditaClave(p, u, nueva)
  BY <1>1, <1>2, <1>4, PreparaInv DEF EditaClave
<1> QED BY <1>3, <1>4

LEMMA InsertaInv ==
  ASSUME Inv, NEW p \in Peticiones, NEW u \in Cuentas, NEW nueva \in Filas,
         Inserta(p, u, nueva), Bien(nueva)
  PROVE  Inv'
BY PreparaInv DEF Inserta

LEMMA NuevaBien ==
  ASSUME NEW r \in Roles, NEW c \in Clientes \cup {Nulo}, r = "cliente" <=> c # Nulo
  PROVE  Nueva(r, c) \in Filas /\ Bien(Nueva(r, c))
BY DEF Nueva, Filas, Bien, Binding

LEMMA ClavesBien ==
  ASSUME NEW f \in Filas
  PROVE  /\ ConClaveAjena(f) \in Filas /\ ConClavePropia(f) \in Filas
         /\ Bien(f) => Bien(ConClaveAjena(f)) /\ Bien(ConClavePropia(f))
         /\ Bien(f) => Bien([ConClaveAjena(f) EXCEPT !.is_active = TRUE])
         /\ Bien(f) => Bien([f EXCEPT !.is_active = FALSE])
         /\ [f EXCEPT !.is_active = FALSE] \in Filas
         /\ [ConClaveAjena(f) EXCEPT !.is_active = TRUE] \in Filas
BY DEF Filas, ConClaveAjena, ConClavePropia, Bien, Binding

LEMMA AccesosVivas == \A c \in Clientes : Accesos(c) \subseteq Vivas
BY DEF Accesos

LEMMA CuentaInv ==
  ASSUME Inv, NEW p \in Peticiones, NEW u \in Cuentas, Cuenta(p, u)
  PROVE  Inv'
<1>1. CASE Create(p, u)
  <2> PICK r \in Roles, c \in Clientes \cup {Nulo} :
        Binding(Nueva(r, c)) /\ Inserta(p, u, Nueva(r, c))
    BY <1>1 DEF Create
  <2>1. r = "cliente" <=> c # Nulo
    BY DEF Binding, Nueva
  <2> QED BY <2>1, NuevaBien, InsertaInv
<1>2. CASE SetPassword(p, u)
  BY <1>2, ClavesBien, EditaInv DEF SetPassword, Vivas
<1>3. CASE ChangeOwnPassword(p, u)
  BY <1>3, ClavesBien, EditaInv DEF ChangeOwnPassword, Vivas
<1>4. CASE CreateAdmin(p, u)
  <2>1. ConClavePropia(Nueva("admin", Nulo)) \in Filas
    BY NuevaBien, ClavesBien
  <2>2. Bien(ConClavePropia(Nueva("admin", Nulo)))
    BY NuevaBien, ClavesBien
  <2> QED BY <1>4, <2>1, <2>2, InsertaInv DEF CreateAdmin
<1>5. ASSUME NEW a \in Cuentas, Update(p, a, u) PROVE Inv'
  <2> PICK r \in Roles, c \in Clientes \cup {Nulo}, activa \in BOOLEAN :
        LET nueva == [users[u] EXCEPT !.role = r, !.client_id = c, !.is_active = activa]
        IN  Binding(nueva) /\ Edita(p, u, nueva)
    BY <1>5 DEF Update
  <2> DEFINE nueva == [users[u] EXCEPT !.role = r, !.client_id = c, !.is_active = activa]
  <2>1. u \in Vivas /\ users[u] \in Filas
    BY <1>5 DEF Update, Vivas
  <2>2. nueva \in Filas
    BY <2>1 DEF Filas
  <2>3. Bien(users[u]) => Bien(nueva)
    BY <2>1 DEF Bien, Filas
  <2>4. Edita(p, u, nueva)
    OBVIOUS
  <2> HIDE DEF nueva
  <2> QED BY <2>1, <2>2, <2>3, <2>4, EditaInv
<1>6. ASSUME NEW a \in Cuentas, Delete(p, a, u) PROVE Inv'
  BY <1>6, PreparaInv, Distintas DEF Delete, Vivas
<1>7. ASSUME NEW c \in Clientes, MonitorCreate(p, c, u) PROVE Inv'
  <2>1. CASE u \in Accesos(c) /\
             EditaClave(p, u, [ConClaveAjena(users[u]) EXCEPT !.is_active = TRUE])
    <3>1. u \in Vivas /\ users[u] \in Filas
      BY <2>1, AccesosVivas DEF Vivas
    <3> QED BY <2>1, <3>1, ClavesBien, EditaInv
  <2>2. CASE Inserta(p, u, Nueva("cliente", c))
    <3>1. "cliente" \in Roles /\ c # Nulo
      OBVIOUS
    <3>2. Nueva("cliente", c) \in Filas /\ Bien(Nueva("cliente", c))
      BY <3>1, NuevaBien
    <3> QED BY <2>2, <3>2, InsertaInv
  <2> QED BY <1>7, <2>1, <2>2 DEF MonitorCreate
<1>8. ASSUME NEW c \in Clientes, MonitorReset(p, c, u) PROVE Inv'
  BY <1>8, AccesosVivas, ClavesBien, EditaInv DEF MonitorReset, Vivas
<1>9. ASSUME NEW c \in Clientes, MonitorRevoke(p, c, u) PROVE Inv'
  BY <1>9, AccesosVivas, ClavesBien, EditaInv DEF MonitorRevoke, Vivas
<1> QED
  BY <1>1, <1>2, <1>3, <1>4, <1>5, <1>6, <1>7, <1>8, <1>9 DEF Cuenta

\* The request goes on, or is over: nothing else moves.
LEMMA SesionInv ==
  ASSUME Inv, NEW p \in Peticiones, NEW q \in Sesiones, SesionBien(q),
         peticiones' = [peticiones EXCEPT ![p] = q], UNCHANGED <<users, pisadas>>
  PROVE  Inv'
<1>1. TypeOK'
  BY DEF Inv, TypeOK, Vivas
<1>2. CuentasSinPisar'
  BY DEF Inv, CuentasSinPisar, Vivas
<1>3. (\A r \in Peticiones : SesionBien(peticiones[r]))'
  BY DEF Inv, TypeOK
<1> QED BY <1>1, <1>2, <1>3 DEF Inv

LEMMA LibreBien == Libre \in Sesiones /\ SesionBien(Libre)
BY DEF Sesiones, SesionBien

LEMMA CountInv ==
  ASSUME Inv, NEW p \in Peticiones, Count(p)
  PROVE  Inv'
<1> DEFINE otros == ActiveAdmins \ {peticiones[p].id}
           q == [peticiones[p] EXCEPT !.fase = "escribe", !.otros = otros]
<1>1. CASE otros = {}
  BY <1>1, LibreBien, SesionInv DEF Count
<1>2. CASE otros # {}
  <2>1. peticiones[p] \in Sesiones /\ peticiones[p].fase = "cuenta"
    BY DEF Count, Inv, TypeOK
  <2>2. q \in Sesiones
    <3>1. otros \in SUBSET Cuentas
      BY DEF ActiveAdmins, Vivas
    <3>2. peticiones[p] # Libre
      BY <2>1 DEF Libre
    <3> HIDE DEF otros
    <3> QED BY <2>1, <3>1, <3>2 DEF Sesiones
  <2>3. SesionBien(q)
    BY <1>2, <2>1 DEF Inv, SesionBien, Sesiones, Libre
  <2> QED BY <1>2, <2>2, <2>3, SesionInv DEF Count
<1> QED BY <1>1, <1>2

-----------------------------------------------------------------------------
(* The commit.                                                             *)

LEMMA SesionQueEscribe ==
  ASSUME Inv, NEW p \in Peticiones, peticiones[p].fase = "escribe"
  PROVE  /\ peticiones[p].id \in Cuentas /\ peticiones[p].leida \in Filas \cup {SinCrear}
         /\ peticiones[p].nueva \in Filas \cup {Borrada}
         /\ peticiones[p] # Libre /\ SesionBien(peticiones[p])
BY DEF Inv, TypeOK, Sesiones, Libre

LEMMA EscritaBien ==
  ASSUME Inv, NEW p \in Peticiones, peticiones[p].fase = "escribe",
         LaBaseAcepta(peticiones[p])
  PROVE  LET q == peticiones[p]
         IN  /\ Escrita(q) \in Filas \cup {Borrada}
             /\ users[q.id] = q.leida /\ q.id \notin pisadas /\ Escrita(q) \in Filas
                  => Bien(Escrita(q))
<1> DEFINE q == peticiones[p]
<1>1. /\ q.id \in Cuentas /\ q.leida \in Filas \cup {SinCrear}
      /\ q.nueva \in Filas \cup {Borrada} /\ q # Libre /\ SesionBien(q)
  BY SesionQueEscribe
<1>2. CASE q.leida = SinCrear \/ q.nueva = Borrada
  BY <1>1, <1>2, Distintas DEF Escrita, SesionBien
<1>3. CASE ~(q.leida = SinCrear \/ q.nueva = Borrada)
  <2>1. users[q.id] \in Filas /\ q.nueva \in Filas /\ q.id \in Vivas
    BY <1>1, <1>3 DEF LaBaseAcepta, Vivas
  <2>2. Escrita(q) = Mezcla(users[q.id], q) /\ Escrita(q) \in Filas
    BY <1>3, <2>1, MezclaFila DEF Escrita
  <2>3. ASSUME users[q.id] = q.leida, q.id \notin pisadas PROVE Bien(Escrita(q))
    <3>1. Bien(q.nueva)
      BY <1>1, <1>3, <2>1, <2>3 DEF SesionBien, Inv, CuentasSinPisar, Bien
    <3>2. \A c \in Columnas : Escrita(q)[c] = q.nueva[c]
      BY <1>1, <1>3, <2>1, <2>2, <2>3, MezclaFresca DEF SesionBien
    <3> QED BY <2>1, <2>2, <3>1, <3>2, BienPorColumnas
  <2> QED BY <2>2, <2>3
<1> QED BY <1>2, <1>3

LEMMA CommitInv ==
  ASSUME Inv, NEW p \in Peticiones, Commit(p)
  PROVE  Inv'
<1> DEFINE q == peticiones[p]
<1>1. /\ q.fase = "escribe" /\ LaBaseAcepta(q)
      /\ users' = [users EXCEPT ![q.id] = Escrita(q)]
      /\ pisadas' = IF users[q.id] = q.leida THEN pisadas ELSE pisadas \cup {q.id}
      /\ peticiones' = [peticiones EXCEPT ![p] = Libre]
  BY DEF Commit
<1>2. q.id \in Cuentas /\ Escrita(q) \in Filas \cup {Borrada}
  BY <1>1, SesionQueEscribe, EscritaBien
<1>3. users' \in [Cuentas -> Filas \cup {SinCrear, Borrada}]
  BY <1>1, <1>2 DEF Inv, TypeOK
<1>4. \A u \in Cuentas : users'[u] = IF u = q.id THEN Escrita(q) ELSE users[u]
  BY <1>1, <1>2 DEF Inv, TypeOK
<1>5. Escrita(q) \in Filas => CumpleCheck(Escrita(q))
  BY <1>1 DEF LaBaseAcepta
<1>6. ASSUME NEW u \in Vivas', NEW v \in Vivas', CorreoDe[u] = CorreoDe[v]
      PROVE  u = v
  <2>1. \A w \in Vivas' : w = q.id \/ w \in Vivas
    BY <1>4 DEF Vivas
  <2>2. CASE q.leida = SinCrear
    BY <1>1, <1>6, <2>1, <2>2 DEF LaBaseAcepta, Inv, TypeOK
  <2>3. CASE q.leida # SinCrear
    BY <1>1, <1>6, <2>1, <2>3 DEF LaBaseAcepta, Inv, TypeOK
  <2> QED BY <2>2, <2>3
<1>7. TypeOK'
  <2>1. peticiones' \in [Peticiones -> Sesiones]
    BY <1>1, LibreBien DEF Inv, TypeOK
  <2>2. pisadas' \subseteq Cuentas
    BY <1>1, <1>2 DEF Inv, TypeOK
  <2>3. \A u \in Vivas' : CumpleCheck(users'[u])
    BY <1>4, <1>5 DEF Inv, TypeOK, Vivas
  <2> QED BY <1>3, <1>6, <2>1, <2>2, <2>3 DEF TypeOK
<1>8. ASSUME NEW u \in Vivas', u \notin pisadas' PROVE Bien(users'[u])
  <2>1. CASE u = q.id
    BY <1>1, <1>4, <1>8, <2>1, EscritaBien DEF Vivas
  <2>2. CASE u # q.id
    BY <1>1, <1>4, <1>8, <2>2 DEF Vivas, Inv, CuentasSinPisar, Bien
  <2> QED BY <2>1, <2>2
<1>9. (\A r \in Peticiones : SesionBien(peticiones[r]))'
  BY <1>1, LibreBien DEF Inv, TypeOK
<1> QED BY <1>7, <1>8, <1>9 DEF Inv, CuentasSinPisar, Bien

-----------------------------------------------------------------------------
LEMMA InvInicial == Init => Inv
<1> SUFFICES ASSUME Init PROVE Inv
  OBVIOUS
<1>1. Vivas = {}
  BY Distintas DEF Init, Vivas
<1>2. TypeOK
  BY <1>1, LibreBien DEF Init, TypeOK
<1> QED BY <1>1, <1>2, LibreBien DEF Init, Inv, CuentasSinPisar

LEMMA InvPaso == Inv /\ [Next]_vars => Inv'
<1> SUFFICES ASSUME Inv, [Next]_vars PROVE Inv'
  OBVIOUS
<1>1. CASE UNCHANGED vars
  <2>1. TypeOK' /\ CuentasSinPisar'
    BY <1>1 DEF Inv, TypeOK, CuentasSinPisar, vars, Vivas
  <2> QED BY <1>1, <2>1 DEF Inv, vars
<1>2. ASSUME NEW p \in Peticiones, NEW u \in Cuentas, Cuenta(p, u) PROVE Inv'
  BY <1>2, CuentaInv
<1>3. ASSUME NEW p \in Peticiones, Count(p) PROVE Inv'
  BY <1>3, CountInv
<1>4. ASSUME NEW p \in Peticiones, Commit(p) PROVE Inv'
  BY <1>4, CommitInv
<1>5. ASSUME NEW p \in Peticiones, Rollback(p) PROVE Inv'
  BY <1>5, LibreBien, SesionInv DEF Rollback
<1> QED BY <1>1, <1>2, <1>3, <1>4, <1>5 DEF Next

LEMMA Invariante == Spec => []Inv
BY InvInicial, InvPaso, PTL DEF Spec

\* One row per address and a company behind every client, whatever overlaps.
THEOREM TipoCorrecto == Spec => []TypeOK
BY Invariante, PTL DEF Inv

\* Whatever no request wrote over unread is as models/user.py says.
THEOREM Cuentas_sin_pisar == Spec => []CuentasSinPisar
BY Invariante, PTL DEF Inv

-----------------------------------------------------------------------------
(* The last administrator.                                                 *)

\* A commit on the row it read, which counted the others there are, leaves one.
LEMMA QuedaAlguno ==
  ASSUME Inv, NEW p \in Peticiones, Commit(p), ActiveAdmins # {},
         users[peticiones[p].id] = peticiones[p].leida,
         ActiveAdmins \ {peticiones[p].id} = peticiones[p].otros
  PROVE  ActiveAdmins' # {}
<1> DEFINE q == peticiones[p]
<1>1. /\ q.fase = "escribe" /\ LaBaseAcepta(q)
      /\ users' = [users EXCEPT ![q.id] = Escrita(q)]
  BY DEF Commit
<1>2. /\ q.id \in Cuentas /\ q.leida \in Filas \cup {SinCrear}
      /\ q.nueva \in Filas \cup {Borrada} /\ q # Libre /\ SesionBien(q)
  BY <1>1, SesionQueEscribe
<1>3. \A u \in Cuentas : users'[u] = IF u = q.id THEN Escrita(q) ELSE users[u]
  BY <1>1, <1>2 DEF Inv, TypeOK
<1>4. ASSUME NEW a \in ActiveAdmins, a # q.id PROVE a \in ActiveAdmins'
  BY <1>3, <1>4 DEF ActiveAdmins, Vivas
<1>5. CASE \E a \in ActiveAdmins : a # q.id
  BY <1>4, <1>5
<1>6. CASE \A a \in ActiveAdmins : a = q.id
  <2>1. q.id \in ActiveAdmins /\ q.otros = {}
    BY <1>6
  <2>2. /\ q.leida \in Filas /\ q.leida.role = "admin" /\ q.leida.is_active
        /\ users[q.id] \in Filas
    BY <2>1 DEF ActiveAdmins, Vivas
  <2>3. q.nueva \in Filas /\ q.nueva.role = "admin" /\ q.nueva.is_active
    BY <1>1, <1>2, <2>1, <2>2 DEF SesionBien, LosesAdmin, Filas
  <2>4. Escrita(q) = Mezcla(users[q.id], q) /\ Escrita(q) \in Filas
    BY <2>2, <2>3, Distintas, MezclaFila DEF Escrita
  <2>5. Escrita(q).role = "admin" /\ Escrita(q).is_active
    BY <2>2, <2>3, <2>4 DEF Mezcla, Columnas
  <2>6. q.id \in ActiveAdmins'
    BY <1>2, <1>3, <2>4, <2>5 DEF ActiveAdmins, Vivas
  <2> QED BY <2>6
<1> QED BY <1>5, <1>6

LEMMA SoloCommitEscribe ==
  ASSUME Inv, [Next]_vars, users' # users
  PROVE  \E p \in Peticiones :
           /\ Commit(p)
           /\ \A r \in Peticiones \ {p} : peticiones'[r] = peticiones[r]
<1>1. ~UNCHANGED vars
  BY DEF vars
<1>2. ASSUME NEW p \in Peticiones, NEW u \in Cuentas, Cuenta(p, u) PROVE users' = users
  BY <1>2 DEF Cuenta, Create, SetPassword, ChangeOwnPassword, CreateAdmin, Update, Delete,
              MonitorCreate, MonitorReset, MonitorRevoke, Inserta, Edita, EditaClave, Prepara
<1>3. ASSUME NEW p \in Peticiones, Count(p) \/ Rollback(p) PROVE users' = users
  BY <1>3 DEF Count, Rollback
<1>4. PICK p \in Peticiones : Commit(p)
  BY <1>1, <1>2, <1>3 DEF Next
<1>5. \A r \in Peticiones \ {p} : peticiones'[r] = peticiones[r]
  BY <1>4 DEF Commit, Inv, TypeOK
<1> QED BY <1>4, <1>5

\* The platform loses its last administrator only by a request that overlaps
\* another: it read a row, or counted others, that were no longer so.
THEOREM Ultimo_admin_solo_por_solape == Spec => UltimoAdminSoloPorSolape
<1> DEFINE Paso ==
      \A p \in Peticiones :
        LET q == peticiones[p]
        IN  ActiveAdmins # {} /\ ActiveAdmins' = {} /\ peticiones'[p] # q =>
              users[q.id] # q.leida \/ ActiveAdmins \ {q.id} # q.otros
<1>1. Inv /\ [Next]_vars => Paso
  <2> SUFFICES ASSUME Inv, [Next]_vars, NEW p \in Peticiones,
                      ActiveAdmins # {}, ActiveAdmins' = {},
                      peticiones'[p] # peticiones[p],
                      users[peticiones[p].id] = peticiones[p].leida,
                      ActiveAdmins \ {peticiones[p].id} = peticiones[p].otros
               PROVE  FALSE
    OBVIOUS
  <2>1. users' # users
    BY DEF ActiveAdmins, Vivas
  <2>2. Commit(p)
    BY <2>1, SoloCommitEscribe
  <2> QED BY <2>2, QuedaAlguno
<1> QED BY <1>1, Invariante, PTL DEF Spec, UltimoAdminSoloPorSolape
=============================================================================
