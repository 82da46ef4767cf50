------------------------------ MODULE Usuarios ------------------------------
(***************************************************************************)
(* The table of accounts and everything that writes it: the administrator  *)
(* (services/user.py), staff granting a company its access to the          *)
(* monitoring web (MonitorAccessService), an owner changing the password,  *)
(* and the script that creates an administrator.                           *)
(*                                                                         *)
(* A request is a transaction that overlaps others as READ COMMITTED lets  *)
(* it: it reads the caller and the row it is about (Prepara), it may count *)
(* the other administrators later (Count), and it writes later still       *)
(* (Commit): the columns it changed, over the row as it is by then.        *)
(*                                                                         *)
(* Clients are never deleted.  The address of a row never changes, so the  *)
(* address a row will have is given with its id.  A payload is the row it  *)
(* leaves; passwords are right or the request is refused.                  *)
(***************************************************************************)
EXTENDS Naturals, FiniteSets

CONSTANTS Roles,          \* solo_lectura differs from tecnico in not writing only
          Cuentas,        \* ids of accounts, used once each
          Correos,        \* addresses
          CorreoDe,       \* the address of each id
          Clientes,       \* companies
          Contacto,       \* contacto_email of each company, or Nulo
          Peticiones,     \* requests the server can be busy with at once
          MaxPisadas,     \* bound: rows written over unread
          Nulo

VARIABLES users,          \* the table
          peticiones,     \* requests: what the session read and will write
          pisadas         \* history: rows written by a request that read an older one

vars == <<users, peticiones, pisadas>>

ASSUME UsuariosAssumption ==
  /\ CorreoDe \in [Cuentas -> Correos]
  /\ Contacto \in [Clientes -> Correos \cup {Nulo}]
  /\ {"admin", "cliente"} \subseteq Roles
  /\ MaxPisadas \in Nat
  /\ Nulo \notin Correos \cup Clientes

\* password: who chose the one whose hash the row has.
Filas == [role : Roles, client_id : Clientes \cup {Nulo}, is_active : BOOLEAN,
          must_change : BOOLEAN, password : {"own", "given"}]

Columnas == {"role", "client_id", "is_active", "must_change", "password"}

SinCrear == [estado |-> "sin crear"]
Borrada  == [estado |-> "borrada"]

Vivas == {u \in Cuentas : users[u] \in Filas}

ActiveAdmins == {u \in Vivas : users[u].role = "admin" /\ users[u].is_active}

-----------------------------------------------------------------------------
(* Rules.                                                                  *)

\* _validate_client_binding.
Binding(fila) == fila.role = "cliente" <=> fila.client_id # Nulo

\* The CHECK of the table: only one direction of it.
CumpleCheck(fila) == fila.role = "cliente" => fila.client_id # Nulo

\* FAULTY variant (see README, "Faulty variants"): a deletion is not looked at.
LosesAdminSoloEdicion(leida, nueva) ==
  /\ leida \in Filas /\ leida.role = "admin" /\ leida.is_active
  /\ nueva \in Filas /\ (nueva.role # "admin" \/ ~nueva.is_active)

\* The change leaves the platform without a usable administrator it had.
LosesAdmin(leida, nueva) ==
  /\ leida \in Filas /\ leida.role = "admin" /\ leida.is_active
  /\ nueva \in Filas => nueva.role # "admin" \/ ~nueva.is_active

\* FAULTY variant: the obligation to change it is left out.
ConClaveAjenaSinCambio(fila) == [fila EXCEPT !.password = "given"]

\* A password somebody else chose.
ConClaveAjena(fila) == [fila EXCEPT !.password = "given", !.must_change = TRUE]

ConClavePropia(fila) == [fila EXCEPT !.password = "own", !.must_change = FALSE]

Nueva(role, cliente) ==
  [role |-> role, client_id |-> cliente, is_active |-> TRUE,
   must_change |-> TRUE, password |-> "given"]

\* The UPDATE: the columns that differ from the ones the session loaded.  A hash
\* has a salt of its own, so it always differs.
Cambiadas(leida, nueva) == {c \in Columnas : nueva[c] # leida[c]}

Mezcla(actual, q) ==
  [c \in Columnas |-> IF c \in q.columnas THEN q.nueva[c] ELSE actual[c]]

-----------------------------------------------------------------------------
Libre == [fase |-> "libre"]

Sesiones ==
  {Libre} \cup
  [fase : {"cuenta", "escribe"}, id : Cuentas, leida : Filas \cup {SinCrear},
   nueva : Filas \cup {Borrada}, columnas : SUBSET Columnas,
   otros : SUBSET Cuentas]

TypeOK ==
  /\ users \in [Cuentas -> Filas \cup {SinCrear, Borrada}]
  /\ peticiones \in [Peticiones -> Sesiones]
  /\ pisadas \subseteq Cuentas
  /\ \A u \in Vivas : CumpleCheck(users[u])
  /\ \A u, v \in Vivas : CorreoDe[u] = CorreoDe[v] => u = v

Init ==
  /\ users = [u \in Cuentas |-> SinCrear]
  /\ peticiones = [p \in Peticiones |-> Libre]
  /\ pisadas = {}

-----------------------------------------------------------------------------
(* What a request decides on what it reads.                                *)

Prepara(p, u, nueva, columnas) ==
  /\ peticiones[p] = Libre
  /\ peticiones' = [peticiones EXCEPT ![p] =
       [fase |-> IF LosesAdmin(users[u], nueva) THEN "cuenta" ELSE "escribe",
        id |-> u, leida |-> users[u], nueva |-> nueva, columnas |-> columnas,
        otros |-> {}]]
  /\ UNCHANGED <<users, pisadas>>

Edita(p, u, nueva) == Prepara(p, u, nueva, Cambiadas(users[u], nueva))

EditaClave(p, u, nueva) ==
  Prepara(p, u, nueva, Cambiadas(users[u], nueva) \cup {"password"})

\* Nobody has the address yet.
Inserta(p, u, nueva) ==
  /\ users[u] = SinCrear
  /\ \A v \in Vivas : CorreoDe[v] # CorreoDe[u]
  /\ Prepara(p, u, nueva, Columnas)

Create(p, u) ==
  /\ ActiveAdmins # {}
  /\ \E r \in Roles, c \in Clientes \cup {Nulo} :
       Binding(Nueva(r, c)) /\ Inserta(p, u, Nueva(r, c))

\* A role, a company, the active flag: any that agree, but not one's own.
Update(p, a, u) ==
  /\ a \in ActiveAdmins /\ u \in Vivas
  /\ \E r \in Roles, c \in Clientes \cup {Nulo}, activa \in BOOLEAN :
       LET nueva == [users[u] EXCEPT !.role = r, !.client_id = c, !.is_active = activa]
       IN  /\ Binding(nueva) /\ nueva # users[u]
           /\ a = u => activa /\ r = users[u].role
           /\ Edita(p, u, nueva)

SetPassword(p, u) ==
  /\ ActiveAdmins # {} /\ u \in Vivas
  /\ EditaClave(p, u, ConClaveAjena(users[u]))

Delete(p, a, u) ==
  /\ a \in ActiveAdmins /\ u \in Vivas /\ a # u
  /\ Prepara(p, u, Borrada, {})

\* From the CRM or from the monitoring web: the row of the token is the row.
ChangeOwnPassword(p, u) ==
  /\ u \in Vivas /\ users[u].is_active
  /\ EditaClave(p, u, ConClavePropia(users[u]))

\* The script: no caller, and the password is the administrator's own.
CreateAdmin(p, u) == Inserta(p, u, ConClavePropia(Nueva("admin", Nulo)))

Escritores ==
  {u \in Vivas : users[u].is_active /\ users[u].role \in {"admin", "tecnico"}}

Accesos(c) == {u \in Vivas : users[u].role = "cliente" /\ users[u].client_id = c}

\* Grants access, or gives a revoked one back with a new password.
MonitorCreate(p, c, u) ==
  /\ Escritores # {} /\ Contacto[c] # Nulo
  /\ \/ /\ u \in Accesos(c) /\ ~users[u].is_active
        /\ EditaClave(p, u, [ConClaveAjena(users[u]) EXCEPT !.is_active = TRUE])
     \/ /\ Accesos(c) = {} /\ CorreoDe[u] = Contacto[c]
        /\ Inserta(p, u, Nueva("cliente", c))

MonitorReset(p, c, u) ==
  /\ Escritores # {} /\ u \in Accesos(c)
  /\ EditaClave(p, u, ConClaveAjena(users[u]))

MonitorRevoke(p, c, u) ==
  /\ Escritores # {} /\ u \in Accesos(c)
  /\ Edita(p, u, [users[u] EXCEPT !.is_active = FALSE])

-----------------------------------------------------------------------------
(* The rest of the transaction.                                            *)

\* count_active_admins(excluding): with none, the change is refused.
Count(p) ==
  /\ peticiones[p].fase = "cuenta"
  /\ LET otros == ActiveAdmins \ {peticiones[p].id}
     IN  peticiones' = [peticiones EXCEPT ![p] =
           IF otros = {} THEN Libre
           ELSE [@ EXCEPT !.fase = "escribe", !.otros = otros]]
  /\ UNCHANGED <<users, pisadas>>

\* What the statement makes of the row.
Escrita(q) ==
  IF q.leida = SinCrear \/ q.nueva = Borrada THEN q.nueva
  ELSE Mezcla(users[q.id], q)

\* FAULTY variant: the address is not UNIQUE.
LaBaseAceptaRepetidos(q) ==
  /\ q.leida # SinCrear => q.id \in Vivas
  /\ Escrita(q) \in Filas => CumpleCheck(Escrita(q))

\* The database takes it: the address is still free, or the row still there,
\* and the CHECK holds.
LaBaseAcepta(q) ==
  /\ IF q.leida = SinCrear THEN \A v \in Vivas : CorreoDe[v] # CorreoDe[q.id]
                           ELSE q.id \in Vivas
  /\ Escrita(q) \in Filas => CumpleCheck(Escrita(q))

Commit(p) ==
  LET q == peticiones[p]
  IN  /\ q.fase = "escribe"
      /\ LaBaseAcepta(q)
      /\ users' = [users EXCEPT ![q.id] = Escrita(q)]
      /\ pisadas' = IF users[q.id] = q.leida THEN pisadas ELSE pisadas \cup {q.id}
      /\ users[q.id] # q.leida => Cardinality(pisadas) < MaxPisadas
      /\ peticiones' = [peticiones EXCEPT ![p] = Libre]

\* An IntegrityError, or a row that is no longer there: everything is undone.
Rollback(p) ==
  /\ peticiones[p].fase = "escribe" /\ ~LaBaseAcepta(peticiones[p])
  /\ peticiones' = [peticiones EXCEPT ![p] = Libre]
  /\ UNCHANGED <<users, pisadas>>

Cuenta(p, u) ==
  \/ Create(p, u) \/ SetPassword(p, u) \/ ChangeOwnPassword(p, u) \/ CreateAdmin(p, u)
  \/ \E a \in Cuentas : Update(p, a, u) \/ Delete(p, a, u)
  \/ \E c \in Clientes :
       MonitorCreate(p, c, u) \/ MonitorReset(p, c, u) \/ MonitorRevoke(p, c, u)

Next ==
  \E p \in Peticiones :
    (\E u \in Cuentas : Cuenta(p, u)) \/ Count(p) \/ Commit(p) \/ Rollback(p)

Spec == Init /\ [][Next]_vars

-----------------------------------------------------------------------------
\* "The cliente role always carries a client, and the other roles never do", and
\* the obligation to change a password is there exactly while somebody else chose
\* it (models/user.py, lines 49-51): true of every row that no request has
\* written over without having read it.
CuentasSinPisar ==
  \A u \in Vivas \ pisadas :
    Binding(users[u]) /\ (users[u].must_change <=> users[u].password = "given")

\* The last usable administrator goes only by a request that read the row, or
\* counted the others, before somebody changed them.
UltimoAdminSoloPorSolape ==
  [][\A p \in Peticiones :
       LET q == peticiones[p]
       IN  ActiveAdmins # {} /\ ActiveAdmins' = {} /\ peticiones'[p] # q =>
             users[q.id] # q.leida \/ ActiveAdmins \ {q.id} # q.otros]_vars
=============================================================================
