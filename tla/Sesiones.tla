------------------------------ MODULE Sesiones ------------------------------
(***************************************************************************)
(* The sessions of people, on the CRM and on the monitoring web            *)
(* (services/auth.py, MonitorAuthService).  A token is signed and kept by  *)
(* whoever asked for it: the server has no record of it, and all it can do *)
(* is look at the account again when the token comes back.  The log in of  *)
(* the monitoring web is behind a limiter (Limitador).                     *)
(*                                                                         *)
(* Time is what is left: a token has `queda` instants to live, and Pasa    *)
(* takes one off.  A token with none left is refused by decode_token and   *)
(* is dropped.                                                             *)
(*                                                                         *)
(* Accounts are edited from outside (Usuarios has those edits and how they *)
(* overlap); the rows here are the ones no overlap has damaged.  A deleted *)
(* account answers as an inactive one.  One request at a time: a token is  *)
(* minted of one reading of the row.                                       *)
(***************************************************************************)
EXTENDS Naturals, FiniteSets, Limitador

CONSTANTS Cuentas, Clientes,
          VidaAcceso,     \* access_token_expire_minutes
          VidaRefresh,    \* refresh_token_expire_days
          MaxTokens,      \* bound: tokens alive at once
          Nulo

VARIABLES users,
          tokens,         \* what people hold
          hits,           \* the limiter: per address, and per source
          hace,           \* history: since when an account has lost something
          probadas        \* history: passwords looked at since the last right one

vars == <<users, tokens, hits, hace, probadas>>

ASSUME SesionesAssumption ==
  /\ VidaAcceso \in Nat \ {0} /\ VidaRefresh \in Nat \ {0}
  /\ MaxTokens \in Nat
  /\ Nulo \notin Clientes /\ "todo" \notin Clientes /\ "ip" \notin Cuentas

Roles == {"admin", "tecnico", "cliente"}

Filas == {f \in [role : Roles, client_id : Clientes \cup {Nulo},
                 is_active : BOOLEAN, must_change : BOOLEAN] :
            f.role = "cliente" <=> f.client_id # Nulo}

Superficies == {"crm", "monitor"}

Accesos == [tipo : {"access"}, sub : Cuentas, aud : Superficies, role : Roles,
            client_id : Clientes \cup {Nulo}, scope : {"full", "password_change"},
            queda : 1..VidaAcceso]

\* Neither role nor scope; a company only when it is somebody else's.
Refrescos == [tipo : {"refresh"}, sub : Cuentas, aud : Superficies,
              client_id : Clientes \cup {Nulo}, queda : 1..VidaRefresh]

\* What an account opens: a company, and all that a full token reaches.
Abre(fila, que) ==
  /\ fila.is_active
  /\ IF que = "todo" THEN ~fila.must_change
     ELSE fila.role = "admin" \/ fila.client_id = que

Cosas == Clientes \cup {"todo"}

\* The keys of the limiter: one source, and an address per account.
Claves == {"ip"} \cup Cuentas

TypeOK ==
  /\ users \in [Cuentas -> Filas]
  /\ tokens \subseteq Accesos \cup Refrescos
  /\ hace \in [Cuentas -> [Cosas -> 0..VidaAcceso + 1]]
  /\ hits \in [Claves -> Seq(0..Ventana - 1)]
  /\ probadas \in [Claves -> Seq(0..Ventana - 1)]

Init ==
  /\ users \in [Cuentas -> Filas]
  /\ tokens = {}
  /\ hace = [u \in Cuentas |-> [q \in Cosas |->
               IF Abre(users[u], q) THEN 0 ELSE VidaAcceso + 1]]
  /\ hits = [k \in Claves |-> Olvido]
  /\ probadas = hits

\* How long ago each account last opened something; further back than a token
\* lives is all the same.
Edad(ahora, antes, pasa) ==
  IF ahora THEN 0 ELSE IF pasa /\ antes <= VidaAcceso THEN antes + 1 ELSE antes

Historia(pasa) ==
  hace' = [u \in Cuentas |-> [q \in Cosas |->
             Edad(Abre(users'[u], q), hace[u][q], pasa)]]

-----------------------------------------------------------------------------
(* Time, and the edits of the accounts.                                    *)

\* FAULTY variant: a token is good in the instant it expires.
GastaTarde(ts) == {[t EXCEPT !.queda = @ - 1] : t \in {x \in ts : x.queda > 0}}

Gasta(ts) == {[t EXCEPT !.queda = @ - 1] : t \in {x \in ts : x.queda > 1}}

Pasa ==
  /\ tokens' = Gasta(tokens)
  /\ hits' = [k \in Claves |-> Poda(hits[k])]
  /\ probadas' = [k \in Claves |-> Poda(probadas[k])]
  /\ UNCHANGED users

\* An administrator changes role, company or flag, or sets the password.
EditaCuenta(u) ==
  /\ \E fila \in Filas \ {users[u]} :
       /\ users[u].must_change => fila.must_change
       /\ users' = [users EXCEPT ![u] = fila]
  /\ UNCHANGED <<tokens, hits, probadas>>

-----------------------------------------------------------------------------
(* People.                                                                 *)

\* issue_tokens: the scope and the role are those of the row; the company is
\* the row's unless one is chosen, and only a chosen one goes in the refresh.
Par(u, fila, aud, elegida) ==
  { [tipo |-> "access", sub |-> u, aud |-> aud, role |-> fila.role,
     client_id |-> IF elegida # Nulo THEN elegida ELSE fila.client_id,
     scope |-> IF fila.must_change THEN "password_change" ELSE "full",
     queda |-> VidaAcceso],
    [tipo |-> "refresh", sub |-> u, aud |-> aud, client_id |-> elegida,
     queda |-> VidaRefresh] }

Emite(par) ==
  /\ tokens' = tokens \cup par
  /\ tokens' # tokens /\ Cardinality(tokens') <= MaxTokens

Otorga(u, aud, elegida) ==
  /\ Emite(Par(u, users[u], aud, elegida))
  /\ UNCHANGED <<users, hits, probadas>>

\* AuthService.login: clients have a web of their own.
Login(u) ==
  /\ users[u].is_active /\ users[u].role # "cliente"
  /\ Otorga(u, "crm", Nulo)

\* AuthService.refresh: the account is read again and no more is asked.
Refresh(t) ==
  /\ t.tipo = "refresh" /\ t.aud = "crm" /\ users[t.sub].is_active
  /\ Otorga(t.sub, "crm", Nulo)

\* FAULTY variant: the test marked as unreachable.
PairForSinPrueba(fila, elegida) == TRUE

\* _pair_for: an account with no company has to be an administrator.
PairFor(fila, elegida) ==
  elegida # Nulo \/ fila.client_id # Nulo \/ fila.role = "admin"

Admitido(fila) == fila.role \in {"cliente", "admin"}

\* The right password: both keys start again.
MonitorLogin(u) ==
  /\ Cabe(hits["ip"]) /\ Cabe(hits[u])
  /\ users[u].is_active /\ Admitido(users[u]) /\ PairFor(users[u], Nulo)
  /\ Emite(Par(u, users[u], "monitor", Nulo))
  /\ hits' = [k \in Claves |-> IF k \in {"ip", u} THEN Olvido ELSE hits[k]]
  /\ probadas' = [k \in Claves |-> IF k \in {"ip", u} THEN Olvido ELSE probadas[k]]
  /\ UNCHANGED users

Golpea(contadas, miradas) ==
  /\ hits' = [k \in Claves |-> IF k \in contadas THEN Golpe(hits[k]) ELSE hits[k]]
  /\ probadas' = [k \in Claves |->
       IF k \in miradas THEN Golpe(probadas[k]) ELSE probadas[k]]
  /\ UNCHANGED <<users, tokens>>

\* The source is counted before the address is: if that one is refused the
\* password is not looked at, and the source has spent an attempt.
MonitorLoginFallido(u) ==
  /\ Cabe(hits["ip"])
  /\ IF Cabe(hits[u]) THEN Golpea({"ip", u}, {"ip", u}) ELSE Golpea({"ip"}, {})

\* Somebody else behind the same source, with an address of their own.
MonitorLoginAjeno ==
  /\ Cabe(hits["ip"])
  /\ \/ Golpea({"ip"}, {"ip"})
     \/ /\ hits' = [hits EXCEPT !["ip"] = Olvido]
        /\ probadas' = [probadas EXCEPT !["ip"] = Olvido]
        /\ UNCHANGED <<users, tokens>>

\* FAULTY variant: the company chosen survives the role.
ElegidaSinRol(t, fila) == t.client_id

\* The company chosen survives a refresh, the right to look at it does not.
Elegida(t, fila) == IF fila.role = "admin" THEN t.client_id ELSE Nulo

MonitorRefresh(t) ==
  /\ t.tipo = "refresh" /\ t.aud = "monitor"
  /\ users[t.sub].is_active /\ Admitido(users[t.sub])
  /\ LET elegida == Elegida(t, users[t.sub])
     IN  PairFor(users[t.sub], elegida) /\ Otorga(t.sub, "monitor", elegida)

\* resolve_access: the row is there and active.  A restricted token reaches
\* /me and /password only.
Vale(t, aud) == t.tipo = "access" /\ t.aud \in aud /\ users[t.sub].is_active
ValeEntero(t, aud) == Vale(t, aud) /\ t.scope = "full"

Impersonate(t) ==
  /\ ValeEntero(t, {"monitor"}) /\ users[t.sub].role = "admin"
  /\ \E c \in Clientes : Otorga(t.sub, "monitor", c)

StopImpersonating(t) ==
  /\ ValeEntero(t, {"monitor"}) /\ users[t.sub].role = "admin"
  /\ Otorga(t.sub, "monitor", Nulo)

Propia(fila) == [fila EXCEPT !.must_change = FALSE]

\* The CRM's answers 204: the tokens are the ones there were.
ChangeOwnPassword(t) ==
  /\ Vale(t, Superficies)
  /\ users' = [users EXCEPT ![t.sub] = Propia(@)]
  /\ UNCHANGED <<tokens, hits, probadas>>

\* The monitor's answers with a new pair, of the row as it leaves it, and asks
\* nothing of the role.
MonitorChangeOwnPassword(t) ==
  /\ Vale(t, {"monitor"})
  /\ PairFor(users[t.sub], Nulo)
  /\ users' = [users EXCEPT ![t.sub] = Propia(@)]
  /\ Emite(Par(t.sub, Propia(users[t.sub]), "monitor", Nulo))
  /\ UNCHANGED <<hits, probadas>>

Persona ==
  \/ \E u \in Cuentas : Login(u) \/ MonitorLogin(u) \/ MonitorLoginFallido(u)
  \/ MonitorLoginAjeno
  \/ \E t \in tokens :
       \/ Refresh(t) \/ MonitorRefresh(t)
       \/ Impersonate(t) \/ StopImpersonating(t)
       \/ ChangeOwnPassword(t) \/ MonitorChangeOwnPassword(t)

Next ==
  \/ Pasa /\ Historia(TRUE)
  \/ ((\E u \in Cuentas : EditaCuenta(u)) \/ Persona) /\ Historia(FALSE)

Spec == Init /\ [][Next]_vars

-----------------------------------------------------------------------------
\* A token opens nothing its account has not opened since the token was minted:
\* what an administrator takes away (a company, the role that let one be chosen,
\* the account, a password that has to be changed) is closed to whoever verifies
\* tokens by their claims within the life of an access token, however often the
\* session was refreshed.
AlcanceReciente ==
  \A t \in tokens \cap Accesos :
    /\ t.client_id # Nulo => hace[t.sub][t.client_id] <= VidaAcceso - t.queda
    /\ t.scope = "full" => hace[t.sub]["todo"] <= VidaAcceso - t.queda

\* Only clients and administrators hold tokens of the monitoring web, whatever
\* became of an account since its first login.
MonitorSoloAdmitidos ==
  \A t \in tokens \cap Accesos : t.aud = "monitor" => t.role \in {"cliente", "admin"}

\* Between two right passwords no address has more than MAX_ATTEMPTS of them
\* looked at in a window, nor has all that comes from one source.
IntentosAcotados == \A k \in Claves : Len(probadas[k]) <= MaxIntentos
=============================================================================
