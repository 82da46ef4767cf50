-------------------------- MODULE CuentasServicio ---------------------------
(***************************************************************************)
(* Credentials of other systems (services/service_accounts.py): an account *)
(* with a secret, which the panel edits, rotates and deletes, and tokens,  *)
(* which its holder gets with the secret and which answer for as long as   *)
(* the account is usable.                                                  *)
(*                                                                         *)
(* Requests overlap: each reads the row, and writes later what it changed, *)
(* over the row as it is by then.  A token is minted of what was read and  *)
(* handed over if the commit goes through.  Time is what is left, as in    *)
(* Sesiones.  Names (checked, and UNIQUE), descriptions and permissions,   *)
(* which are those of the row whenever a token is used, are left out.      *)
(***************************************************************************)
EXTENDS Naturals, FiniteSets

CONSTANTS Servicios,      \* ids, used once each
          Peticiones,
          VidaServicio,   \* service_token_expire_minutes
          MaxVida,        \* bound: the furthest expira_en
          MaxSecretos,    \* bound: secrets generated for one account
          Nulo

VARIABLES servicios,      \* the table
          peticiones,     \* what each session read and will write
          emitidos,       \* secrets generated so far for each account
          llaves,         \* tokens
          retirado,       \* history: how long ago each secret last got a token
          fueron          \* history: the secrets that were the one on file

vars == <<servicios, peticiones, emitidos, llaves, retirado, fueron>>

ASSUME ServiciosAssumption ==
  /\ VidaServicio \in Nat \ {0} /\ MaxVida \in Nat /\ MaxSecretos \in Nat \ {0}
  /\ Nulo \notin Nat

Secretos == 1..MaxSecretos

\* vida 0 is expired; Nulo is an account with no expira_en.
Filas == [activo : BOOLEAN, vida : (0..MaxVida) \cup {Nulo}, secreto : Secretos]

Columnas == {"activo", "vida", "secreto"}

SinCrear == [estado |-> "sin crear"]
Borrada  == [estado |-> "borrada"]

Existe(s) == servicios[s] \in Filas

\* The secret a token was got with is not in the token.
Llaves == [sub : Servicios, secreto : Secretos, queda : 1..VidaServicio]

\* _usable.
Usable(fila) == fila \in Filas /\ fila.activo /\ fila.vida # 0

\* FAULTY variant (see README, "Faulty variants"): a secret that was rotated still verifies.
VerificaViejos(fila, n) == n <= fila.secreto

Verifica(fila, n) == n = fila.secreto

\* FAULTY variant: every column is written back.
MezclaTodo(actual, leida, nueva) == nueva

\* The UPDATE: the columns left different from the ones that were read.
Mezcla(actual, leida, nueva) ==
  [c \in Columnas |-> IF nueva[c] # leida[c] THEN nueva[c] ELSE actual[c]]

Libre == [fase |-> "libre"]

Sesiones ==
  {Libre}
    \cup [fase : {"escribe"}, id : Servicios, leida : Filas, nueva : Filas \cup {Borrada}]
    \cup [fase : {"emite"}, llave : Llaves \cup {Nulo}, id : Servicios]

TypeOK ==
  /\ servicios \in [Servicios -> Filas \cup {SinCrear, Borrada}]
  /\ peticiones \in [Peticiones -> Sesiones]
  /\ emitidos \in [Servicios -> 0..MaxSecretos]
  /\ llaves \subseteq Llaves
  /\ retirado \in [Servicios -> [Secretos -> 0..VidaServicio + 1]]
  /\ fueron \in [Servicios -> SUBSET Secretos]
  /\ \A s \in Servicios : Existe(s) => servicios[s].secreto \in fueron[s]

Init ==
  /\ servicios = [s \in Servicios |-> SinCrear]
  /\ peticiones = [p \in Peticiones |-> Libre]
  /\ emitidos = [s \in Servicios |-> 0]
  /\ llaves = {}
  /\ retirado = [s \in Servicios |-> [n \in Secretos |-> VidaServicio + 1]]
  /\ fueron = [s \in Servicios |-> {}]

-----------------------------------------------------------------------------
(* The panel.                                                              *)

\* An INSERT of a new id, and its one secret: one step.
Create(s) ==
  /\ servicios[s] = SinCrear
  /\ \E v \in (1..MaxVida) \cup {Nulo} :
       servicios' = [servicios EXCEPT ![s] = [activo |-> TRUE, vida |-> v, secreto |-> 1]]
  /\ emitidos' = [emitidos EXCEPT ![s] = 1]
  /\ UNCHANGED <<peticiones, llaves>>

Lee(p, s, nueva) ==
  /\ peticiones[p] = Libre /\ Existe(s)
  /\ peticiones' = [peticiones EXCEPT ![p] =
       [fase |-> "escribe", id |-> s, leida |-> servicios[s], nueva |-> nueva]]
  /\ UNCHANGED <<servicios, llaves>>

\* The flag, and an expiry that has not passed.
Update(p, s) ==
  /\ Existe(s)
  /\ \E a \in BOOLEAN, v \in (1..MaxVida) \cup {Nulo, servicios[s].vida} :
       Lee(p, s, [servicios[s] EXCEPT !.activo = a, !.vida = v])
  /\ UNCHANGED emitidos

RotateSecret(p, s) ==
  /\ emitidos[s] < MaxSecretos
  /\ emitidos' = [emitidos EXCEPT ![s] = @ + 1]
  /\ Lee(p, s, [servicios[s] EXCEPT !.secreto = emitidos'[s]])

Delete(p, s) == Lee(p, s, Borrada) /\ UNCHANGED emitidos

Responde(p) ==
  /\ peticiones' = [peticiones EXCEPT ![p] = Libre]
  /\ UNCHANGED emitidos

\* An UPDATE that finds no row undoes the request, a DELETE has nothing to do.
Commit(p) ==
  LET q == peticiones[p]
  IN  /\ q.fase = "escribe"
      /\ servicios' = [servicios EXCEPT ![q.id] =
           IF ~Existe(q.id) \/ q.nueva = Borrada THEN Borrada
           ELSE Mezcla(@, q.leida, q.nueva)]
      /\ Responde(p)
      /\ UNCHANGED llaves

-----------------------------------------------------------------------------
(* The other system.                                                       *)

\* issue_token up to its UPDATE (of ultimo_uso_en, which nobody reads).
PideToken(p, s) ==
  /\ peticiones[p] = Libre /\ Usable(servicios[s])
  /\ \E n \in Secretos :
       /\ Verifica(servicios[s], n)
       /\ peticiones' = [peticiones EXCEPT ![p] = [fase |-> "emite", id |-> s,
            llave |-> [sub |-> s, secreto |-> n, queda |-> VidaServicio]]]
  /\ UNCHANGED <<servicios, emitidos, llaves>>

\* The token is handed over, unless the row is gone (or the token has expired).
IssueToken(p) ==
  LET q == peticiones[p]
  IN  /\ q.fase = "emite"
      /\ llaves' = IF Existe(q.id) /\ q.llave # Nulo THEN llaves \cup {q.llave} ELSE llaves
      /\ Responde(p)
      /\ UNCHANGED servicios

\* FAULTY variant: a token is good in the instant it expires.
GastaTarde(ts) == {[t EXCEPT !.queda = @ - 1] : t \in {x \in ts : x.queda > 0}}

Gasta(ts) == {[t EXCEPT !.queda = @ - 1] : t \in {x \in ts : x.queda > 1}}

\* An instant of what is left; the instants a session read or was sent go by too.
Vence(fila) ==
  IF fila \in Filas /\ fila.vida \in 1..MaxVida
  THEN [fila EXCEPT !.vida = @ - 1] ELSE fila

VenceLlave(llave) ==
  IF llave = Nulo \/ llave.queda = 1 THEN Nulo ELSE [llave EXCEPT !.queda = @ - 1]

VenceSesion(q) ==
  CASE q.fase = "libre" -> q
    [] q.fase = "escribe" -> [q EXCEPT !.leida = Vence(@), !.nueva = Vence(@)]
    [] q.fase = "emite" -> [q EXCEPT !.llave = VenceLlave(@)]

Pasa ==
  /\ llaves' = Gasta(llaves)
  /\ peticiones' = [p \in Peticiones |-> VenceSesion(peticiones[p])]
  /\ servicios' = [s \in Servicios |-> Vence(servicios[s])]
  /\ UNCHANGED emitidos

Edad(ahora, antes, pasa) ==
  IF ahora THEN 0 ELSE IF pasa /\ antes <= VidaServicio THEN antes + 1 ELSE antes

Historia(pasa) ==
  /\ retirado' = [s \in Servicios |-> [n \in Secretos |->
       Edad(Usable(servicios'[s]) /\ servicios'[s].secreto = n, retirado[s][n], pasa)]]
  /\ fueron' = [s \in Servicios |->
       IF servicios'[s] \in Filas THEN fueron[s] \cup {servicios'[s].secreto} ELSE fueron[s]]

Peticion(p) ==
  \/ Commit(p) \/ IssueToken(p)
  \/ \E s \in Servicios :
       Update(p, s) \/ RotateSecret(p, s) \/ Delete(p, s) \/ PideToken(p, s)

Next ==
  \/ Pasa /\ Historia(TRUE)
  \/ ((\E s \in Servicios : Create(s)) \/ (\E p \in Peticiones : Peticion(p)))
       /\ Historia(FALSE)

Spec == Init /\ [][Next]_vars

-----------------------------------------------------------------------------
\* A token was got with a secret, of an account that was usable then, no longer
\* ago than it has lived: what is rotated away, switched off or deleted is dead
\* within the life of a token, although scope_from_token never asks which secret
\* a token came from, and although issuing overlaps everything else.
LlavesRecientes ==
  \A t \in llaves : retirado[t.sub][t.secreto] <= VidaServicio - t.queda

\* A secret that was replaced is never the one on file again ("it is how a leaked
\* credential is taken back"), whatever was being edited when it was rotated.
SecretoNoVuelve ==
  [][\A s \in Servicios :
       Existe(s) /\ servicios'[s] \in Filas /\ servicios'[s].secreto # servicios[s].secreto
         => servicios'[s].secreto \notin fueron[s]]_vars
=============================================================================
