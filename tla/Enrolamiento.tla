---------------------------- MODULE Enrolamiento ----------------------------
(***************************************************************************)
(* How a gateway comes by its credential (services/enrollment.py and the   *)
(* first half of services/gateway_config.py): an operator issues a token   *)
(* of one use, the installer on site exchanges it for a credential and the *)
(* shared configuration of module Ajustes, and the panel can issue and     *)
(* revoke credentials too.                                                 *)
(*                                                                         *)
(* Requests overlap; each is its reads, or the statement that has to come  *)
(* before the others, and then the rest up to the COMMIT in one step.      *)
(* Locks only put off the writes of one row, so they are left out.         *)
(***************************************************************************)
EXTENDS Ajustes, FiniteSets

CONSTANTS Gateways,         \* ids, never used again
          Tokens,           \* enrolment tokens, used once each
          Instalador,       \* GATEWAY_INSTALLER_URL
          Elegidas,         \* GATEWAY_RELEASE_VERSION and GATEWAY_RELEASE_SHA256
          Base,             \* GATEWAY_RELEASE_BASE_URL
          Borrado,          \* a gateway or a token whose row is gone
          MaxCredenciales   \* bound: credentials put on file

VARIABLES gateways,         \* credential_hash of each gateway
          tokens,           \* table enrollment_tokens
          emitidas,         \* credentials put on file so far
          canjes            \* history: credentials each token was exchanged for

enrolamientoVars == <<gateways, tokens, emitidas, canjes>>

vars == <<ajustes, llave, peticiones, pisadas,
          gateways, tokens, emitidas, canjes>>

Credenciales == 1..MaxCredenciales

\* vive: it has not expired.
Emitidos == [gateway : Gateways, vive : BOOLEAN, usado : BOOLEAN]

SinEmitir == [token |-> "sin emitir"]

ASSUME EnrolamientoAssumption ==
  /\ {Instalador, Base} \cup Elegidas \subseteq Claves
  /\ MaxCredenciales \in Nat \ {0}
  /\ IsFiniteSet(Peticiones)
  /\ Nulo \notin Nat /\ Borrado \notin Nat \cup {Nulo, SinEmitir} \cup Emitidos

Existe(g) == gateways[g] # Borrado

Canjeable(t) == tokens[t] \in Emitidos /\ tokens[t].vive /\ ~tokens[t].usado

\* The tokens expire_pending is about.
Pendientes(g) == {t \in Tokens : Canjeable(t) /\ tokens[t].gateway = g}

Enrolamientos ==
  [fase : {"emite"}, token : Tokens, gateway : Gateways, vencidos : SUBSET Tokens]
    \cup [fase : {"canjea"}, token : Tokens, gateway : Gateways]
    \cup [fase : {"rota"}, gateway : Gateways]
    \cup [fase : {"revoca"}, gateway : Gateways, habia : BOOLEAN]

TypeOK ==
  /\ ajustes \in [Claves -> Filas \cup {Ausente}]
  /\ llave \in LlavesServidor \cup {Nulo}
  /\ pisadas \subseteq Claves
  /\ peticiones \in [Peticiones -> {Libre} \cup Ediciones \cup Enrolamientos]
  /\ gateways \in [Gateways -> Credenciales \cup {Nulo, Borrado}]
  /\ tokens \in [Tokens -> Emitidos \cup {SinEmitir, Borrado}]
  /\ emitidas \in 0..MaxCredenciales
  /\ canjes \in [Tokens -> Nat]
  /\ \A t \in Tokens : tokens[t] \in Emitidos => Existe(tokens[t].gateway)
  /\ \A g, h \in Gateways : gateways[g] \in Credenciales /\ gateways[g] = gateways[h] => g = h

Init ==
  /\ AjustesInit
  /\ peticiones = [p \in Peticiones |-> Libre]
  /\ gateways = [g \in Gateways |-> Nulo]
  /\ tokens = [t \in Tokens |-> SinEmitir]
  /\ emitidas = 0
  /\ canjes = [t \in Tokens |-> 0]

-----------------------------------------------------------------------------
Empieza(p, q) ==
  /\ peticiones[p] = Libre
  /\ peticiones' = [peticiones EXCEPT ![p] = q]
  /\ UNCHANGED <<ajustesVars, enrolamientoVars>>

Termina(p) ==
  /\ peticiones' = [peticiones EXCEPT ![p] = Libre]
  /\ UNCHANGED ajustesVars

\* FAULTY variant (see README, "Faulty variants"): only the expired are expired.
VencidosNinguno(g) == {t \in Pendientes(g) : ~tokens[t].vive}

\* The statement that expires what is pending, which sees what is committed.
Vencidos(g) == Pendientes(g)

\* issue, up to the INSERT.
IssueToken(p, g, t) ==
  /\ Existe(g) /\ tokens[t] = SinEmitir
  /\ \A r \in Peticiones :
       peticiones[r].fase = "emite" => peticiones[r].token # t
  /\ Empieza(p, [fase |-> "emite", token |-> t, gateway |-> g, vencidos |-> Vencidos(g)])

\* FAULTY variant: the token has no foreign key.
EmitibleSinGateway(q) == Publico(Instalador)

\* _comando reads an address that has to be there and public; the gateway the
\* token is of has to be there too.
Emitible(q) == Publico(Instalador) /\ Existe(q.gateway)

CommitIssue(p) ==
  LET q == peticiones[p]
  IN  /\ q.fase = "emite" /\ Emitible(q)
      /\ tokens' = [t \in Tokens |->
           IF t = q.token THEN [gateway |-> q.gateway, vive |-> TRUE, usado |-> FALSE]
           ELSE IF t \in q.vencidos /\ tokens[t] \in Emitidos
           THEN [tokens[t] EXCEPT !.vive = FALSE] ELSE tokens[t]]
      /\ Termina(p)
      /\ UNCHANGED <<gateways, emitidas, canjes>>

\* release: what new devices run is chosen and public.
HayRelease ==
  /\ \A c \in Elegidas : Publico(c) /\ ajustes[c].valor # Nulo
  /\ Esta(Base) => Publico(Base)

\* exchange, up to the first UPDATE.
Exchange(p, t) ==
  /\ Canjeable(t) /\ HayRelease
  /\ Empieza(p, [fase |-> "canjea", token |-> t, gateway |-> tokens[t].gateway])

\* Both rows are there to be updated, and the .env can be put together.
CanjeCumplido(q) ==
  /\ Existe(q.gateway) /\ tokens[q.token] \in Emitidos
  /\ \A c \in Claves : SeEntrega(c)

\* rotate.
Rota(g) ==
  /\ emitidas < MaxCredenciales
  /\ emitidas' = emitidas + 1
  /\ gateways' = [gateways EXCEPT ![g] = emitidas + 1]

CommitExchange(p) ==
  LET q == peticiones[p]
  IN  /\ q.fase = "canjea" /\ CanjeCumplido(q)
      /\ tokens' = [tokens EXCEPT ![q.token].usado = TRUE]
      /\ canjes' = [canjes EXCEPT ![q.token] = @ + 1]
      /\ Rota(q.gateway)
      /\ Termina(p)

IssueCredential(p, g) == Existe(g) /\ Empieza(p, [fase |-> "rota", gateway |-> g])

CommitCredential(p) ==
  /\ peticiones[p].fase = "rota" /\ Existe(peticiones[p].gateway)
  /\ Rota(peticiones[p].gateway)
  /\ Termina(p)
  /\ UNCHANGED <<tokens, canjes>>

RevokeCredential(p, g) ==
  /\ Existe(g)
  /\ Empieza(p, [fase |-> "revoca", gateway |-> g, habia |-> gateways[g] # Nulo])

\* With nothing on file when it was read there is no column to write.
CommitRevoke(p) ==
  LET q == peticiones[p]
  IN  /\ q.fase = "revoca" /\ Existe(q.gateway)
      /\ gateways' = IF q.habia THEN [gateways EXCEPT ![q.gateway] = Nulo] ELSE gateways
      /\ Termina(p)
      /\ UNCHANGED <<tokens, emitidas, canjes>>

\* FAULTY variant: a token whose .env cannot be put together is spent.
DeshaceMenosElToken(q) ==
  /\ tokens' = IF q.fase = "canjea" /\ tokens[q.token] \in Emitidos
               THEN [tokens EXCEPT ![q.token].usado = TRUE] ELSE tokens
  /\ UNCHANGED <<gateways, emitidas, canjes>>

\* The session is rolled back: nothing of it stays.
Deshace(q) == UNCHANGED enrolamientoVars

Rollback(p) ==
  LET q == peticiones[p]
  IN  /\ \/ q.fase = "emite" /\ ~Emitible(q)
         \/ q.fase = "canjea" /\ ~CanjeCumplido(q)
         \/ q.fase \in {"rota", "revoca"} /\ ~Existe(q.gateway)
      /\ Deshace(q)
      /\ Termina(p)

\* Its tokens go with it.
DeleteGateway(g) ==
  /\ Existe(g)
  /\ gateways' = [gateways EXCEPT ![g] = Borrado]
  /\ tokens' = [t \in Tokens |->
       IF tokens[t] \in Emitidos /\ tokens[t].gateway = g THEN Borrado ELSE tokens[t]]
  /\ UNCHANGED <<peticiones, ajustesVars, emitidas, canjes>>

-----------------------------------------------------------------------------
\* Eight hours after it was issued.
Vence(t) ==
  /\ Canjeable(t)
  /\ tokens' = [tokens EXCEPT ![t].vive = FALSE]
  /\ UNCHANGED <<peticiones, ajustesVars, gateways, emitidas, canjes>>

Enrola ==
  \/ \E p \in Peticiones :
       \/ CommitIssue(p) \/ CommitExchange(p) \/ CommitCredential(p) \/ CommitRevoke(p)
       \/ Rollback(p)
       \/ \E t \in Tokens : Exchange(p, t) \/ \E g \in Gateways : IssueToken(p, g, t)
       \/ \E g \in Gateways : IssueCredential(p, g) \/ RevokeCredential(p, g)
  \/ \E g \in Gateways : DeleteGateway(g)
  \/ \E t \in Tokens : Vence(t)

Next == (AjustesNext /\ UNCHANGED enrolamientoVars) \/ Enrola

Spec == Init /\ [][Next]_vars

-----------------------------------------------------------------------------
\* Issuing a token expires the ones before it: a gateway has no more tokens that
\* can be exchanged than there can be requests issuing one at the same time.
VivosAcotados ==
  \A g \in Gateways : Cardinality(Pendientes(g)) <= Cardinality(Peticiones)

\* "Spending the token and rotating the credential happen together" and a token
\* is of one use, but for the requests that had read it unspent: a token is spent
\* if and only if it put a credential on file, and no more often than there can
\* be requests at the same time.
CanjeEntero ==
  \A t \in Tokens : tokens[t] \in Emitidos =>
    /\ tokens[t].usado <=> canjes[t] > 0
    /\ canjes[t] <= Cardinality(Peticiones)
=============================================================================
