-------------------------------- MODULE Flota --------------------------------
(***************************************************************************)
(* What each caller sees of the tree of module Jerarquia: row by row       *)
(* (services/hierarchy.py), and across all of it (services/fleet.py and    *)
(* FleetRepository).  The questions are pure; they are asked of every      *)
(* state.  Pages, searches by text, the other filters and the order are    *)
(* left out, and every gateway has gone quiet.                             *)
(***************************************************************************)
EXTENDS Jerarquia, Sequences

Clientes == {n \in Nodos : NivelDe[n] = "client"}

Staff == {"admin", "tecnico"}

\* Only a person has a role that counts, only a service has permissions.
Alcances ==
  [is_service : {FALSE}, role : Staff \cup {"solo_lectura"}, client_id : {Nulo}, permisos : {{}}]
    \cup [is_service : {FALSE}, role : {"cliente"}, client_id : Clientes, permisos : {{}}]
    \cup [is_service : {TRUE}, role : {"solo_lectura"}, client_id : Clientes \cup {Nulo},
          permisos : SUBSET {"fleet:read", "tariffs:read"}]

CanReadFleet(a) == a.is_service => "fleet:read" \in a.permisos

VisibleClientId(a) == IF a.is_service \/ a.role = "cliente" THEN a.client_id ELSE Nulo

\* What follows asks nothing else of a caller: the client it is confined to, or Nulo.
Visibles == {VisibleClientId(a) : a \in {b \in Alcances : CanReadFleet(b)}}

MayReadClient(visible, c) == visible \in {Nulo, c}

-----------------------------------------------------------------------------
(* One row: found going up.                                                *)

\* owning_client_id: the join up to the client finds one row or none.
DuenoDe(n) == {c \in Linaje[n] \cap Clientes : \A m \in Linaje[n] : Vivo(m)}

Get(visible, n) == Vivo(n) /\ \E c \in DuenoDe(n) : MayReadClient(visible, c)

\* list_for_client, list_for_site and the like: the node has to answer first.
ListFor(visible, n) == IF Get(visible, n) THEN {m \in Nodos : Vivo(m) /\ PadreDe[m] = n} ELSE {}

-----------------------------------------------------------------------------
(* Everything: found going down.                                           *)

\* FAULTY variant (see README, "Faulty variants"): the filter takes the place of
\* the confinement.
PedidosSinRecorte(visible, filtro) == IF filtro # Nulo THEN {filtro} ELSE {visible} \ {Nulo}

\* The confinement and the filter both count: the clients a row has to be under.
Pedidos(visible, filtro) == {visible, filtro} \ {Nulo}

ListSites(pedidos) == {s \in Vivos("site") : \A c \in pedidos : PadreDe[s] = c}

ListGateways(pedidos) ==
  {g \in Vivos("gateway") : \A c \in pedidos :
     PadreDe[g] \in {s \in Vivos("site") : PadreDe[s] = c}}

\* Asked with the confinement alone: this listing has a filter by gateway instead.
ListEquipment(pedidos) ==
  {e \in Vivos("equipment") : \A c \in pedidos :
     PadreDe[e] \in {g \in Vivos("gateway") :
       PadreDe[g] \in {s \in Vivos("site") : PadreDe[s] = c}}}

\* The children selectinload fetches.
Hijos(ns, nivel) == {m \in Vivos(nivel) : PadreDe[m] \in ns}

\* A gateway that went quiet, whatever its last contact was, found by its joins.
ListOfflineGateways(pedidos) ==
  {g \in Vivos("gateway") : \E s \in Vivos("site"), c \in Vivos("client") :
     PadreDe[g] = s /\ PadreDe[s] = c /\ \A d \in pedidos : c = d}

\* list_client_trees, level by level.
ListClientTrees(pedidos) ==
  LET raices    == {c \in Vivos("client") : \A d \in pedidos : c = d}
      sites     == Hijos(raices, "site")
      gateways  == Hijos(sites, "gateway")
      equipment == Hijos(gateways, "equipment")
      variables == Hijos(equipment, "variable")
  IN  [client |-> raices, site |-> sites, gateway |-> gateways,
       equipment |-> equipment, variable |-> variables]

Orden == <<"site", "gateway", "equipment", "variable">>

\* The answer: the levels down to the one that was asked for, the others absent.
ClientFleet(arbol, hasta) ==
  [nivel \in {"client"} \cup {Orden[i] : i \in 1..hasta} |-> arbol[nivel]]

\* summarise_clients counts the rows that the joins of each level bring up to the client.
SummariseClients(pedidos) ==
  [c \in {d \in Vivos("client") : \A e \in pedidos : d = e} |->
     [nivel \in {"site", "gateway", "equipment", "variable"} |->
        Cardinality({n \in Vivos(nivel) : c \in DuenoDe(n)})]]

-----------------------------------------------------------------------------
\* The rows under a client, of the ones a caller may ask for one by one.
Legibles(nivel, visible, filtro) ==
  {n \in Vivos(nivel) : Get(visible, n) /\ (filtro # Nulo => filtro \in DuenoDe(n))}

\* The listings, the tree, the summary and the rows tell a caller the same story: a
\* row is listed, and is in the tree, exactly if asking for it does not answer 404;
\* the summary counts what the tree shows; and a filter "narrows what the caller may
\* see, it can never widen it".  A tree cut at a level still hangs together.
LecturasCoinciden ==
  \A visible \in Visibles :
    /\ ListEquipment(Pedidos(visible, Nulo)) = Legibles("equipment", visible, Nulo)
    /\ ListOfflineGateways(Pedidos(visible, Nulo)) = Legibles("gateway", visible, Nulo)
    /\ \A n \in Nodos : ListFor(visible, n) =
         {m \in Nodos : Vivo(m) /\ PadreDe[m] = n /\ Get(visible, m)}
    /\ \A filtro \in Clientes \cup {Nulo} :
         LET pedidos == Pedidos(visible, filtro)
             arbol   == ListClientTrees(pedidos)
         IN  /\ ListSites(pedidos) = Legibles("site", visible, filtro)
             /\ ListGateways(pedidos) = Legibles("gateway", visible, filtro)
             /\ \A nivel \in DOMAIN arbol : arbol[nivel] = Legibles(nivel, visible, filtro)
             /\ \A hasta \in DOMAIN Orden : \A nivel \in DOMAIN ClientFleet(arbol, hasta) :
                  \A m \in ClientFleet(arbol, hasta)[nivel] :
                    nivel = "client" \/ PadreDe[m] \in ClientFleet(arbol, hasta)[Sobre(nivel)]
             /\ filtro = Nulo =>
                  LET resumen == SummariseClients(pedidos)
                  IN  /\ DOMAIN resumen = arbol.client
                      /\ \A c \in arbol.client : \A nivel \in DOMAIN resumen[c] :
                           resumen[c][nivel] = Cardinality(Legibles(nivel, visible, c))
=============================================================================
