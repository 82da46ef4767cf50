------------------------------ MODULE Jerarquia ------------------------------
(***************************************************************************)
(* Clients, their sites, the gateways of a site, the equipment of a        *)
(* gateway and its variables (services/hierarchy.py), and the monthly      *)
(* tariffs, which hang from nothing (services/tariff.py).                  *)
(*                                                                         *)
(* The five tables are one here: a node has a level, a parent, a name that *)
(* has to be its own among some others, and, if it is equipment, the way   *)
(* it is reached.  The id of a node gives its level and its parent, which  *)
(* never change.  A request reads, decides, and writes later the columns   *)
(* it changed over the row as it is by then (READ COMMITTED).  Every other *)
(* column is left out.                                                     *)
(***************************************************************************)
EXTENDS Naturals, FiniteSets

CONSTANTS Nodos,          \* ids, used once each
          NivelDe,        \* level of each id
          PadreDe,        \* parent of each id, or Nulo
          NombresDe,      \* bound: the names each id may be given
          Nombres,        \* nombre_empresa, nombre, numero_serie, nombre_dispositivo, mes
          Puertos,        \* serial ports
          Paridades,      \* paridad, bits and stop_bits
          Hosts,          \* host and puerto_tcp
          Unidades,       \* modbus_id
          Peticiones,     \* requests the server can be busy with at once
          Nulo

VARIABLES nodos,          \* the tables
          peticiones,     \* what each session read and will write
          pisadas         \* history: devices last written by a request that read an older row

vars == <<nodos, peticiones, pisadas>>

Niveles == {"client", "site", "gateway", "equipment", "variable", "tariff"}

\* Where each level hangs.
Sobre(nivel) ==
  CASE nivel = "site" -> "client"
    [] nivel = "gateway" -> "site"
    [] nivel = "equipment" -> "gateway"
    [] nivel = "variable" -> "equipment"

Campos == {"transporte", "modbus_id", "puerto", "paridad", "host"}

\* The baudrate comes and goes with the port, the TCP port with the host.
Conexiones ==
  [transporte : {"rtu", "tcp"}, modbus_id : Unidades, puerto : Puertos \cup {Nulo},
   paridad : Paridades \cup {Nulo}, host : Hosts \cup {Nulo}]

ASSUME JerarquiaAssumption ==
  /\ Nulo \notin Nodos \cup Puertos \cup Paridades \cup Hosts \cup Conexiones
  /\ IsFiniteSet(Peticiones)
  /\ NivelDe \in [Nodos -> Niveles]
  /\ NombresDe \in [Nodos -> SUBSET Nombres]
  /\ \A n \in Nodos :
       IF NivelDe[n] \in {"client", "tariff"} THEN PadreDe[n] = Nulo
       ELSE PadreDe[n] \in Nodos /\ NivelDe[PadreDe[n]] = Sobre(NivelDe[n])

Filas == [nombre : Nombres, conexion : Conexiones \cup {Nulo}]

SinCrear == [estado |-> "sin crear"]
Borrado  == [estado |-> "borrado"]

Vivo(n) == nodos[n] \notin {SinCrear, Borrado}

De(nivel) == {n \in Nodos : NivelDe[n] = nivel}

Vivos(nivel) == {n \in De(nivel) : Vivo(n)}

\* A node and everything it hangs from.
Linaje ==
  LET Sube(n) == IF n = Nulo THEN Nulo ELSE PadreDe[n]
  IN  [n \in Nodos |-> {n, Sube(n), Sube(Sube(n)), Sube(Sube(Sube(n))),
                        Sube(Sube(Sube(Sube(n))))} \ {Nulo}]

-----------------------------------------------------------------------------
(* Rules.                                                                  *)

\* Has the fields its transport uses and none of the other's.
Coherente(c) ==
  IF c.transporte = "rtu" THEN c.puerto # Nulo /\ c.paridad # Nulo /\ c.host = Nulo
                          ELSE c.host # Nulo /\ c.puerto = Nulo /\ c.paridad = Nulo

\* CHECK transport_fields_coherent does not look at paridad, bits and stop_bits.
CumpleCheck(c) ==
  IF c.transporte = "rtu" THEN c.puerto # Nulo /\ c.host = Nulo
                          ELSE c.host # Nulo /\ c.puerto = Nulo

\* FAULTY variant (see README, "Faulty variants"): fields of the transport a device
\* no longer speaks survive.
NormalizadasSinLimpiar == {c \in Conexiones : CumpleCheck(c) /\ c.paridad # Nulo}

\* What normalize_transport_fields returns.  It refuses a field of the other transport,
\* but a patch may clear it, so a request can go from any row to any of these.
Normalizadas == {c \in Conexiones : Coherente(c)}

\* The address of a device is another thing on each transport.
MismaDireccion(c, d) ==
  /\ c.transporte = d.transporte /\ c.modbus_id = d.modbus_id
  /\ IF c.transporte = "rtu" THEN c.puerto = d.puerto ELSE c.host = d.host

\* Nodes whose name has to be another: all, or those of the same parent.
Rivales(n) ==
  {m \in Vivos(NivelDe[n]) \ {n} :
     NivelDe[n] \in {"client", "gateway", "tariff"} \/ PadreDe[m] = PadreDe[n]}

\* FAULTY variant: a name is looked for among the nodes of the same parent's parent.
NombreTomadoLejos(n, nombre) ==
  \E m \in Rivales(n) : PadreDe[n] # Nulo /\ nodos[m].nombre = nombre

\* name_taken, name_taken_in_client, serial_taken, name_taken_in_equipment and
\* month_taken; nothing asks it of the name of a device.
NombreTomado(n, nombre) ==
  NivelDe[n] # "equipment" /\ \E m \in Rivales(n) : nodos[m].nombre = nombre

DireccionTomada(n, conexion) ==
  /\ NivelDe[n] = "equipment"
  /\ \E m \in Rivales(n) : MismaDireccion(nodos[m].conexion, conexion)

\* Each UNIQUE of the schema: every name but the client's, and the addresses.
ChocaEnLaBase(n, fila) ==
  \/ NivelDe[n] # "client" /\ \E m \in Rivales(n) : nodos[m].nombre = fila.nombre
  \/ DireccionTomada(n, fila.conexion)

-----------------------------------------------------------------------------
Libre == [fase |-> "libre"]

Sesiones ==
  {Libre} \cup [fase : {"escribe"}, nodo : Nodos, leida : Filas \cup {SinCrear},
                nueva : Filas \cup {Borrado}]

\* What the keys of the schema say: a row has its parent, and no two rows of a
\* parent are alike.
TypeOK ==
  /\ nodos \in [Nodos -> Filas \cup {SinCrear, Borrado}]
  /\ peticiones \in [Peticiones -> Sesiones]
  /\ pisadas \subseteq De("equipment")
  /\ \A n \in Nodos : Vivo(n) =>
       /\ PadreDe[n] # Nulo => Vivo(PadreDe[n])
       /\ ~ChocaEnLaBase(n, nodos[n])
       /\ IF NivelDe[n] = "equipment"
          THEN nodos[n].conexion # Nulo /\ CumpleCheck(nodos[n].conexion)
          ELSE nodos[n].conexion = Nulo

Init ==
  /\ nodos = [n \in Nodos |-> SinCrear]
  /\ peticiones = [p \in Peticiones |-> Libre]
  /\ pisadas = {}

-----------------------------------------------------------------------------
(* What a service decides on what it reads.                                *)

Empieza(p, n, nueva) ==
  /\ peticiones[p] = Libre
  /\ peticiones' = [peticiones EXCEPT ![p] =
       [fase |-> "escribe", nodo |-> n, leida |-> nodos[n], nueva |-> nueva]]
  /\ UNCHANGED <<nodos, pisadas>>

Payloads(n) ==
  [nombre : NombresDe[n],
   conexion : IF NivelDe[n] = "equipment" THEN Normalizadas ELSE {Nulo}]

\* The parent is there, and the name and the address are free; the id is the
\* request's own.
Crear(p, n) ==
  /\ nodos[n] = SinCrear
  /\ \A r \in Peticiones : peticiones[r] # Libre => peticiones[r].nodo # n
  /\ PadreDe[n] # Nulo => Vivo(PadreDe[n])
  /\ \E fila \in Payloads(n) :
       /\ ~NombreTomado(n, fila.nombre) /\ ~DireccionTomada(n, fila.conexion)
       /\ Empieza(p, n, fila)

\* A name that is not in the patch is not asked about; an address always is.
Actualizar(p, n) ==
  /\ Vivo(n)
  /\ \E fila \in Payloads(n) :
       /\ fila # nodos[n]
       /\ fila.nombre # nodos[n].nombre => ~NombreTomado(n, fila.nombre)
       /\ ~DireccionTomada(n, fila.conexion)
       /\ Empieza(p, n, fila)

Borrar(p, n) == Vivo(n) /\ Empieza(p, n, Borrado)

ClientService(p, n) ==
  NivelDe[n] = "client" /\ (Crear(p, n) \/ Actualizar(p, n))

SiteService(p, n) ==
  NivelDe[n] = "site" /\ (Crear(p, n) \/ Actualizar(p, n) \/ Borrar(p, n))

GatewayService(p, n) ==
  NivelDe[n] = "gateway" /\ (Crear(p, n) \/ Actualizar(p, n) \/ Borrar(p, n))

EquipmentService(p, n) ==
  NivelDe[n] = "equipment" /\ (Crear(p, n) \/ Actualizar(p, n) \/ Borrar(p, n))

VariableService(p, n) ==
  NivelDe[n] = "variable" /\ (Crear(p, n) \/ Actualizar(p, n) \/ Borrar(p, n))

\* The month of a tariff is never updated.
TariffService(p, n) ==
  NivelDe[n] = "tariff" /\ (Crear(p, n) \/ Borrar(p, n))

-----------------------------------------------------------------------------
(* The rest of the transaction.                                            *)

MezclaConexion(actual, leida, nueva) ==
  IF actual = Nulo THEN Nulo
  ELSE [c \in Campos |-> IF nueva[c] # leida[c] THEN nueva[c] ELSE actual[c]]

\* The UPDATE: the columns left different from the ones that were read.
Mezcla(actual, leida, nueva) ==
  [nombre |-> IF nueva.nombre # leida.nombre THEN nueva.nombre ELSE actual.nombre,
   conexion |-> MezclaConexion(actual.conexion, leida.conexion, nueva.conexion)]

Escrita(q) ==
  IF q.leida = SinCrear THEN q.nueva ELSE Mezcla(nodos[q.nodo], q.leida, q.nueva)

\* FAULTY variant: the foreign keys are missing.
LaBaseAceptaHuerfanos(q) ==
  q.nueva # Borrado =>
     /\ q.leida = SinCrear \/ Vivo(q.nodo)
     /\ ~ChocaEnLaBase(q.nodo, Escrita(q))
     /\ NivelDe[q.nodo] = "equipment" => CumpleCheck(Escrita(q).conexion)

\* The keys and the CHECK of the table hold of the row, and it is still there.
LaBaseAcepta(q) ==
  q.nueva # Borrado =>
     /\ IF q.leida = SinCrear THEN PadreDe[q.nodo] # Nulo => Vivo(PadreDe[q.nodo])
                              ELSE Vivo(q.nodo)
     /\ ~ChocaEnLaBase(q.nodo, Escrita(q))
     /\ NivelDe[q.nodo] = "equipment" => CumpleCheck(Escrita(q).conexion)

\* A deletion takes what hangs from the row with it.
Commit(p) ==
  LET q == peticiones[p]
  IN  /\ q.fase = "escribe" /\ LaBaseAcepta(q)
      /\ nodos' = [n \in Nodos |->
           IF q.nueva = Borrado
           THEN IF q.nodo \in Linaje[n] /\ Vivo(n) THEN Borrado ELSE nodos[n]
           ELSE IF n = q.nodo THEN Escrita(q) ELSE nodos[n]]
      /\ pisadas' = IF nodos[q.nodo] = q.leida \/ NivelDe[q.nodo] # "equipment"
                    THEN pisadas \ {q.nodo} ELSE pisadas \cup {q.nodo}
      /\ peticiones' = [peticiones EXCEPT ![p] = Libre]

\* An IntegrityError, or an UPDATE of a row that is gone.
Rollback(p) ==
  /\ peticiones[p].fase = "escribe" /\ ~LaBaseAcepta(peticiones[p])
  /\ peticiones' = [peticiones EXCEPT ![p] = Libre]
  /\ UNCHANGED <<nodos, pisadas>>

Next ==
  \E p \in Peticiones :
    \/ Commit(p) \/ Rollback(p)
    \/ \E n \in Nodos :
         \/ ClientService(p, n) \/ SiteService(p, n) \/ GatewayService(p, n)
         \/ EquipmentService(p, n) \/ VariableService(p, n) \/ TariffService(p, n)

Spec == Init /\ [][Next]_vars

-----------------------------------------------------------------------------
\* "A row that claims one transport while carrying the other's fields is
\* unreadable by the firmware" (models/equipment.py): there is none, except where
\* the last request that wrote the row had read an older one.
EquiposCoherentes ==
  \A n \in Vivos("equipment") \ pisadas : Coherente(nodos[n].conexion)

\* No key of the schema stands behind the name of a client: each that shares one
\* got it while the others were getting it, so they are no more than the requests
\* there can be at the same time.
NombresAcotados ==
  \A x \in Nombres :
    Cardinality({n \in Vivos("client") : nodos[n].nombre = x}) <= Cardinality(Peticiones)
=============================================================================
