-------------------------- MODULE Jerarquia_proofs --------------------------
(***************************************************************************)
(* Type correctness (with the keys of the schema), EquiposCoherentes and   *)
(* NombresAcotados of module Jerarquia, for any tree, any names and        *)
(* addresses and any finite number of requests, and LecturasCoinciden of   *)
(* module Flota, whose states are those of Jerarquia.                      *)
(***************************************************************************)
EXTENDS Flota, FiniteSetTheorems, TLAPS

USE JerarquiaAssumption

\* A pair of rows that ChocaEnLaBase compares, and what it finds alike in them.
Rival(n, m) ==
  /\ m # n /\ NivelDe[m] = NivelDe[n]
  /\ NivelDe[n] \in {"client", "gateway", "tariff"} \/ PadreDe[m] = PadreDe[n]

Igual(nivel, f, h) ==
  \/ nivel # "client" /\ f.nombre = h.nombre
  \/ nivel = "equipment" /\ MismaDireccion(f.conexion, h.conexion)

\* The part of TypeOK that only looks at the row itself.
EnSitio(n, f) ==
  /\ f \in Filas
  /\ IF NivelDe[n] = "equipment" THEN f.conexion \in Conexiones /\ CumpleCheck(f.conexion)
                                 ELSE f.conexion = Nulo

\* Payloads are normalised before they get to a session.
PorEscribir ==
  \A p \in Peticiones : peticiones[p].fase = "escribe" /\ peticiones[p].nueva # Borrado =>
    /\ peticiones[p].nueva \in Filas
    /\ IF NivelDe[peticiones[p].nodo] = "equipment"
       THEN peticiones[p].nueva.conexion \in Normalizadas
       ELSE peticiones[p].nueva.conexion = Nulo

Inv == TypeOK /\ PorEscribir /\ EquiposCoherentes

-----------------------------------------------------------------------------
(* Rows.                                                                   *)

LEMMA Distintas ==
  SinCrear \notin Filas /\ Borrado \notin Filas /\ SinCrear # Borrado
BY DEF Filas, SinCrear, Borrado

LEMMA VivoEsFila ==
  ASSUME TypeOK, NEW n \in Nodos
  PROVE  Vivo(n) <=> nodos[n] \in Filas
BY Distintas DEF TypeOK, Vivo

LEMMA Sesion ==
  ASSUME TypeOK, NEW p \in Peticiones, peticiones[p].fase = "escribe"
  PROVE  /\ peticiones[p].nodo \in Nodos
         /\ peticiones[p].leida \in Filas \cup {SinCrear}
         /\ peticiones[p].nueva \in Filas \cup {Borrado}
BY DEF TypeOK, Sesiones, Libre

LEMMA ChocaEs ==
  ASSUME NEW n \in Nodos, NEW f
  PROVE  ChocaEnLaBase(n, f) <=>
           \E m \in Nodos : Rival(n, m) /\ Vivo(m) /\ Igual(NivelDe[n], nodos[m], f)
BY DEF ChocaEnLaBase, DireccionTomada, Rivales, Vivos, De, Rival, Igual

LEMMA Simetricas ==
  /\ \A n, m \in Nodos : Rival(n, m) => Rival(m, n) /\ NivelDe[m] = NivelDe[n]
  /\ \A nivel, f, h : Igual(nivel, f, h) <=> Igual(nivel, h, f)
BY DEF Rival, Igual, MismaDireccion

LEMMA MezclaConexionTipo ==
  ASSUME NEW a \in Conexiones, NEW l \in Conexiones, NEW n \in Conexiones
  PROVE  /\ MezclaConexion(a, l, n) \in Conexiones
         /\ MezclaConexion(l, l, n) = n
BY DEF MezclaConexion, Conexiones, Campos

\* Nothing is asked of what was read: where it says nothing, nothing is lost.
LEMMA MezclaConexionSuelta ==
  ASSUME NEW a \in Conexiones, NEW l, NEW n \in Conexiones
  PROVE  MezclaConexion(a, l, n) \in Conexiones
BY DEF MezclaConexion, Conexiones, Campos

LEMMA NormalizadaCumple ==
  ASSUME NEW c \in Normalizadas
  PROVE  c \in Conexiones /\ Coherente(c) /\ CumpleCheck(c)
BY DEF Normalizadas, Coherente, CumpleCheck

\* What a request that the database accepts leaves in its row.
LEMMA EscritaBien ==
  ASSUME Inv, NEW p \in Peticiones, peticiones[p].fase = "escribe",
         peticiones[p].nueva # Borrado, LaBaseAcepta(peticiones[p])
  PROVE  /\ EnSitio(peticiones[p].nodo, Escrita(peticiones[p]))
         /\ (/\ nodos[peticiones[p].nodo] = peticiones[p].leida
             /\ NivelDe[peticiones[p].nodo] = "equipment")
            => Coherente(Escrita(peticiones[p]).conexion)
<1> DEFINE q == peticiones[p]
           n == q.nodo
<1>1. n \in Nodos /\ q.leida \in Filas \cup {SinCrear} /\ q.nueva \in Filas
  BY Sesion DEF Inv
<1>2. IF NivelDe[n] = "equipment" THEN q.nueva.conexion \in Normalizadas
                                  ELSE q.nueva.conexion = Nulo
  BY DEF Inv, PorEscribir
<1>3. NivelDe[n] = "equipment" => CumpleCheck(Escrita(q).conexion)
  BY DEF LaBaseAcepta
<1>4. CASE q.leida = SinCrear
  <2>1. Escrita(q) = q.nueva
    BY <1>4 DEF Escrita
  <2> QED BY <1>1, <1>2, <2>1, NormalizadaCumple DEF EnSitio
<1>5. CASE q.leida # SinCrear
  <2>1. Vivo(n) /\ nodos[n] \in Filas
    BY <1>1, <1>5, VivoEsFila DEF LaBaseAcepta, Inv
  <2>2. Escrita(q) = Mezcla(nodos[n], q.leida, q.nueva)
    BY <1>5 DEF Escrita
  <2>3. /\ Escrita(q).nombre = IF q.nueva.nombre # q.leida.nombre THEN q.nueva.nombre
                                                                ELSE nodos[n].nombre
        /\ Escrita(q).conexion = MezclaConexion(nodos[n].conexion, q.leida.conexion,
                                                q.nueva.conexion)
        /\ Escrita(q) = [nombre |-> Escrita(q).nombre, conexion |-> Escrita(q).conexion]
    BY <2>2 DEF Mezcla
  <2>4. IF NivelDe[n] = "equipment" THEN nodos[n].conexion \in Conexiones
                                    ELSE nodos[n].conexion = Nulo
    <3>1. nodos[n].conexion \in Conexiones \cup {Nulo}
      BY <2>1 DEF Filas
    <3> QED BY <1>1, <2>1, <3>1 DEF Inv, TypeOK
  <2>5. NivelDe[n] # "equipment" => Escrita(q).conexion = Nulo
    BY <2>3, <2>4 DEF MezclaConexion
  <2>6. NivelDe[n] = "equipment" => Escrita(q).conexion \in Conexiones
    BY <1>2, <2>3, <2>4, MezclaConexionSuelta, NormalizadaCumple
  <2>7. Escrita(q).nombre \in Nombres
    BY <1>1, <2>1, <2>3 DEF Filas
  <2>8. EnSitio(n, Escrita(q))
    BY <1>3, <2>3, <2>5, <2>6, <2>7 DEF EnSitio, Filas
  <2>9. ASSUME nodos[n] = q.leida, NivelDe[n] = "equipment"
        PROVE  Coherente(Escrita(q).conexion)
    BY <1>2, <2>3, <2>4, <2>9, MezclaConexionTipo, NormalizadaCumple
  <2> QED BY <2>8, <2>9
<1> QED BY <1>4, <1>5

-----------------------------------------------------------------------------
(* The tree.                                                               *)

Arriba(n) == IF n = Nulo THEN Nulo ELSE PadreDe[n]

LEMMA LinajeDe ==
  ASSUME NEW n \in Nodos
  PROVE  Linaje[n] = {n, Arriba(n), Arriba(Arriba(n)), Arriba(Arriba(Arriba(n))),
                      Arriba(Arriba(Arriba(Arriba(n))))} \ {Nulo}
BY DEF Linaje, Arriba

\* Where a node of each level hangs.
LEMMA Escalon ==
  ASSUME NEW n \in Nodos
  PROVE  /\ NivelDe[n] \in Niveles
         /\ NivelDe[n] \in {"client", "tariff"} => Arriba(n) = Nulo
         /\ NivelDe[n] \notin {"client", "tariff"} =>
              Arriba(n) \in Nodos /\ Arriba(n) = PadreDe[n]
         /\ NivelDe[n] = "site" => NivelDe[Arriba(n)] = "client"
         /\ NivelDe[n] = "gateway" => NivelDe[Arriba(n)] = "site"
         /\ NivelDe[n] = "equipment" => NivelDe[Arriba(n)] = "gateway"
         /\ NivelDe[n] = "variable" => NivelDe[Arriba(n)] = "equipment"
         /\ Arriba(Nulo) = Nulo
BY DEF Arriba, Niveles, Sobre

\* The whole of a lineage, level by level.
LEMMA LinajePorNivel ==
  ASSUME NEW n \in Nodos
  PROVE  /\ NivelDe[n] \in {"client", "tariff"} => Linaje[n] = {n}
         /\ NivelDe[n] = "site" => Linaje[n] = {n, Arriba(n)}
         /\ NivelDe[n] = "gateway" => Linaje[n] = {n, Arriba(n), Arriba(Arriba(n))}
         /\ NivelDe[n] = "equipment" =>
              Linaje[n] = {n, Arriba(n), Arriba(Arriba(n)), Arriba(Arriba(Arriba(n)))}
         /\ NivelDe[n] = "variable" =>
              Linaje[n] = {n, Arriba(n), Arriba(Arriba(n)), Arriba(Arriba(Arriba(n))),
                           Arriba(Arriba(Arriba(Arriba(n))))}
<1>1. CASE NivelDe[n] \in {"client", "tariff"}
  BY <1>1, LinajeDe, Escalon
<1>2. CASE NivelDe[n] = "site"
  <2>1. Arriba(Arriba(n)) = Nulo /\ Arriba(n) # Nulo
    BY <1>2, Escalon
  <2> QED BY <1>2, <2>1, LinajeDe, Escalon
<1>3. CASE NivelDe[n] = "gateway"
  <2>1. /\ Arriba(n) \in Nodos /\ Arriba(Arriba(n)) \in Nodos
        /\ Arriba(Arriba(Arriba(n))) = Nulo
    BY <1>3, Escalon
  <2> QED BY <1>3, <2>1, LinajeDe, Escalon
<1>4. CASE NivelDe[n] = "equipment"
  <2>1. /\ Arriba(n) \in Nodos /\ Arriba(Arriba(n)) \in Nodos
        /\ NivelDe[Arriba(Arriba(n))] = "site"
    BY <1>4, Escalon
  <2>2. /\ Arriba(Arriba(Arriba(n))) \in Nodos
        /\ Arriba(Arriba(Arriba(Arriba(n)))) = Nulo
    BY <2>1, Escalon
  <2> QED BY <1>4, <2>1, <2>2, LinajeDe
<1>5. CASE NivelDe[n] = "variable"
  <2>1. /\ Arriba(n) \in Nodos /\ Arriba(Arriba(n)) \in Nodos
        /\ NivelDe[Arriba(Arriba(n))] = "gateway"
    BY <1>5, Escalon
  <2>2. /\ Arriba(Arriba(Arriba(n))) \in Nodos
        /\ Arriba(Arriba(Arriba(Arriba(n)))) \in Nodos
    BY <2>1, Escalon
  <2> QED BY <1>5, <2>1, <2>2, LinajeDe
<1> QED BY <1>1, <1>2, <1>3, <1>4, <1>5, Escalon DEF Niveles

\* What a node hangs from hangs from the same.
LEMMA LinajeSube ==
  ASSUME NEW n \in Nodos
  PROVE  /\ n \in Linaje[n]
         /\ PadreDe[n] # Nulo => /\ PadreDe[n] \in Nodos
                                 /\ Linaje[PadreDe[n]] \subseteq Linaje[n]
<1>1. n \in Linaje[n]
  BY LinajeDe
<1>2. ASSUME PadreDe[n] # Nulo
      PROVE  PadreDe[n] \in Nodos /\ Linaje[PadreDe[n]] \subseteq Linaje[n]
  <2>1. NivelDe[n] \notin {"client", "tariff"} /\ Arriba(n) \in Nodos /\ Arriba(n) = PadreDe[n]
    BY <1>2, Escalon
  <2> DEFINE m == Arriba(n)
  <2>2. Linaje[m] \subseteq Linaje[n]
    <3> HIDE DEF m
    <3>1. CASE NivelDe[n] = "site"
      BY <2>1, <3>1, LinajePorNivel, Escalon DEF m
    <3>2. CASE NivelDe[n] = "gateway"
      BY <2>1, <3>2, LinajePorNivel, Escalon DEF m
    <3>3. CASE NivelDe[n] = "equipment"
      BY <2>1, <3>3, LinajePorNivel, Escalon DEF m
    <3>4. CASE NivelDe[n] = "variable"
      BY <2>1, <3>4, LinajePorNivel, Escalon DEF m
    <3> QED BY <2>1, <3>1, <3>2, <3>3, <3>4, Escalon DEF Niveles
  <2> QED BY <2>1, <2>2
<1> QED BY <1>1, <1>2

-----------------------------------------------------------------------------
(* The table as a whole.                                                   *)

VivoEn(t, n) == t[n] \notin {SinCrear, Borrado}

\* TypeOK of a table, pair of rows by pair of rows.
Tabla(t) ==
  /\ t \in [Nodos -> Filas \cup {SinCrear, Borrado}]
  /\ \A n \in Nodos : VivoEn(t, n) =>
       /\ EnSitio(n, t[n])
       /\ PadreDe[n] # Nulo => VivoEn(t, PadreDe[n])
       /\ \A m \in Nodos : Rival(n, m) /\ VivoEn(t, m) => ~Igual(NivelDe[n], t[m], t[n])

LEMMA TablaEs ==
  TypeOK <=> /\ Tabla(nodos)
             /\ peticiones \in [Peticiones -> Sesiones]
             /\ pisadas \subseteq De("equipment")
<1>1. nodos \in [Nodos -> Filas \cup {SinCrear, Borrado}] =>
        \A n \in Nodos : Vivo(n) =>
          (IF NivelDe[n] = "equipment"
           THEN nodos[n].conexion # Nulo /\ CumpleCheck(nodos[n].conexion)
           ELSE nodos[n].conexion = Nulo) <=> EnSitio(n, nodos[n])
  BY DEF Vivo, EnSitio, Filas
<1>2. \A n \in Nodos : Vivo(n) <=> VivoEn(nodos, n)
  BY DEF Vivo, VivoEn
<1>3. \A n \in Nodos : PadreDe[n] # Nulo => PadreDe[n] \in Nodos
  BY LinajeSube
<1> QED BY <1>1, <1>2, <1>3, ChocaEs DEF TypeOK, Tabla

LEMMA TablaEsDespues ==
  TypeOK' <=> /\ Tabla(nodos')
              /\ peticiones' \in [Peticiones -> Sesiones]
              /\ pisadas' \subseteq De("equipment")
<1>1. (Tabla(nodos))' <=> Tabla(nodos')
  BY DEF Tabla, VivoEn, EnSitio
<1>2. TypeOK' <=> (/\ Tabla(nodos)
                   /\ peticiones \in [Peticiones -> Sesiones]
                   /\ pisadas \subseteq De("equipment"))'
  BY TablaEs, PTL
<1> QED BY <1>1, <1>2

\* A row that the keys take, written or created.
LEMMA TablaEscribe ==
  ASSUME NEW t, Tabla(t), NEW n \in Nodos, NEW f, EnSitio(n, f),
         PadreDe[n] # Nulo => VivoEn(t, PadreDe[n]),
         \A m \in Nodos : Rival(n, m) /\ VivoEn(t, m) => ~Igual(NivelDe[n], t[m], f)
  PROVE  Tabla([m \in Nodos |-> IF m = n THEN f ELSE t[m]])
<1> DEFINE u == [m \in Nodos |-> IF m = n THEN f ELSE t[m]]
<1>1. f \in Filas /\ u \in [Nodos -> Filas \cup {SinCrear, Borrado}]
  BY DEF EnSitio, Tabla
<1>2. VivoEn(u, n) /\ u[n] = f
  BY <1>1, Distintas DEF VivoEn
<1>3. \A m \in Nodos \ {n} : u[m] = t[m] /\ (VivoEn(u, m) <=> VivoEn(t, m))
  BY DEF VivoEn
<1> HIDE DEF u
<1>4. ASSUME NEW k \in Nodos, VivoEn(u, k)
      PROVE  EnSitio(k, u[k])
  BY <1>2, <1>3, <1>4 DEF Tabla
<1>5. ASSUME NEW k \in Nodos, VivoEn(u, k), PadreDe[k] # Nulo
      PROVE  VivoEn(u, PadreDe[k])
  <2>1. PadreDe[k] \in Nodos
    BY <1>5, LinajeSube
  <2> QED BY <2>1, <1>2, <1>3, <1>5 DEF Tabla
<1>6. ASSUME NEW k \in Nodos, VivoEn(u, k), NEW m \in Nodos, Rival(k, m), VivoEn(u, m)
      PROVE  ~Igual(NivelDe[k], u[m], u[k])
  <2>1. CASE k = n
    BY <2>1, <1>2, <1>3, <1>6 DEF Rival
  <2>2. CASE m = n
    <3>1. Rival(n, k) /\ NivelDe[k] = NivelDe[n] /\ k # n
      BY <2>2, <1>6, Simetricas DEF Rival
    <3>2. ~Igual(NivelDe[n], t[k], f)
      BY <3>1, <1>3, <1>6
    <3> QED BY <2>2, <3>1, <3>2, <1>2, <1>3, Simetricas
  <2>3. CASE k # n /\ m # n
    BY <2>3, <1>3, <1>6 DEF Tabla
  <2> QED BY <2>1, <2>2, <2>3
<1> QED BY <1>1, <1>4, <1>5, <1>6 DEF Tabla, u

\* A node taken away with all that hangs from it.
LEMMA TablaBorra ==
  ASSUME NEW t, Tabla(t), NEW n \in Nodos
  PROVE  Tabla([m \in Nodos |-> IF n \in Linaje[m] /\ VivoEn(t, m) THEN Borrado ELSE t[m]])
<1> DEFINE u == [m \in Nodos |-> IF n \in Linaje[m] /\ VivoEn(t, m) THEN Borrado ELSE t[m]]
<1>1. u \in [Nodos -> Filas \cup {SinCrear, Borrado}]
  BY DEF Tabla
<1>2. \A m \in Nodos : VivoEn(u, m) <=> VivoEn(t, m) /\ n \notin Linaje[m]
  BY DEF VivoEn
<1>3. \A m \in Nodos : VivoEn(u, m) => u[m] = t[m]
  BY DEF VivoEn
<1> HIDE DEF u
<1>4. ASSUME NEW k \in Nodos, VivoEn(u, k), PadreDe[k] # Nulo
      PROVE  VivoEn(u, PadreDe[k])
  <2>1. PadreDe[k] \in Nodos /\ Linaje[PadreDe[k]] \subseteq Linaje[k]
    BY <1>4, LinajeSube
  <2> QED BY <2>1, <1>2, <1>4 DEF Tabla
<1> QED BY <1>1, <1>2, <1>3, <1>4 DEF Tabla, u

-----------------------------------------------------------------------------
(* Steps.                                                                  *)

LEMMA PayloadBien ==
  ASSUME NEW n \in Nodos, NEW f \in Payloads(n)
  PROVE  /\ f \in Filas
         /\ IF NivelDe[n] = "equipment" THEN f.conexion \in Normalizadas
                                        ELSE f.conexion = Nulo
BY DEF Payloads, Filas, Normalizadas

LEMMA EmpiezaPaso ==
  ASSUME Inv, NEW p \in Peticiones, NEW n \in Nodos, NEW f, Empieza(p, n, f),
         nodos[n] = SinCrear \/ Vivo(n), f \in Payloads(n) \cup {Borrado}
  PROVE  Inv'
<1>1. nodos[n] \in Filas \cup {SinCrear}
  BY VivoEsFila DEF Inv
<1>2. f \in Filas \cup {Borrado}
  BY PayloadBien
<1> DEFINE q == [fase |-> "escribe", nodo |-> n, leida |-> nodos[n], nueva |-> f]
<1>3. peticiones' = [peticiones EXCEPT ![p] = q] /\ UNCHANGED <<nodos, pisadas>>
  BY DEF Empieza
<1>4. q \in Sesiones
  BY <1>1, <1>2 DEF Sesiones
<1>5. peticiones' \in [Peticiones -> Sesiones]
  BY <1>3, <1>4, TablaEs DEF Inv
<1>6. TypeOK'
  BY <1>3, <1>5, TablaEs, TablaEsDespues DEF Inv
<1>7. PorEscribir'
  <2> SUFFICES ASSUME NEW r \in Peticiones, peticiones'[r].fase = "escribe",
                      peticiones'[r].nueva # Borrado
               PROVE  /\ peticiones'[r].nueva \in Filas
                      /\ IF NivelDe[peticiones'[r].nodo] = "equipment"
                         THEN peticiones'[r].nueva.conexion \in Normalizadas
                         ELSE peticiones'[r].nueva.conexion = Nulo
    BY DEF PorEscribir
  <2>1. peticiones'[r] = IF r = p THEN q ELSE peticiones[r]
    BY <1>3, TablaEs DEF Inv
  <2>2. CASE r = p
    BY <2>1, <2>2, PayloadBien
  <2>3. CASE r # p
    BY <2>1, <2>3 DEF Inv, PorEscribir
  <2> QED BY <2>2, <2>3
<1>8. EquiposCoherentes'
  BY <1>3 DEF Inv, EquiposCoherentes, Vivos, Vivo
<1> QED BY <1>6, <1>7, <1>8 DEF Inv

\* A request that ends leaves the other sessions alone.
LEMMA TerminaPaso ==
  ASSUME Inv, NEW p \in Peticiones, peticiones' = [peticiones EXCEPT ![p] = Libre]
  PROVE  peticiones' \in [Peticiones -> Sesiones] /\ PorEscribir'
<1>1. peticiones' \in [Peticiones -> Sesiones]
  BY TablaEs DEF Inv, Sesiones
<1>2. \A r \in Peticiones : peticiones'[r] = IF r = p THEN Libre ELSE peticiones[r]
  BY TablaEs DEF Inv
<1>3. Libre.fase # "escribe"
  BY DEF Libre
<1> QED BY <1>1, <1>2, <1>3 DEF Inv, PorEscribir

LEMMA CommitPaso ==
  ASSUME Inv, NEW p \in Peticiones, Commit(p)
  PROVE  Inv'
<1> DEFINE q == peticiones[p]
           n == q.nodo
<1>0. q.fase = "escribe" /\ LaBaseAcepta(q) /\ peticiones' = [peticiones EXCEPT ![p] = Libre]
  BY DEF Commit
<1>1. n \in Nodos /\ q.leida \in Filas \cup {SinCrear} /\ q.nueva \in Filas \cup {Borrado}
  BY <1>0, Sesion DEF Inv
<1>2. pisadas' = IF nodos[n] = q.leida \/ NivelDe[n] # "equipment"
                 THEN pisadas \ {n} ELSE pisadas \cup {n}
  BY DEF Commit
<1>3. pisadas' \subseteq De("equipment")
  BY <1>1, <1>2, TablaEs DEF Inv, De
<1>4. Tabla(nodos)
  BY TablaEs DEF Inv
<1>5. CASE q.nueva = Borrado
  <2>1. nodos' = [m \in Nodos |->
                    IF n \in Linaje[m] /\ VivoEn(nodos, m) THEN Borrado ELSE nodos[m]]
    BY <1>5 DEF Commit, Vivo, VivoEn
  <2>2. Tabla(nodos')
    <3> HIDE DEF n, q
    <3> QED BY <1>1, <1>4, <2>1, TablaBorra
  <2>3. EquiposCoherentes'
    <3> SUFFICES ASSUME NEW k \in Nodos, NivelDe[k] = "equipment", VivoEn(nodos', k),
                        k \notin pisadas'
                 PROVE  Coherente(nodos'[k].conexion)
      BY DEF EquiposCoherentes, Vivos, Vivo, De, VivoEn
    <3>1. VivoEn(nodos, k) /\ nodos'[k] = nodos[k] /\ n \notin Linaje[k]
      BY <2>1 DEF VivoEn
    <3>2. k # n
      BY <3>1, LinajeSube
    <3>3. k \notin pisadas
      BY <1>2, <3>2
    <3> QED BY <3>1, <3>3 DEF Inv, EquiposCoherentes, Vivos, Vivo, De, VivoEn
  <2> QED BY <1>0, <1>3, <2>2, <2>3, TablaEsDespues, TerminaPaso DEF Inv
<1>6. CASE q.nueva # Borrado
  <2>1. nodos' = [m \in Nodos |-> IF m = n THEN Escrita(q) ELSE nodos[m]]
    BY <1>6 DEF Commit
  <2>2. EnSitio(n, Escrita(q))
    BY <1>0, <1>6, EscritaBien
  <2>3. ~ChocaEnLaBase(n, Escrita(q))
    BY <1>0, <1>6 DEF LaBaseAcepta
  <2>4. \A m \in Nodos : Rival(n, m) /\ VivoEn(nodos, m) =>
          ~Igual(NivelDe[n], nodos[m], Escrita(q))
    BY <1>1, <2>3, ChocaEs DEF Vivo, VivoEn
  <2>5. PadreDe[n] # Nulo => VivoEn(nodos, PadreDe[n])
    <3>1. CASE q.leida = SinCrear
      BY <1>0, <1>6, <3>1 DEF LaBaseAcepta, Vivo, VivoEn
    <3>2. CASE q.leida # SinCrear
      BY <1>0, <1>1, <1>4, <1>6, <3>2 DEF LaBaseAcepta, Vivo, VivoEn, Tabla
    <3> QED BY <3>1, <3>2
  <2>6. Tabla(nodos')
    <3> HIDE DEF n, q
    <3> QED BY <1>1, <1>4, <2>1, <2>2, <2>4, <2>5, TablaEscribe
  <2>7. EquiposCoherentes'
    <3> SUFFICES ASSUME NEW k \in Nodos, NivelDe[k] = "equipment", VivoEn(nodos', k),
                        k \notin pisadas'
                 PROVE  Coherente(nodos'[k].conexion)
      BY DEF EquiposCoherentes, Vivos, Vivo, De, VivoEn
    <3>1. CASE k = n
      <4>1. nodos[n] = q.leida
        BY <1>2, <3>1
      <4> QED BY <1>0, <1>6, <2>1, <3>1, <4>1, EscritaBien
    <3>2. CASE k # n
      <4>1. nodos'[k] = nodos[k] /\ k \notin pisadas /\ VivoEn(nodos, k)
        BY <1>2, <2>1, <3>2 DEF VivoEn
      <4> QED BY <4>1 DEF Inv, EquiposCoherentes, Vivos, Vivo, De, VivoEn
    <3> QED BY <3>1, <3>2
  <2> QED BY <1>0, <1>3, <2>6, <2>7, TablaEsDespues, TerminaPaso DEF Inv
<1> QED BY <1>5, <1>6

LEMMA RollbackPaso ==
  ASSUME Inv, NEW p \in Peticiones, Rollback(p)
  PROVE  Inv'
<1>1. peticiones' = [peticiones EXCEPT ![p] = Libre] /\ UNCHANGED <<nodos, pisadas>>
  BY DEF Rollback
<1>2. EquiposCoherentes'
  BY <1>1 DEF Inv, EquiposCoherentes, Vivos, Vivo
<1> QED BY <1>1, <1>2, TablaEs, TablaEsDespues, TerminaPaso DEF Inv

LEMMA Comienzo == Init => Inv
<1> SUFFICES ASSUME Init PROVE Inv
  OBVIOUS
<1>1. Tabla(nodos)
  BY DEF Init, Tabla, VivoEn
<1>2. \A p \in Peticiones : peticiones[p].fase # "escribe"
  BY DEF Init, Libre
<1>3. EquiposCoherentes
  BY DEF Init, EquiposCoherentes, Vivos, Vivo, De
<1> QED BY <1>1, <1>2, <1>3, TablaEs DEF Init, Inv, PorEscribir, Sesiones

\* The requests of every service come down to the same three.
LEMMA PasoEs ==
  ASSUME Next
  PROVE  \E p \in Peticiones :
           \/ Commit(p) \/ Rollback(p)
           \/ \E n \in Nodos : Crear(p, n) \/ Actualizar(p, n) \/ Borrar(p, n)
BY DEF Next, ClientService, SiteService, GatewayService, EquipmentService,
       VariableService, TariffService

LEMMA Paso == Inv /\ [Next]_vars => Inv'
<1> SUFFICES ASSUME Inv, [Next]_vars PROVE Inv'
  OBVIOUS
<1>1. CASE UNCHANGED vars
  <2>1. EquiposCoherentes' /\ PorEscribir'
    BY <1>1 DEF vars, Inv, EquiposCoherentes, PorEscribir, Vivos, Vivo
  <2> QED BY <1>1, <2>1, TablaEs, TablaEsDespues DEF vars, Inv
<1>2. ASSUME NEW p \in Peticiones, NEW n \in Nodos, Crear(p, n) PROVE Inv'
  BY <1>2, EmpiezaPaso DEF Crear
<1>3. ASSUME NEW p \in Peticiones, NEW n \in Nodos, Actualizar(p, n) PROVE Inv'
  BY <1>3, EmpiezaPaso DEF Actualizar
<1>4. ASSUME NEW p \in Peticiones, NEW n \in Nodos, Borrar(p, n) PROVE Inv'
  BY <1>4, EmpiezaPaso DEF Borrar
<1> QED BY <1>1, <1>2, <1>3, <1>4, PasoEs, CommitPaso, RollbackPaso

LEMMA Siempre == Spec => []Inv
BY Comienzo, Paso, PTL DEF Spec

\* Whatever overlaps, a row has its parent and is like no other of those it may not
\* be like: the keys of the schema stand behind every test of the services.
THEOREM TipoCorrecto == Spec => []TypeOK
<1>1. Inv => TypeOK
  BY DEF Inv
<1> QED BY <1>1, Siempre, PTL

\* A device has the fields of one transport only, unless the last request that wrote
\* its row had read an older one.
THEOREM Equipos_coherentes == Spec => []EquiposCoherentes
<1>1. Inv => EquiposCoherentes
  BY DEF Inv
<1> QED BY <1>1, Siempre, PTL

-----------------------------------------------------------------------------
(* Names of clients: those that share one, and the requests that are about *)
(* to give it, are no more than the requests there can be.                 *)

Llamados(x) == {n \in Vivos("client") : nodos[n].nombre = x}

\* The requests that leave their client with the name, whatever it has by then.
Pone(q, x) ==
  /\ q.fase = "escribe" /\ q.nueva # Borrado /\ NivelDe[q.nodo] = "client"
  /\ q.nueva.nombre = x
  /\ q.leida # SinCrear => q.leida.nombre # x

Ponen(x) == {p \in Peticiones : Pone(peticiones[p], x)}

Contados ==
  \A x \in Nombres :
    /\ IsFiniteSet(Llamados(x)) /\ Cardinality(Llamados(x)) <= Cardinality(Peticiones)
    /\ Ponen(x) # {} =>
         Cardinality(Llamados(x)) + Cardinality(Ponen(x)) <= Cardinality(Peticiones)

LEMMA Finitas ==
  ASSUME NEW S, S \subseteq Peticiones
  PROVE  /\ IsFiniteSet(S) /\ Cardinality(S) \in Nat /\ Cardinality(Peticiones) \in Nat
         /\ Cardinality(S) <= Cardinality(Peticiones)
BY FS_Subset, FS_CardinalityType

\* Neither more clients of the name nor more requests about to give it.
LEMMA ContadosQueda ==
  ASSUME Contados, NEW x \in Nombres,
         Llamados(x)' \subseteq Llamados(x), Ponen(x)' \subseteq Ponen(x)
  PROVE  /\ IsFiniteSet(Llamados(x)') /\ Cardinality(Llamados(x)') <= Cardinality(Peticiones)
         /\ Ponen(x)' # {} =>
              Cardinality(Llamados(x)') + Cardinality(Ponen(x)') <= Cardinality(Peticiones)
<1>1. IsFiniteSet(Llamados(x)) /\ Cardinality(Llamados(x)) <= Cardinality(Peticiones)
  BY DEF Contados
<1>2. /\ IsFiniteSet(Llamados(x)') /\ Cardinality(Llamados(x)') \in Nat
      /\ Cardinality(Llamados(x)) \in Nat
      /\ Cardinality(Llamados(x)') <= Cardinality(Llamados(x))
  BY <1>1, FS_Subset, FS_CardinalityType
<1>3. Ponen(x) \subseteq Peticiones
  BY DEF Ponen
<1>4. /\ Cardinality(Ponen(x)') \in Nat /\ Cardinality(Ponen(x)) \in Nat
      /\ Cardinality(Ponen(x)') <= Cardinality(Ponen(x))
  BY <1>3, Finitas, FS_Subset, FS_CardinalityType
<1>5. Ponen(x)' # {} =>
        Cardinality(Llamados(x)) + Cardinality(Ponen(x)) <= Cardinality(Peticiones)
  BY DEF Contados
<1> QED BY <1>1, <1>2, <1>3, <1>4, <1>5, Finitas

\* A request that is going to give a name found nobody with it.
LEMMA EmpiezaCuenta ==
  ASSUME Inv, Contados, NEW p \in Peticiones, NEW n \in Nodos, NEW f, Empieza(p, n, f),
         nodos[n] = SinCrear \/ Vivo(n), f \in Payloads(n) \cup {Borrado},
         f # Borrado /\ (nodos[n] = SinCrear \/ f.nombre # nodos[n].nombre)
           => ~NombreTomado(n, f.nombre)
  PROVE  Contados'
<1> DEFINE q == [fase |-> "escribe", nodo |-> n, leida |-> nodos[n], nueva |-> f]
<1>1. peticiones' = [peticiones EXCEPT ![p] = q] /\ UNCHANGED <<nodos, pisadas>>
  BY DEF Empieza
<1>2. \A r \in Peticiones : peticiones'[r] = IF r = p THEN q ELSE peticiones[r]
  BY <1>1, TablaEs DEF Inv
<1>3. peticiones[p].fase # "escribe"
  BY DEF Empieza, Libre
<1> SUFFICES ASSUME NEW x \in Nombres
             PROVE  /\ IsFiniteSet(Llamados(x)')
                    /\ Cardinality(Llamados(x)') <= Cardinality(Peticiones)
                    /\ Ponen(x)' # {} =>
                         Cardinality(Llamados(x)') + Cardinality(Ponen(x)')
                           <= Cardinality(Peticiones)
  BY DEF Contados
<1>4. Llamados(x)' = Llamados(x)
  BY <1>1 DEF Llamados, Vivos, Vivo
<1>5. CASE ~Pone(q, x)
  <2>1. Ponen(x)' \subseteq Ponen(x)
    BY <1>2, <1>5 DEF Ponen
  <2> QED BY <1>4, <2>1, ContadosQueda
<1>6. CASE Pone(q, x)
  <2>1. f # Borrado /\ NivelDe[n] = "client" /\ f.nombre = x
          /\ (nodos[n] # SinCrear => nodos[n].nombre # x)
    BY <1>6 DEF Pone
  <2>2. ~NombreTomado(n, x)
    BY <2>1
  <2>3. Llamados(x) = {}
    <3> SUFFICES ASSUME NEW m \in Llamados(x) PROVE FALSE
      OBVIOUS
    <3>1. m \in Vivos("client") /\ nodos[m].nombre = x
      BY DEF Llamados
    <3>2. m # n
      BY <2>1, <3>1 DEF Vivos, Vivo
    <3> QED BY <2>1, <2>2, <3>1, <3>2 DEF NombreTomado, Rivales
  <2>4. Cardinality(Llamados(x)') = 0 /\ IsFiniteSet(Llamados(x)')
    BY <1>4, <2>3, FS_EmptySet
  <2>5. Ponen(x)' \subseteq Peticiones
    BY DEF Ponen
  <2>6. /\ Cardinality(Ponen(x)') \in Nat /\ Cardinality(Peticiones) \in Nat
        /\ Cardinality(Ponen(x)') <= Cardinality(Peticiones)
    BY <2>5, Finitas
  <2> QED BY <2>4, <2>6
<1> QED BY <1>5, <1>6

LEMMA CommitCuenta ==
  ASSUME Inv, Contados, NEW p \in Peticiones, Commit(p)
  PROVE  Contados'
<1> DEFINE q == peticiones[p]
           n == q.nodo
<1>0. q.fase = "escribe" /\ LaBaseAcepta(q) /\ peticiones' = [peticiones EXCEPT ![p] = Libre]
  BY DEF Commit
<1>1. n \in Nodos /\ q.leida \in Filas \cup {SinCrear} /\ q.nueva \in Filas \cup {Borrado}
  BY <1>0, Sesion DEF Inv
<1>2. \A r \in Peticiones : peticiones'[r] = IF r = p THEN Libre ELSE peticiones[r]
  BY <1>0, TablaEs DEF Inv
<1> SUFFICES ASSUME NEW x \in Nombres
             PROVE  /\ IsFiniteSet(Llamados(x)')
                    /\ Cardinality(Llamados(x)') <= Cardinality(Peticiones)
                    /\ Ponen(x)' # {} =>
                         Cardinality(Llamados(x)') + Cardinality(Ponen(x)')
                           <= Cardinality(Peticiones)
  BY DEF Contados
<1>3. Ponen(x)' = Ponen(x) \ {p}
  BY <1>2 DEF Ponen, Pone, Libre
<1>4. \A k \in Nodos \ {n} : VivoEn(nodos', k) => VivoEn(nodos, k) /\ nodos'[k] = nodos[k]
  BY DEF Commit, VivoEn, Vivo
<1>5. Llamados(x)' \ {n} \subseteq Llamados(x)
  BY <1>4 DEF Llamados, Vivos, Vivo, VivoEn, De
<1>6. CASE p \in Ponen(x)
  <2>1. Llamados(x)' \subseteq Llamados(x) \cup {n}
    BY <1>5
  <2>2. /\ IsFiniteSet(Llamados(x)) /\ Cardinality(Llamados(x)) \in Nat
        /\ Cardinality(Llamados(x)) + Cardinality(Ponen(x)) <= Cardinality(Peticiones)
    BY <1>6, FS_CardinalityType DEF Contados
  <2>3. /\ IsFiniteSet(Llamados(x)') /\ Cardinality(Llamados(x)') \in Nat
        /\ Cardinality(Llamados(x)') <= Cardinality(Llamados(x)) + 1
    <3>1. IsFiniteSet(Llamados(x) \cup {n})
            /\ Cardinality(Llamados(x) \cup {n}) <= Cardinality(Llamados(x)) + 1
      <4> DEFINE L == Llamados(x)
      <4>1. IsFiniteSet(L) /\ Cardinality(L) \in Nat
        BY <2>2
      <4> HIDE DEF L, n
      <4>2. /\ IsFiniteSet(L \cup {n})
            /\ \/ Cardinality(L \cup {n}) = Cardinality(L)
               \/ Cardinality(L \cup {n}) = Cardinality(L) + 1
        BY <4>1, FS_AddElement
      <4> QED BY <4>1, <4>2 DEF L
    <3> QED BY <2>1, <2>2, <3>1, FS_Subset, FS_CardinalityType
  <2>4. Ponen(x) \subseteq Peticiones /\ IsFiniteSet(Ponen(x))
    BY Finitas DEF Ponen
  <2>5. /\ Cardinality(Ponen(x)) \in Nat /\ Cardinality(Ponen(x)') \in Nat
        /\ Cardinality(Ponen(x)') = Cardinality(Ponen(x)) - 1
    BY <1>3, <1>6, <2>4, FS_RemoveElement, FS_CardinalityType
  <2> QED BY <2>2, <2>3, <2>5, Finitas
<1>7. CASE p \notin Ponen(x)
  <2>1. Llamados(x)' \subseteq Llamados(x)
    <3> SUFFICES ASSUME n \in Llamados(x)' PROVE n \in Llamados(x)
      BY <1>5
    <3>1. NivelDe[n] = "client" /\ VivoEn(nodos', n) /\ nodos'[n].nombre = x
      BY DEF Llamados, Vivos, Vivo, VivoEn, De
    <3>2. q.nueva # Borrado
      BY <1>1, <3>1, LinajeSube DEF Commit, VivoEn, Vivo
    <3>3. nodos'[n] = Escrita(q)
      BY <1>1, <3>2 DEF Commit
    <3>4. q.leida # SinCrear
      BY <1>0, <1>7, <3>1, <3>2, <3>3 DEF Ponen, Pone, Escrita
    <3>5. q.nueva.nombre # x \/ q.leida.nombre = x
      BY <1>0, <1>7, <3>1, <3>2 DEF Ponen, Pone
    <3>6. Vivo(n)
      BY <1>0, <3>2, <3>4 DEF LaBaseAcepta
    <3>7. nodos'[n].nombre = IF q.nueva.nombre # q.leida.nombre THEN q.nueva.nombre
                                                              ELSE nodos[n].nombre
      BY <3>3, <3>4 DEF Escrita, Mezcla
    <3> QED BY <1>1, <3>1, <3>5, <3>6, <3>7 DEF Llamados, Vivos, De
  <2> QED BY <1>3, <2>1, ContadosQueda
<1> QED BY <1>6, <1>7

LEMMA RollbackCuenta ==
  ASSUME Inv, Contados, NEW p \in Peticiones, Rollback(p)
  PROVE  Contados'
<1>1. peticiones' = [peticiones EXCEPT ![p] = Libre] /\ UNCHANGED <<nodos, pisadas>>
  BY DEF Rollback
<1>2. \A r \in Peticiones : peticiones'[r] = IF r = p THEN Libre ELSE peticiones[r]
  BY <1>1, TablaEs DEF Inv
<1>3. ASSUME NEW x \in Nombres
      PROVE  Llamados(x)' \subseteq Llamados(x) /\ Ponen(x)' \subseteq Ponen(x)
  BY <1>1, <1>2 DEF Llamados, Vivos, Vivo, Ponen, Pone, Libre
<1> QED BY <1>3, ContadosQueda DEF Contados

LEMMA ComienzoCuenta == Init => Contados
<1> SUFFICES ASSUME Init, NEW x \in Nombres
             PROVE  /\ IsFiniteSet(Llamados(x))
                    /\ Cardinality(Llamados(x)) <= Cardinality(Peticiones)
                    /\ Ponen(x) = {}
  BY DEF Contados
<1>1. Llamados(x) = {}
  BY DEF Init, Llamados, Vivos, Vivo, De
<1>2. Ponen(x) = {}
  BY DEF Init, Ponen, Pone, Libre
<1> QED BY <1>1, <1>2, FS_EmptySet, Finitas

LEMMA PasoCuenta == Inv /\ Contados /\ [Next]_vars => Contados'
<1> SUFFICES ASSUME Inv, Contados, [Next]_vars PROVE Contados'
  OBVIOUS
<1>1. CASE UNCHANGED vars
  BY <1>1 DEF vars, Contados, Llamados, Vivos, Vivo, Ponen
<1>2. ASSUME NEW p \in Peticiones, NEW n \in Nodos, Crear(p, n) PROVE Contados'
  BY <1>2, EmpiezaCuenta DEF Crear
<1>3. ASSUME NEW p \in Peticiones, NEW n \in Nodos, Actualizar(p, n) PROVE Contados'
  BY <1>3, EmpiezaCuenta DEF Actualizar, Vivo
<1>4. ASSUME NEW p \in Peticiones, NEW n \in Nodos, Borrar(p, n) PROVE Contados'
  BY <1>4, EmpiezaCuenta DEF Borrar
<1> QED BY <1>1, <1>2, <1>3, <1>4, PasoEs, CommitCuenta, RollbackCuenta

\* As many clients share a name as there can be requests at once, and no more.
THEOREM Nombres_acotados == Spec => []NombresAcotados
<1>1. Contados => NombresAcotados
  BY DEF Contados, NombresAcotados, Llamados
<1> QED BY <1>1, Siempre, ComienzoCuenta, PasoCuenta, PTL DEF Spec

-----------------------------------------------------------------------------
(* What callers read (module Flota).                                       *)

LEMMA PadreVivo ==
  ASSUME TypeOK, NEW n \in Nodos, Vivo(n)
  PROVE  /\ NivelDe[n] \notin {"client", "tariff"} =>
              Arriba(n) \in Nodos /\ Vivo(Arriba(n)) /\ Arriba(n) = PadreDe[n]
         /\ PadreDe[n] # Nulo => NivelDe[n] \notin {"client", "tariff"}
BY Escalon DEF TypeOK

\* All that a row hangs from is there.
LEMMA LinajeVivo ==
  ASSUME TypeOK, NEW n \in Nodos, Vivo(n)
  PROVE  \A m \in Linaje[n] : m \in Nodos /\ Vivo(m)
<1>1. CASE NivelDe[n] \in {"client", "tariff"}
  BY <1>1, LinajePorNivel
<1>2. CASE NivelDe[n] = "site"
  BY <1>2, LinajePorNivel, PadreVivo
<1>3. CASE NivelDe[n] = "gateway"
  <2>1. Arriba(n) \in Nodos /\ Vivo(Arriba(n)) /\ NivelDe[Arriba(n)] = "site"
    BY <1>3, PadreVivo, Escalon
  <2>2. Arriba(Arriba(n)) \in Nodos /\ Vivo(Arriba(Arriba(n)))
    BY <2>1, PadreVivo
  <2> QED BY <1>3, <2>1, <2>2, LinajePorNivel
<1>4. CASE NivelDe[n] \in {"equipment", "variable"}
  <2>1. /\ Arriba(n) \in Nodos /\ Vivo(Arriba(n))
        /\ NivelDe[n] = "equipment" => NivelDe[Arriba(n)] = "gateway"
        /\ NivelDe[n] = "variable" => NivelDe[Arriba(n)] = "equipment"
    BY <1>4, PadreVivo, Escalon
  <2>2. /\ Arriba(Arriba(n)) \in Nodos /\ Vivo(Arriba(Arriba(n)))
        /\ NivelDe[n] = "equipment" => NivelDe[Arriba(Arriba(n))] = "site"
        /\ NivelDe[n] = "variable" => NivelDe[Arriba(Arriba(n))] = "gateway"
    BY <1>4, <2>1, PadreVivo, Escalon
  <2>3. /\ Arriba(Arriba(Arriba(n))) \in Nodos /\ Vivo(Arriba(Arriba(Arriba(n))))
        /\ NivelDe[n] = "variable" => NivelDe[Arriba(Arriba(Arriba(n)))] = "site"
    BY <1>4, <2>2, PadreVivo, Escalon
  <2>4. NivelDe[n] = "variable" => /\ Arriba(Arriba(Arriba(Arriba(n)))) \in Nodos
                                   /\ Vivo(Arriba(Arriba(Arriba(Arriba(n)))))
    BY <1>4, <2>3, PadreVivo
  <2> QED BY <1>4, <2>1, <2>2, <2>3, <2>4, LinajePorNivel
<1> QED BY <1>1, <1>2, <1>3, <1>4, Escalon DEF Niveles

LEMMA DuenoEs ==
  ASSUME TypeOK, NEW n \in Nodos
  PROVE  DuenoDe(n) = IF Vivo(n) THEN Linaje[n] \cap Clientes ELSE {}
BY LinajeVivo, LinajeSube DEF DuenoDe

\* A client owns itself; any other row is its parent's owner's.
LEMMA DuenoSube ==
  ASSUME TypeOK, NEW n \in Nodos, Vivo(n)
  PROVE  /\ NivelDe[n] = "client" => DuenoDe(n) = {n}
         /\ NivelDe[n] = "tariff" => DuenoDe(n) = {}
         /\ PadreDe[n] # Nulo =>
              /\ PadreDe[n] \in Nodos /\ Vivo(PadreDe[n])
              /\ NivelDe[PadreDe[n]] = Sobre(NivelDe[n])
              /\ DuenoDe(n) = DuenoDe(PadreDe[n])
<1>1. DuenoDe(n) = Linaje[n] \cap Clientes
  BY DuenoEs
<1>2. CASE NivelDe[n] \in {"client", "tariff"}
  BY <1>1, <1>2, LinajePorNivel, PadreVivo DEF Clientes
<1>3. CASE NivelDe[n] \notin {"client", "tariff"}
  <2> DEFINE m == Arriba(n)
  <2>1. m \in Nodos /\ Vivo(m) /\ m = PadreDe[n] /\ NivelDe[m] = Sobre(NivelDe[n])
    BY <1>3, PadreVivo
  <2>2. DuenoDe(m) = Linaje[m] \cap Clientes
    BY <2>1, DuenoEs
  <2>3. Linaje[n] = Linaje[m] \cup {n}
    <3>1. CASE NivelDe[n] = "site"
      BY <2>1, <3>1, LinajePorNivel, Escalon
    <3>2. CASE NivelDe[n] = "gateway"
      BY <2>1, <3>2, LinajePorNivel, Escalon
    <3>3. CASE NivelDe[n] = "equipment"
      BY <2>1, <3>3, LinajePorNivel, Escalon
    <3>4. CASE NivelDe[n] = "variable"
      BY <2>1, <3>4, LinajePorNivel, Escalon
    <3> QED BY <1>3, <3>1, <3>2, <3>3, <3>4, Escalon DEF Niveles
  <2>4. n \notin Clientes
    BY <1>3 DEF Clientes
  <2> QED BY <1>1, <1>3, <2>1, <2>2, <2>3, <2>4
<1> QED BY <1>2, <1>3

\* Every row of the five levels has one owner.
LEMMA UnDueno ==
  ASSUME TypeOK, NEW n \in Nodos, Vivo(n), NivelDe[n] # "tariff"
  PROVE  \E c \in Clientes : DuenoDe(n) = {c}
<1>1. ASSUME NEW k \in Nodos, Vivo(k), NivelDe[k] = "client"
      PROVE  \E c \in Clientes : DuenoDe(k) = {c}
  BY <1>1, DuenoSube DEF Clientes
<1>2. ASSUME NEW k \in Nodos, Vivo(k), NivelDe[k] = "site"
      PROVE  \E c \in Clientes : DuenoDe(k) = {c}
  BY <1>1, <1>2, DuenoSube, Escalon, PadreVivo
<1>3. ASSUME NEW k \in Nodos, Vivo(k), NivelDe[k] = "gateway"
      PROVE  \E c \in Clientes : DuenoDe(k) = {c}
  BY <1>2, <1>3, DuenoSube, Escalon, PadreVivo
<1>4. ASSUME NEW k \in Nodos, Vivo(k), NivelDe[k] = "equipment"
      PROVE  \E c \in Clientes : DuenoDe(k) = {c}
  BY <1>3, <1>4, DuenoSube, Escalon, PadreVivo
<1>5. ASSUME NEW k \in Nodos, Vivo(k), NivelDe[k] = "variable"
      PROVE  \E c \in Clientes : DuenoDe(k) = {c}
  BY <1>4, <1>5, DuenoSube, Escalon, PadreVivo
<1> QED BY <1>1, <1>2, <1>3, <1>4, <1>5, Escalon DEF Niveles

-----------------------------------------------------------------------------
\* The rows of a level under every client that is asked for: what each way of
\* reading comes down to.
Alcanzadas(nivel, pedidos) == {n \in Vivos(nivel) : pedidos \subseteq DuenoDe(n)}

Pisos == {"client", "site", "gateway", "equipment", "variable"}

LEMMA LegiblesEs ==
  ASSUME TypeOK, NEW nivel \in Pisos, NEW visible, NEW filtro
  PROVE  Legibles(nivel, visible, filtro) = Alcanzadas(nivel, Pedidos(visible, filtro))
<1> SUFFICES ASSUME NEW n \in Nodos, Vivo(n), NivelDe[n] = nivel
             PROVE  (Get(visible, n) /\ (filtro # Nulo => filtro \in DuenoDe(n)))
                      <=> Pedidos(visible, filtro) \subseteq DuenoDe(n)
  BY DEF Legibles, Alcanzadas, Vivos, De
<1>1. PICK c \in Clientes : DuenoDe(n) = {c}
  BY UnDueno DEF Pisos
<1> QED BY <1>1 DEF Get, MayReadClient, Pedidos, Clientes

LEMMA RaicesSon ==
  ASSUME TypeOK, NEW pedidos
  PROVE  {c \in Vivos("client") : \A d \in pedidos : c = d} = Alcanzadas("client", pedidos)
BY DuenoSube DEF Alcanzadas, Vivos, De

\* Going down one level keeps to the rows asked for.
LEMMA HijosSon ==
  ASSUME TypeOK, NEW pedidos, NEW nivel \in Pisos \ {"client"}
  PROVE  Hijos(Alcanzadas(Sobre(nivel), pedidos), nivel) = Alcanzadas(nivel, pedidos)
<1> SUFFICES ASSUME NEW m \in Nodos, Vivo(m), NivelDe[m] = nivel
             PROVE  PadreDe[m] \in Alcanzadas(Sobre(nivel), pedidos)
                      <=> pedidos \subseteq DuenoDe(m)
  BY DEF Hijos, Alcanzadas, Vivos, De
<1>1. PadreDe[m] # Nulo
  BY Escalon, PadreVivo DEF Pisos
<1> QED BY <1>1, DuenoSube DEF Alcanzadas, Vivos, De

LEMMA ArbolEs ==
  ASSUME TypeOK, NEW pedidos
  PROVE  ListClientTrees(pedidos) = [nivel \in Pisos |-> Alcanzadas(nivel, pedidos)]
<1>1. /\ Sobre("site") = "client" /\ Sobre("gateway") = "site"
      /\ Sobre("equipment") = "gateway" /\ Sobre("variable") = "equipment"
  BY DEF Sobre
<1>2. /\ Hijos(Alcanzadas("client", pedidos), "site") = Alcanzadas("site", pedidos)
      /\ Hijos(Alcanzadas("site", pedidos), "gateway") = Alcanzadas("gateway", pedidos)
      /\ Hijos(Alcanzadas("gateway", pedidos), "equipment")
           = Alcanzadas("equipment", pedidos)
      /\ Hijos(Alcanzadas("equipment", pedidos), "variable")
           = Alcanzadas("variable", pedidos)
  BY <1>1, HijosSon DEF Pisos
<1> DEFINE arbol == ListClientTrees(pedidos)
<1>3. {c \in Vivos("client") : \A d \in pedidos : c = d} = Alcanzadas("client", pedidos)
  BY RaicesSon
<1>4. arbol = [client |-> Alcanzadas("client", pedidos), site |-> Alcanzadas("site", pedidos),
               gateway |-> Alcanzadas("gateway", pedidos),
               equipment |-> Alcanzadas("equipment", pedidos),
               variable |-> Alcanzadas("variable", pedidos)]
  BY <1>2, <1>3 DEF ListClientTrees
<1>5. DOMAIN arbol = Pisos
  BY <1>4 DEF Pisos
<1>6. arbol = [nivel \in DOMAIN arbol |-> arbol[nivel]]
  BY <1>4
<1>7. \A nivel \in Pisos : arbol[nivel] = Alcanzadas(nivel, pedidos)
  BY <1>4 DEF Pisos
<1> HIDE DEF arbol
<1>8. arbol = [nivel \in Pisos |-> Alcanzadas(nivel, pedidos)]
  BY <1>5, <1>6, <1>7
<1> QED BY <1>8 DEF arbol

LEMMA SitesSon ==
  ASSUME TypeOK, NEW pedidos
  PROVE  ListSites(pedidos) = Alcanzadas("site", pedidos)
<1> SUFFICES ASSUME NEW s \in Nodos, Vivo(s), NivelDe[s] = "site"
             PROVE  DuenoDe(s) = {PadreDe[s]}
  BY DEF ListSites, Alcanzadas, Vivos, De
<1> QED BY DuenoSube, Escalon, PadreVivo

\* The client of a gateway, two levels up, and of a device, three.
LEMMA DuenoDeGateway ==
  ASSUME TypeOK, NEW g \in Nodos, Vivo(g), NivelDe[g] = "gateway"
  PROVE  /\ PadreDe[g] \in Vivos("site") /\ PadreDe[PadreDe[g]] \in Vivos("client")
         /\ DuenoDe(g) = {PadreDe[PadreDe[g]]}
<1>1. PadreDe[g] \in Nodos /\ Vivo(PadreDe[g]) /\ NivelDe[PadreDe[g]] = "site"
        /\ DuenoDe(g) = DuenoDe(PadreDe[g])
  BY DuenoSube, Escalon, PadreVivo
<1>2. PadreDe[PadreDe[g]] \in Nodos /\ Vivo(PadreDe[PadreDe[g]])
        /\ NivelDe[PadreDe[PadreDe[g]]] = "client"
        /\ DuenoDe(PadreDe[g]) = {PadreDe[PadreDe[g]]}
  BY <1>1, DuenoSube, Escalon, PadreVivo
<1> QED BY <1>1, <1>2 DEF Vivos, De

LEMMA GatewaysSon ==
  ASSUME TypeOK, NEW pedidos
  PROVE  /\ ListGateways(pedidos) = Alcanzadas("gateway", pedidos)
         /\ ListOfflineGateways(pedidos) = Alcanzadas("gateway", pedidos)
<1>1. \A g \in Vivos("gateway") :
        /\ PadreDe[g] \in Vivos("site") /\ PadreDe[PadreDe[g]] \in Vivos("client")
        /\ DuenoDe(g) = {PadreDe[PadreDe[g]]}
  BY DuenoDeGateway DEF Vivos, De
<1> QED BY <1>1 DEF ListGateways, ListOfflineGateways, Alcanzadas

LEMMA EquipmentSon ==
  ASSUME TypeOK, NEW pedidos
  PROVE  ListEquipment(pedidos) = Alcanzadas("equipment", pedidos)
<1>1. \A e \in Vivos("equipment") :
        /\ PadreDe[e] \in Vivos("gateway") /\ DuenoDe(e) = DuenoDe(PadreDe[e])
  BY DuenoSube, Escalon, PadreVivo DEF Vivos, De
<1>2. \A g \in Vivos("gateway") :
        PadreDe[g] \in Vivos("site") /\ DuenoDe(g) = {PadreDe[PadreDe[g]]}
  BY DuenoDeGateway DEF Vivos, De
<1> QED BY <1>1, <1>2 DEF ListEquipment, Alcanzadas

LEMMA ListForEs ==
  ASSUME TypeOK, NEW visible, NEW n \in Nodos
  PROVE  ListFor(visible, n) = {m \in Nodos : Vivo(m) /\ PadreDe[m] = n /\ Get(visible, m)}
<1> SUFFICES ASSUME NEW m \in Nodos, Vivo(m), PadreDe[m] = n
             PROVE  Get(visible, n) <=> Get(visible, m)
  BY DEF ListFor
<1>1. n # Nulo
  OBVIOUS
<1> QED BY <1>1, DuenoSube DEF Get

\* A tree cut at a level has the parent of every row it shows.
LEMMA CorteEs ==
  ASSUME TypeOK, NEW pedidos, NEW hasta \in DOMAIN Orden,
         NEW nivel \in DOMAIN ClientFleet(ListClientTrees(pedidos), hasta),
         NEW m \in ClientFleet(ListClientTrees(pedidos), hasta)[nivel], nivel # "client"
  PROVE  PadreDe[m] \in ClientFleet(ListClientTrees(pedidos), hasta)[Sobre(nivel)]
<1> DEFINE arbol == ListClientTrees(pedidos)
           cortes == {"client"} \cup {Orden[i] : i \in 1..hasta}
<1>1. arbol = [piso \in Pisos |-> Alcanzadas(piso, pedidos)]
  BY ArbolEs
<1>2. ClientFleet(arbol, hasta) = [piso \in cortes |-> arbol[piso]]
  BY DEF ClientFleet
<1>3. hasta \in 1..4 /\ Orden[1] = "site" /\ Orden[2] = "gateway"
        /\ Orden[3] = "equipment" /\ Orden[4] = "variable"
  BY DEF Orden
<1>4. nivel \in cortes
  BY <1>2
<1>5. PICK i \in 1..hasta : nivel = Orden[i]
  BY <1>4
<1>6. i \in {1, 2, 3, 4}
  BY <1>3, <1>5
<1>7. nivel \in Pisos \ {"client"} /\ Sobre(nivel) \in Pisos
  BY <1>3, <1>5, <1>6 DEF Pisos, Sobre
<1>8. Sobre(nivel) \in cortes
  <2>1. CASE i = 1
    BY <1>3, <1>5, <2>1 DEF Sobre
  <2>2. CASE i # 1
    <3>1. i - 1 \in 1..hasta /\ Orden[i - 1] = Sobre(nivel)
      BY <1>3, <1>5, <1>6, <2>2 DEF Sobre
    <3> QED BY <3>1
  <2> QED BY <2>1, <2>2
<1> HIDE DEF cortes, arbol
<1>9. m \in Alcanzadas(nivel, pedidos)
  BY <1>1, <1>2, <1>4, <1>7 DEF arbol
<1>10. PadreDe[m] \in Alcanzadas(Sobre(nivel), pedidos)
  BY <1>7, <1>9, HijosSon DEF Hijos
<1> QED BY <1>1, <1>2, <1>7, <1>8, <1>10 DEF arbol

\* The summary counts the rows that a caller can read one by one.
LEMMA ResumenEs ==
  ASSUME TypeOK, NEW visible
  PROVE  LET pedidos == Pedidos(visible, Nulo)
             arbol   == ListClientTrees(pedidos)
             resumen == SummariseClients(pedidos)
         IN  /\ DOMAIN resumen = arbol.client
             /\ \A c \in arbol.client : \A nivel \in DOMAIN resumen[c] :
                  resumen[c][nivel] = Cardinality(Legibles(nivel, visible, c))
<1> DEFINE pedidos == Pedidos(visible, Nulo)
           arbol   == ListClientTrees(pedidos)
           resumen == SummariseClients(pedidos)
           raices == {d \in Vivos("client") : \A e \in pedidos : d = e}
           Cuenta(c) == [nivel \in Pisos \ {"client"} |->
                           Cardinality({n \in Vivos(nivel) : c \in DuenoDe(n)})]
<1>1. arbol.client = raices
  BY ArbolEs, RaicesSon DEF Pisos
<1>2. Pisos \ {"client"} = {"site", "gateway", "equipment", "variable"}
  BY DEF Pisos
<1>3. resumen = [c \in raices |-> Cuenta(c)]
  BY <1>2 DEF SummariseClients
<1>4. ASSUME NEW c \in raices, NEW nivel \in Pisos \ {"client"}
      PROVE  {n \in Vivos(nivel) : c \in DuenoDe(n)} = Legibles(nivel, visible, c)
  <2>1. c \in Nodos /\ c # Nulo /\ \A e \in pedidos : e = c
    BY DEF Vivos, De
  <2>2. Pedidos(visible, c) = {c}
    BY <2>1 DEF Pedidos
  <2> QED BY <2>2, LegiblesEs DEF Alcanzadas
<1> HIDE DEF raices, pedidos, arbol, resumen
<1>5. DOMAIN resumen = arbol.client
  BY <1>1, <1>3
<1>6. ASSUME NEW c \in arbol.client, NEW nivel \in DOMAIN resumen[c]
      PROVE  resumen[c][nivel] = Cardinality(Legibles(nivel, visible, c))
  BY <1>1, <1>3, <1>4
<1> QED BY <1>5, <1>6 DEF pedidos, arbol, resumen

LEMMA LecturasSiBien == TypeOK => LecturasCoinciden
<1> SUFFICES ASSUME TypeOK, NEW visible \in Visibles
    PROVE
    /\ ListEquipment(Pedidos(visible, Nulo)) = Legibles("equipment", visible, Nulo)
    /\ ListOfflineGateways(Pedidos(visible, Nulo)) = Legibles("gateway", visible, Nulo)
    /\ \A n \in Nodos : ListFor(visible, n) =
         {m \in Nodos : Vivo(m) /\ PadreDe[m] = n /\ Get(visible, m)}
    /\ \A filtro \in Clientes \cup {Nulo} :
         LET pedidos == Pedidos(visible, filtro)
             arbol   == ListClientTrees(pedidos)
         IN  /\ ListSites(pedidos) = Legibles("site", visible, filtro)
             /\ ListGateways(pedidos) = Legibles("gateway", visible, filtro)
             /\ \A nivel \in DOMAIN arbol : arbol[nivel] = Legibles(nivel, visible, filtro)
             /\ \A hasta \in DOMAIN Orden : \A nivel \in DOMAIN ClientFleet(arbol, hasta) :
                  \A m \in ClientFleet(arbol, hasta)[nivel] :
                    nivel = "client" \/ PadreDe[m] \in ClientFleet(arbol, hasta)[Sobre(nivel)]
             /\ filtro = Nulo =>
                  LET resumen == SummariseClients(pedidos)
                  IN  /\ DOMAIN resumen = arbol.client
                      /\ \A c \in arbol.client : \A nivel \in DOMAIN resumen[c] :
                           resumen[c][nivel] = Cardinality(Legibles(nivel, visible, c))
  BY DEF LecturasCoinciden
<1>0. {"site", "gateway", "equipment"} \subseteq Pisos
  BY DEF Pisos
<1>1. /\ ListEquipment(Pedidos(visible, Nulo)) = Legibles("equipment", visible, Nulo)
      /\ ListOfflineGateways(Pedidos(visible, Nulo)) = Legibles("gateway", visible, Nulo)
  BY <1>0, EquipmentSon, GatewaysSon, LegiblesEs
<1>2. \A n \in Nodos : ListFor(visible, n) =
         {m \in Nodos : Vivo(m) /\ PadreDe[m] = n /\ Get(visible, m)}
  BY ListForEs
<1>3. ASSUME NEW filtro \in Clientes \cup {Nulo}
      PROVE  /\ ListSites(Pedidos(visible, filtro)) = Legibles("site", visible, filtro)
             /\ ListGateways(Pedidos(visible, filtro)) = Legibles("gateway", visible, filtro)
             /\ \A nivel \in DOMAIN ListClientTrees(Pedidos(visible, filtro)) :
                  ListClientTrees(Pedidos(visible, filtro))[nivel]
                    = Legibles(nivel, visible, filtro)
  BY <1>0, SitesSon, GatewaysSon, ArbolEs, LegiblesEs
<1> QED BY <1>1, <1>2, <1>3, CorteEs, ResumenEs

\* Whoever asks, the rows one by one, the listings, the nested tree and the summary
\* agree, for any tree and any interleaving of the requests that change it.
THEOREM Lecturas_coinciden == Spec => []LecturasCoinciden
BY TipoCorrecto, LecturasSiBien, PTL

=============================================================================
