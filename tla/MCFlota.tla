------------------------------- MODULE MCFlota -------------------------------
(* One request at a time over a whole tree: a client with a chain down to  *)
(* a variable, a client with a gateway of its own, and a month's tariff.   *)
EXTENDS Flota, TLC

CONSTANTS c1, c2, s1, s2, g1, g2, e1, v1, t1, x, y, p1

MCNivelDe ==
  c1 :> "client" @@ c2 :> "client" @@ s1 :> "site" @@ s2 :> "site" @@ g1 :> "gateway"
    @@ g2 :> "gateway" @@ e1 :> "equipment" @@ v1 :> "variable" @@ t1 :> "tariff"

MCPadreDe ==
  c1 :> Nulo @@ c2 :> Nulo @@ s1 :> c1 @@ s2 :> c2 @@ g1 :> s1 @@ g2 :> s2
    @@ e1 :> g1 @@ v1 :> e1 @@ t1 :> Nulo

MCNombresDe == [n \in Nodos |-> IF n \in {c2, s2, e1, t1} THEN {x} ELSE {x, y}]
=============================================================================
