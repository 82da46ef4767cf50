----------------------------- MODULE MCJerarquia -----------------------------
(* Two requests: three clients that may get the same name, and one chain   *)
(* of nodes down to two devices that may get the same name and address.    *)
EXTENDS Jerarquia, TLC

CONSTANTS c1, c2, c3, s1, g1, e1, e2, x, y, p1, p2

MCNivelDe ==
  c1 :> "client" @@ c2 :> "client" @@ c3 :> "client" @@ s1 :> "site" @@ g1 :> "gateway"
    @@ e1 :> "equipment" @@ e2 :> "equipment"

MCPadreDe ==
  c1 :> Nulo @@ c2 :> Nulo @@ c3 :> Nulo @@ s1 :> c1 @@ g1 :> s1 @@ e1 :> g1 @@ e2 :> g1

MCNombresDe == [n \in Nodos |-> IF n = e2 THEN {x, y} ELSE {x}]

Simetria == Permutations({c2, c3}) \cup Permutations({p1, p2})
=============================================================================
