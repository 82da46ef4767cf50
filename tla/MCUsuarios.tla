----------------------------- MODULE MCUsuarios -----------------------------
(* Two requests at once, two addresses, three rows: the second address may  *)
(* get a row, lose it and get another one, or be asked for by two requests. *)
EXTENDS Usuarios, TLC

CONSTANTS u1, u2, u3, c1, p1, p2

MCCorreoDe == [u \in Cuentas |-> IF u = u1 THEN "e1" ELSE "e2"]
MCContacto == [c \in Clientes |-> "e2"]

Simetria == Permutations({p1, p2}) \cup Permutations({u2, u3})
=============================================================================
