------------------------- MODULE MCCuentasServicio --------------------------
(* One account and two requests: accounts meet only at their names.        *)
EXTENDS CuentasServicio, TLC

CONSTANTS s1, p1, p2

Simetria == Permutations({p1, p2})
=============================================================================
