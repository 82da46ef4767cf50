----------------------------- MODULE MCSesiones -----------------------------
(* One account: tokens and keys of two never meet, but at the source.       *)
EXTENDS Sesiones, TLC

CONSTANTS u1, c1, c2

Simetria == Permutations({c1, c2})
=============================================================================
