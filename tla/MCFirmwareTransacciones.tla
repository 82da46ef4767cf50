---------------------- MODULE MCFirmwareTransacciones -----------------------
(* Two requests over the row of one gateway.                                *)
EXTENDS FirmwareTransacciones, TLC

CONSTANTS g1, r1, v1, p1, p2

MCVersionDe == r1 :> v1
Simetria == Permutations({p1, p2})
=============================================================================
