---------------------- MODULE MCFirmwareActualizacion -----------------------
(* A small fleet for TLC: two releases that name different versions, and    *)
(* one version the fleet may already run.                                   *)
EXTENDS FirmwareActualizacion, TLC

CONSTANTS g1, r1, r2, v0, v1, v2

MCVersionDe == r1 :> v1 @@ r2 :> v2
=============================================================================
