-------------------------- MODULE MCFirmwareEquipo --------------------------
(* One device and one release it may or may not already run.                *)
EXTENDS FirmwareEquipo, TLC

CONSTANTS g1, r1, v0, v1

MCVersionDe == r1 :> v1
=============================================================================
