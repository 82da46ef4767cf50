-------------------------- MODULE MCConfigEntrega ---------------------------
(* Two requests of the device in the server at once, so that one it has     *)
(* given up can overlap the next.                                           *)
EXTENDS ConfigEntrega

CONSTANTS p1, p2
=============================================================================
