------------------------- MODULE MCVentanaFirmware --------------------------
(* Days of twelve instants and changes of clock of two, so that an hour can *)
(* fall inside the stretch that a change skips or repeats; the changes come *)
(* on the second day, two instants after midnight.                          *)
EXTENDS VentanaFirmware

MCZonas == {[antes |-> -3, despues |-> -3, salto |-> 14],
            [antes |-> 0,  despues |-> 2,  salto |-> 14],
            [antes |-> 2,  despues |-> 0,  salto |-> 14]}
MCFija == {[antes |-> 0, despues |-> 0, salto |-> 14]}
=============================================================================
