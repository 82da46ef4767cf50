-------------------------- MODULE FirmwareAbstracta -------------------------
(***************************************************************************)
(* What the firmware service promises about each gateway, with nothing of  *)
(* how it keeps it: no catalogue, no reported versions, no windows.        *)
(*                                                                         *)
(*   - a gateway asked to install a package starts at most MaxIntentos     *)
(*     downloads of it, and a retry does not refill the budget;            *)
(*   - the package is never swapped under a download or a restart;         *)
(*   - once the device restarts with it, the order can no longer be taken  *)
(*     back: only the device's word ends that stage.                       *)
(***************************************************************************)
EXTENDS Naturals

CONSTANTS Gateways, Releases, MaxIntentos, Nulo

VARIABLES paquete,     \* the package each gateway was asked to install
          etapa,       \* what the device is doing about it
          restantes    \* downloads it may still start

vars == <<paquete, etapa, restantes>>

Init ==
  /\ paquete = [g \in Gateways |-> Nulo]
  /\ etapa = [g \in Gateways |-> "reposo"]
  /\ restantes = [g \in Gateways |-> MaxIntentos]

\* The panel asks a set of gateways for one package, each with a full budget.
Pedir(D, r) ==
  /\ \A g \in D : etapa[g] = "reposo"
  /\ paquete' = [g \in Gateways |-> IF g \in D THEN r ELSE paquete[g]]
  /\ restantes' = [g \in Gateways |-> IF g \in D THEN MaxIntentos
                                                 ELSE restantes[g]]
  /\ UNCHANGED etapa

Descargar(g) ==
  /\ etapa[g] = "reposo" /\ paquete[g] # Nulo /\ restantes[g] > 0
  /\ etapa' = [etapa EXCEPT ![g] = "descarga"]
  /\ restantes' = [restantes EXCEPT ![g] = @ - 1]
  /\ UNCHANGED paquete

Reiniciar(g) ==
  /\ etapa[g] = "descarga"
  /\ etapa' = [etapa EXCEPT ![g] = "reinicio"]
  /\ UNCHANGED <<paquete, restantes>>

\* Installed or failed: the device is free, and what is left of the budget stays.
Concluir(g) ==
  /\ etapa[g] \in {"descarga", "reinicio"}
  /\ etapa' = [etapa EXCEPT ![g] = "reposo"]
  /\ UNCHANGED <<paquete, restantes>>

\* The order is taken back, by the panel or because its release was retired.
Soltar(g) ==
  /\ etapa[g] # "reinicio"
  /\ paquete' = [paquete EXCEPT ![g] = Nulo]
  /\ etapa' = [etapa EXCEPT ![g] = "reposo"]
  /\ restantes' = [restantes EXCEPT ![g] = MaxIntentos]

Next ==
  \/ \E D \in SUBSET Gateways, r \in Releases : Pedir(D, r)
  \/ \E g \in Gateways :
       Descargar(g) \/ Reiniciar(g) \/ Concluir(g) \/ Soltar(g)

Spec == Init /\ [][Next]_vars
=============================================================================
