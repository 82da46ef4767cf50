SPECIFICATION Spec
CONSTANTS
  Dia = 12
  Horas = {0, 2, 3, 4, 11}
  Duraciones = {1, 3, 6}
  Zonas <- MCZonas
  Fin = 36
  Nulo = Nulo
INVARIANTS
  ProximaEsLaPrimera
  EsperaAcotada
  OrdenUsable
