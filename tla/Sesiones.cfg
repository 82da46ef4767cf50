SPECIFICATION Spec
CONSTANTS
  u1 = u1
  c1 = c1
  c2 = c2
  Nulo = Nulo
  Cuentas = {u1}
  Clientes = {c1, c2}
  VidaAcceso = 2
  VidaRefresh = 3
  MaxTokens = 4
  MaxIntentos = 2
  Ventana = 2
SYMMETRY Simetria
INVARIANTS
  TypeOK
  AlcanceReciente
  MonitorSoloAdmitidos
  IntentosAcotados
