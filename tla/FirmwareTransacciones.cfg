SPECIFICATION SpecT
CONSTANTS
  g1 = g1
  r1 = r1
  v1 = v1
  p1 = p1
  p2 = p2
  Nulo = Nulo
  Gateways = {g1}
  Releases = {r1}
  Versiones = {v1}
  VersionDe <- MCVersionDe
  MaxIntentos = 2
  Peticiones = {p1, p2}
  MaxObsoletas = 2
SYMMETRY Simetria
INVARIANTS
  FilasSinPisar
  DesbordeAcotado
PROPERTIES
  SaltoSoloPisando
