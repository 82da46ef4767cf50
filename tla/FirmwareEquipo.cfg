SPECIFICATION SpecJusta
CONSTANTS
  g1 = g1
  r1 = r1
  v0 = v0
  v1 = v1
  Nulo = Nulo
  Gateways = {g1}
  Releases = {r1}
  Versiones = {v0, v1}
  VersionDe <- MCVersionDe
  MaxIntentos = 2
  MaxPedidos = 1
  MaxEnVuelo = 2
  MaxCopias = 2
  MaxApagones = 1
INVARIANTS
  TypeOKE
  AplicadaEsVerdad
PROPERTIES
  PedidoTermina
  AplicandoTermina
  VersionConverge
