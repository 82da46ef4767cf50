SPECIFICATION Spec
CONSTANTS
  g1 = g1
  r1 = r1
  r2 = r2
  v0 = v0
  v1 = v1
  v2 = v2
  Nulo = Nulo
  Gateways = {g1}
  Releases = {r1, r2}
  Versiones = {v0, v1, v2}
  VersionDe <- MCVersionDe
  MaxIntentos = 3
INVARIANTS
  TypeOK
  ObjetivoCoherente
  PresupuestoRespetado
  MotivoVeraz
PROPERTIES
  SoloTransicionesDeclaradas
  
  CumplePromesa
