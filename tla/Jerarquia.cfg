SPECIFICATION Spec
CONSTANTS
  c1 = c1
  c2 = c2
  c3 = c3
  s1 = s1
  g1 = g1
  e1 = e1
  e2 = e2
  x = x
  y = y
  p1 = p1
  p2 = p2
  Nulo = Nulo
  Nodos = {c1, c2, c3, s1, g1, e1, e2}
  Nombres = {x, y}
  Puertos = {"ttymxc1"}
  Paridades = {"N", "E"}
  Hosts = {"host"}
  Unidades = {1}
  Peticiones = {p1, p2}
  NivelDe <- MCNivelDe
  PadreDe <- MCPadreDe
  NombresDe <- MCNombresDe
SYMMETRY Simetria
CHECK_DEADLOCK FALSE
INVARIANTS
  TypeOK
  EquiposCoherentes
  NombresAcotados
