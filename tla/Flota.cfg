SPECIFICATION Spec
CONSTANTS
  c1 = c1
  c2 = c2
  s1 = s1
  s2 = s2
  g1 = g1
  g2 = g2
  e1 = e1
  v1 = v1
  t1 = t1
  x = x
  y = y
  p1 = p1
  Nulo = Nulo
  Nodos = {c1, c2, s1, s2, g1, g2, e1, v1, t1}
  Nombres = {x, y}
  Puertos = {"ttymxc1"}
  Paridades = {"N"}
  Hosts = {"host"}
  Unidades = {1}
  Peticiones = {p1}
  NivelDe <- MCNivelDe
  PadreDe <- MCPadreDe
  NombresDe <- MCNombresDe
CHECK_DEADLOCK FALSE
INVARIANTS
  LecturasCoinciden
