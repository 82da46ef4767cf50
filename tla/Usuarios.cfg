SPECIFICATION Spec
CONSTANTS
  u1 = u1
  u2 = u2
  u3 = u3
  c1 = c1
  p1 = p1
  p2 = p2
  Nulo = Nulo
  Roles = {"admin", "cliente"}
  Cuentas = {u1, u2, u3}
  Correos = {"e1", "e2"}
  CorreoDe <- MCCorreoDe
  Clientes = {c1}
  Contacto <- MCContacto
  Peticiones = {p1, p2}
  MaxPisadas = 1
SYMMETRY Simetria
INVARIANTS
  TypeOK
  CuentasSinPisar
PROPERTIES
  UltimoAdminSoloPorSolape
CHECK_DEADLOCK FALSE
