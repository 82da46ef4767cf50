SPECIFICATION Spec
CONSTANTS
  g1 = g1
  c1 = c1
  k1 = k1
  p1 = p1
  p2 = p2
  t1 = t1
  t2 = t2
  t3 = t3
  Nulo = Nulo
  Borrado = Borrado
  Claves = {c1}
  Ajenas = {}
  LlavesServidor = {k1}
  Peticiones = {p1, p2}
  MaxCapas = 2
  Gateways = {g1}
  Tokens = {t1, t2, t3}
  Instalador = c1
  Elegidas = {c1}
  Base = c1
  MaxCredenciales = 3
SYMMETRY Simetria
CHECK_DEADLOCK FALSE
INVARIANTS
  TypeOK
  SelladosSegunMarca
  VivosAcotados
  CanjeEntero
