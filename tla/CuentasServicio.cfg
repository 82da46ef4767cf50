SPECIFICATION Spec
CONSTANTS
  s1 = s1
  p1 = p1
  p2 = p2
  Nulo = Nulo
  Servicios = {s1}
  Peticiones = {p1, p2}
  VidaServicio = 2
  MaxVida = 2
  MaxSecretos = 3
SYMMETRY Simetria
INVARIANTS
  TypeOK
  
PROPERTIES
  SecretoNoVuelve
