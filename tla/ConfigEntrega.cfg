SPECIFICATION SpecJusta
CONSTANTS
  p1 = p1
  p2 = p2
  Nulo = Nulo
  Peticiones = {p1, p2}
  Instantes = {1, 2}
  MaxContenido = 1
  Deshace = FALSE
INVARIANTS
  TypeOK
  AplicadaFueVigente
  DesfaseVisible
PROPERTIES
  EntregaTermina
