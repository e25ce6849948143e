SPECIFICATION Spec
CONSTANTS
  Instancias = {i1, i2}
  Hilos = {h1}
  PuedenMorir = {}
  MaxRondas = 2
  MaxVidas = 2
  MaxLazos = 2
CHECK_DEADLOCK FALSE
INVARIANT TodasUnaVez
