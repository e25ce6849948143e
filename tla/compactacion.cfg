SPECIFICATION SpecJusta
CONSTANTS
  Instancias = {i1, i2}
  Hilos = {h1}
  PuedenMorir = {i1, i2}
  MaxRondas = 2
  MaxVidas = 2
  MaxLazos = 2
CHECK_DEADLOCK FALSE
INVARIANT NadaSobra
INVARIANT FlagConLazo
PROPERTY RondaTermina
