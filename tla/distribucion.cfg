SPECIFICATION Spec
CONSTANTS
  h1 = h1
  h2 = h2
  k1 = k1
  k2 = k2
  k3 = k3
  i1 = i1
  i2 = i2
  Hilos = {h1, h2}
  Claves = {k2, k3}
  Instancias = {i1, i2}
  Nadie = Nadie
  ERROR = ERROR
  Letra <- MCLetra
  Algoritmos = {"EQL", "KE"}
  MaxLibres = 1
  PuedenCaer = {h1}
  PuedenMorir = {i1}
  MaxSentencias = 3
  MaxConsultas = 1
  MaxVidas = 2
CHECK_DEADLOCK FALSE
INVARIANT TypeOK
INVARIANT SinDuplicadas
 
 
