SPECIFICATION SpecJusta
CONSTANTS
  h1 = h1
  h2 = h2
  k1 = k1
  k2 = k2
  k3 = k3
  i1 = i1
  i2 = i2
  Hilos = {h1}
  Claves = {k1, k2, k3}
  Instancias = {i1, i2}
  Nadie = Nadie
  ERROR = ERROR
  Letra <- MCLetra
  Algoritmos = {"EQL", "LSU", "KE"}
  MaxLibres = 1
  PuedenCaer = {}
  PuedenMorir = {i1}
  MaxSentencias = 4
  MaxConsultas = 0
  MaxVidas = 2
CHECK_DEADLOCK FALSE
PROPERTY SentenciaResponde
