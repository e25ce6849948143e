SPECIFICATION Spec
CONSTANTS
  ESIs = {e1, e2, e3}
  Claves = {k1}
  Nadie = Nadie
  Ninguna = Ninguna
  Sistema = Sistema
  Libre = Libre
  ClavesConfig = {}
  Algoritmo = "FIFO"
  EstimacionInicial = 2
  Escala = 4
  MaxLineas = 2
  FinDeArchivo = {FALSE}
  Comandos = {"pausar", "continuar"}
  PuedenCaer = {}
  HayFallas = FALSE
SYMMETRY Simetria
CHECK_DEADLOCK FALSE
INVARIANT SinAccesoInvalido
