SPECIFICATION Spec
CONSTANTS
  ESIs = {e1, e2, e3}
  Claves = {k1}
  Nadie = Nadie
  Ninguna = Ninguna
  Sistema = Sistema
  Libre = Libre
  ClavesConfig = {}
  Algoritmo = "SJF-CD"
  EstimacionInicial = 6
  Escala = 8
  MaxLineas = 2
  FinDeArchivo = {FALSE}
  Comandos = {"pausar", "continuar"}
  PuedenCaer = {e1, e2, e3}
  HayFallas = FALSE
SYMMETRY Simetria
CHECK_DEADLOCK FALSE
INVARIANT UnoEnEjecucion
INVARIANT Colas
PROPERTY DesalojoJusto
