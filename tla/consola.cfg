SPECIFICATION Spec
CONSTANTS
  ESIs = {e1, e2}
  Claves = {k1}
  Nadie = Nadie
  Ninguna = Ninguna
  Sistema = Sistema
  Libre = Libre
  ClavesConfig = {k1}
  Algoritmo = "FIFO"
  EstimacionInicial = 2
  Escala = 4
  MaxLineas = 2
  FinDeArchivo = {FALSE}
  Comandos = {"pausar", "continuar", "bloquear", "desbloquear", "matar"}
  PuedenCaer = {}
  HayFallas = FALSE
SYMMETRY Simetria
CHECK_DEADLOCK FALSE
INVARIANT NoOcioso
INVARIANT EnMarcha
PROPERTY PausaSinOrdenes
