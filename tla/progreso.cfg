SPECIFICATION SpecJusta
CONSTANTS
  ESIs = {e1, e2}
  Claves = {k1, k2}
  Nadie = Nadie
  Ninguna = Ninguna
  Sistema = Sistema
  Libre = Libre
  ClavesConfig = {}
  Algoritmo = "FIFO"
  EstimacionInicial = 2
  Escala = 4
  MaxLineas = 2
  FinDeArchivo = {FALSE}
  Comandos = {"pausar", "continuar"}
  PuedenCaer = {}
  HayFallas = FALSE
CHECK_DEADLOCK FALSE
PROPERTY SoloLiberaElDueno
PROPERTY DuenoAtendido
PROPERTY TerminaOEspera
