SPECIFICATION Spec
CONSTANTS
  ESIs = {e1, e2, e3}
  Claves = {k1, k2}
  Nadie = Nadie
  Ninguna = Ninguna
  Sistema = Sistema
  Libre = Libre
  ClavesConfig = {}
  Algoritmo = "FIFO"
  EstimacionInicial = 2
  Escala = 4
  MaxLineas = 2
  FinDeArchivo = {FALSE}
  Comandos = {"pausar", "continuar"}
  PuedenCaer = {}
  HayFallas = TRUE
SYMMETRY Simetria
CHECK_DEADLOCK FALSE
INVARIANT TypeOK
INVARIANT ExclusionMutua
INVARIANT EscrituraAutorizada
INVARIANT EsperaConMotivo
INVARIANT DuenoVivo
INVARIANT RepiteAntesDeTerminar
