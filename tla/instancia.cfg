SPECIFICATION Spec
CONSTANTS
  k1 = k1
  k2 = k2
  k3 = k3
  k4 = k4
  Claves = {k1, k2, k3, k4}
  Libre = Libre
  SinArchivo = SinArchivo
  N = 3
  T = 3
  PACKAGESIZE = 4
  Largos = {2, 3, 5}
  Algoritmos = {"CIRC", "LRU", "BSU"}
  MaxOperaciones = 5
SYMMETRY Simetria
CHECK_DEADLOCK FALSE
INVARIANT TypeOK
INVARIANT ClavesContiguas
 
PROPERTY RespuestaVeraz
PROPERTY DanoAcotado
PROPERTY CompactacionSirve
PROPERTY RecuperaLoGuardado
PROPERTY CompactacionConservaCadenas
