SPECIFICATION SpecJusta
CONSTANTS
  ESIs = {e1, e2, e3}
  Claves = {k1, k2, k3}
  Ninguna = Ninguna
  Sistema = Sistema
  Libre = Libre
  MaxEslabones = 6
CHECK_DEADLOCK FALSE
INVARIANT EslabonesCiertos
INVARIANT CadaUnoUnaVez
INVARIANT FinExacto
PROPERTY Termina
