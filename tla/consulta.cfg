SPECIFICATION SpecJusta
CONSTANTS
  Hilos = {h1, h2}
  Nadie = Nadie
  MaxConsultas = 2
  PuedeCaer = TRUE
CHECK_DEADLOCK FALSE
INVARIANT ConsultaDelDueno
INVARIANT SinSenalSobrante
INVARIANT RespuestaNoAnterior
PROPERTY ImplementaTurno
PROPERTY ConsultaTermina
