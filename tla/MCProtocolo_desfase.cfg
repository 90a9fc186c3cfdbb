SPECIFICATION Spec
CONSTANTS
  Dnis = {d1, d2}
  SinDni = sin_dni
  Registrados = {d1, d2}
  Servicios = {1, 2}
  IdsLog = {64}
  MaxReserva = 1
  MaxAbandonos = 1
  MaxPendientes = 1
INVARIANTS RespuestaCompleta
