SPECIFICATION FairSpec
CONSTANTS
  Dnis = {d1, d2}
  SinDni = sin_dni
  Registrados = {d1}
  Servicios = {1, 2}
  IdsLog = {64}
  MaxReserva = 1
  MaxAbandonos = 1
  MaxPendientes = 0
INVARIANTS TypeOK Sincronizado SesionCorrecta CacheVigente
PROPERTIES MuereSoloPorCorte PlazasPropias SalidaConRespuesta DialogoTermina ServidorTermina PromesaCumplida
