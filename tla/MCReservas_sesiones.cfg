SPECIFICATION Spec
CONSTANTS
  Servidores = {s1, s2}
  Admin = admin
  Usuarios = {1, 2}
  Nombres = {n1, n2}
  Capacidades = {1}
  MaxReserva = 1
  MaxServicio = 2
  OpsCliente = {"CREATE", "CANCEL", "UPDATE"}
  OpsAdmin = {}
SYMMETRY SimServidores
INVARIANTS TypeOK RespuestaCierta BitacoraCierta
PROPERTIES SoloElDueno
