SPECIFICATION Spec
CONSTANTS
  Servidores = {s1}
  Admin = admin
  Usuarios = {1, 2}
  Nombres = {n1, n2}
  Capacidades = {1}
  MaxReserva = 2
  MaxServicio = 2
  OpsCliente = {"CREATE"}
  OpsAdmin = {"ALTA"}
PROPERTIES EntraConCupo
