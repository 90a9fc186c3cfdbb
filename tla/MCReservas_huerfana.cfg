SPECIFICATION Spec
CONSTANTS
  Servidores = {s1}
  Admin = admin
  Usuarios = {1}
  Nombres = {n1}
  Capacidades = {1}
  MaxReserva = 1
  MaxServicio = 1
  OpsCliente = {"CREATE", "GET"}
  OpsAdmin = {"BAJA"}
PROPERTIES ListaCompleta
