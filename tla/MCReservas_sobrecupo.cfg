SPECIFICATION Spec
CONSTANTS
  Servidores = {s1, s2}
  Admin = admin
  Usuarios = {1, 2}
  Nombres = {n1}
  Capacidades = {1}
  MaxReserva = 2
  MaxServicio = 1
  OpsCliente = {"CREATE"}
  OpsAdmin = {}
INVARIANTS SinSobrecupo
