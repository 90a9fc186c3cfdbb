SPECIFICATION Spec
CONSTANTS
  Servidores = {s1}
  Admin = admin
  Usuarios = {1, 2}
  Nombres = {n1, n2}
  Capacidades = {1, 2}
  MaxReserva = 2
  MaxServicio = 2
  OpsCliente = {"CREATE", "GET", "CANCEL", "UPDATE"}
  OpsAdmin = {}
SYMMETRY SimNombres
INVARIANTS SinSobrecupo SinDuplicada
PROPERTIES PromesaCumplida
