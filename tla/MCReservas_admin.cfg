SPECIFICATION FairSpec
CONSTANTS
  Servidores = {s1}
  Admin = admin
  Usuarios = {1}
  Nombres = {n1, n2}
  Capacidades = {1}
  MaxReserva = 1
  MaxServicio = 2
  OpsCliente = {"CREATE", "GET", "CANCEL", "UPDATE"}
  OpsAdmin = {"VER", "ALTA", "BAJA", "CAMBIO"}
PROPERTIES SinHerencia ListaCoherente PeticionTermina
