SPECIFICATION Spec
CONSTANTS
  d1 = d1
  d2 = d2
  c1 = c1
  c2 = c2
  ana = ana
  gil = gil
  Servidores = {s1}
  Admin = admin
  Dnis <- MCDnis
  Claves = {c1, c2}
  Textos <- MCTextos
  Registros <- MCRegistros
  Entradas <- MCEntradas
  Blanco = blanco
  Basura = basura
  Maximos = {1, 2}
  Tecleadas <- MCTecleadas
  Ediciones = {}
  Inicial <- MCInicial
  Defecto <- MCDefecto
INVARIANT CuentaTecleada
