\* Two services and four forms: a type that is none and both casings of the others,
\* repeated, unknown and absent days, a capacity of 0, a '|' in a municipality and in a description,
\* and a description that does not fit; two forms share a name.
SPECIFICATION Spec
CONSTANTS
  Formularios <- MCFormularios
  Mascaras = {0, 65}
  Largas <- MCLargas
  Cifras = {"8:00", "20:00"}
  MaxServicio = 2
INVARIANTS TypeOK ListaInstantanea FiltroExacto FichaFiel CadaNegocioEnUnMenu MuereSoloPorSeparador
