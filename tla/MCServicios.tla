---------------------------- MODULE MCServicios ----------------------------
(* Instances of Servicios for TLC: forms with the cases the text fields,   *)
(* the days and the capacity can make.                                     *)
EXTENDS Servicios

F(nombre, municipio, tipo, dias, capacidad) ==
  [nombre |-> nombre, municipio |-> municipio, apertura |-> <<"8:00">>, cierre |-> <<"20:00">>,
   tipo |-> tipo, dias |-> dias, capacidad |-> capacidad,
   descripcion |-> <<"Carnes", "y un texto largo">>]

\* Word 7 is no day ("miércoles", "lunes;martes").
MCFormularios ==
  {F(<<"Asador">>, <<"Bilbao">>, <<"Restaurante">>, <<>>, 2),
   F(<<"Gimnasio">>, <<"Getxo">>, <<"Fitness">>, <<6, 7>>, 1),
   F(<<"Gimnasio">>, <<"Getxo">>, <<"actividad">>, <<0, 6, 0>>, 0),
   F(<<"Bar">>, <<"Bilbao", "Deusto">>, <<"Restaurante">>, <<0>>, 1)}

MCLargas == {<<"Carnes", "y un texto largo">>}
=============================================================================
