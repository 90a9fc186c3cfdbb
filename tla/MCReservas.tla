---------------------------- MODULE MCReservas ----------------------------
(* Instances of Reservas for TLC.                                         *)
EXTENDS Reservas, TLC

SimServidores == Permutations(Servidores)
SimNombres == Permutations(Nombres)
=============================================================================
