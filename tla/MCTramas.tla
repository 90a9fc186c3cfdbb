----------------------------- MODULE MCTramas -----------------------------
(* Instances of Tramas for TLC.                                            *)
EXTENDS Tramas
=============================================================================
