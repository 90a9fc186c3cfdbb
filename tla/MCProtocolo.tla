---------------------------- MODULE MCProtocolo ----------------------------
(* Instances of Protocolo for TLC.                                        *)
EXTENDS Protocolo
=============================================================================
