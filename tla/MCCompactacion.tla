---------------------------- MODULE MCCompactacion ----------------------------
(***************************************************************************)
(* Instances of Compactacion for TLC.                                      *)
(***************************************************************************)
EXTENDS Compactacion
===============================================================================
