-------------------------- MODULE MCAccountEngine --------------------------
(* TLC instance of AccountEngine: constants are given in the .cfg files.   *)
EXTENDS AccountEngine
=============================================================================
