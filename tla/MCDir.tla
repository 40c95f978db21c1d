-------------------------------- MODULE MCDir ---------------------------------
(* Small instances of Dir: the bounds are in the configuration.            *)
EXTENDS Dir
=============================================================================
