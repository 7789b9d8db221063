------------------------------ MODULE MCSetup ------------------------------
(* An instance of SetupProps; the constants are given in setup.cfg. *)
EXTENDS SetupProps
=============================================================================
