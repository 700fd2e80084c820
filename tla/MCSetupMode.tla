------------------------------ MODULE MCSetupMode ------------------------------
(* SetupMode for TLC: settings with a default and those without one, two   *)
(* values of each, two firmwares.                                          *)
EXTENDS SetupMode
=============================================================================
