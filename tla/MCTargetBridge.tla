--------------------------- MODULE MCTargetBridge ---------------------------
(* Model-checking instance of TargetBridge: two publish hooks race for two  *)
(* places with up to three offers.                                          *)
EXTENDS TargetBridge
============================================================================
