--------------------------- MODULE MCStatusGuard ---------------------------
(* Model-checking instance of StatusGuard: three interchangeable keys       *)
(* compete for two places.                                                  *)
EXTENDS StatusGuard, TLC

KeySymmetry == Permutations(Keys)
============================================================================
