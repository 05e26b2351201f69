-------------------------- MODULE MCRetainedStore --------------------------
(* Model-checking instance of RetainedStore: two topics, a reader that can  *)
(* be delayed while others write, and expiry intervals of zero (a value     *)
(* that expires at once) and two.                                           *)
EXTENDS RetainedStore, TLC

StoreSymmetry == Permutations(Topics) \cup Permutations(Payloads)
============================================================================
