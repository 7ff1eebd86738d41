------------------------------ MODULE MC_AIBus ------------------------------
(* The instances of AIBus that TLC checks.                                  *)
EXTENDS AIBus, TLC
=============================================================================
