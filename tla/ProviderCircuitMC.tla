-------------------------- MODULE ProviderCircuitMC --------------------------
(* Small instances of ProviderCircuit for TLC.                             *)
EXTENDS ProviderCircuit

CONSTANTS r1, r2, r3
=============================================================================
