---------------------------- MODULE StewardSpaceMC ----------------------------
(* A small instance of StewardSpace for TLC.                               *)
EXTENDS StewardSpace

CONSTANTS alice, bob, t1, t2
=============================================================================
