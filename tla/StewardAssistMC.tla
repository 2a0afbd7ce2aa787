--------------------------- MODULE StewardAssistMC ---------------------------
(* StewardAssist with two cards and one viewer's group. *)
EXTENDS StewardAssist

CONSTANTS g1
=============================================================================
