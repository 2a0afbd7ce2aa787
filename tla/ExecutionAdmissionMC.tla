------------------------ MODULE ExecutionAdmissionMC ------------------------
(* Small instances of ExecutionAdmission for TLC.                          *)
EXTENDS ExecutionAdmission, TLC

CONSTANTS a, b, a1, a2, a3, b1, b2

FiveCallers == {a1, a2, a3, b1, b2}
FiveOfTwo == (a1 :> a) @@ (a2 :> a) @@ (a3 :> a) @@ (b1 :> b) @@ (b2 :> b)
=============================================================================
