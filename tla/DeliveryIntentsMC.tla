-------------------------- MODULE DeliveryIntentsMC --------------------------
(* DeliveryIntents with the job's own drainer and the maintenance loop's. *)
EXTENDS DeliveryIntents
=============================================================================
