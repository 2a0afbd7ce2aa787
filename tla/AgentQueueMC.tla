---------------------------- MODULE AgentQueueMC ----------------------------
(* Small instances of AgentQueue for TLC.                                  *)
EXTENDS AgentQueue, TLC

CONSTANTS s1, s2, s3, s4, a1, w1, w2

OneOwner == (s1 :> a1) @@ (s2 :> a1)
FourSessions == OneOwner @@ (s3 :> a1) @@ (s4 :> a1)
OneSession == s1 :> a1
=============================================================================
