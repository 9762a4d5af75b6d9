---------------------------- MODULE MCMPSCQueue ----------------------------
(* MPSCQueue on small instances: see MCMPSCQueueFreed.cfg.                 *)
EXTENDS MPSCQueue
=============================================================================
