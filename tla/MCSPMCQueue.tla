---------------------------- MODULE MCSPMCQueue ----------------------------
(* SPMCQueue on small instances: see MCSPMCQueue.cfg.                       *)
EXTENDS SPMCQueue
=============================================================================
