-------------------------- MODULE MCEngineTaskQueue --------------------------
(* Small instances of EngineTaskQueue for TLC. *)
EXTENDS EngineTaskQueue, TLC
=============================================================================
