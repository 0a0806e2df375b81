---------------------------- MODULE WorkerPoolMC ----------------------------
(* Items that may each give two values, or raise.                          *)
EXTENDS WorkerPool
=============================================================================
