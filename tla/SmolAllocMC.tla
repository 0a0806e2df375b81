----------------------------- MODULE SmolAllocMC -----------------------------
(* Pages of 64 bytes: requests of 1 and 20 bytes take one page, one of 40  *)
(* bytes two, so small blocks stay behind larger ones on the free list.    *)
EXTENDS SmolAlloc

==============================================================================
