--------------------------- MODULE SnapshotCacheMC ---------------------------
(* Two processes: a publisher, and one that waits, reads what the first    *)
(* published, or takes over after its crash.                               *)
EXTENDS SnapshotPublication

CONSTANTS c1, c2

MCClients == {c1, c2}

==============================================================================
