-------------------------------- MODULE Lease --------------------------------
(***************************************************************************)
(* What the host-global lease of scripts/lean_process_lease.py promises to *)
(* its callers: at any moment it is granted to at most one client, and a   *)
(* grant ends before the next one begins.                                  *)
(***************************************************************************)
CONSTANT Clients

VARIABLE granted \* the clients whose block runs under the lease

LeaseInit == granted = {}

Grant(c) == granted = {} /\ granted' = {c}

Revoke == granted # {} /\ granted' = {}

LeaseNext == Revoke \/ \E c \in Clients : Grant(c)

LeaseSpec == LeaseInit /\ [][LeaseNext]_granted

==============================================================================
