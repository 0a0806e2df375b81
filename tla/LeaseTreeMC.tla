----------------------------- MODULE LeaseTreeMC -----------------------------
(* Three launchers: a holder with two levels of nested launchers below it, *)
(* or a holder with one nested launcher and a competitor for the lease.    *)
EXTENDS LeaseTree, TLC

CONSTANTS c1, c2, c3

MCClients == {c1, c2, c3}

MCSymmetry == Permutations(MCClients)

==============================================================================
