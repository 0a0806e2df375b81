-------------------------- MODULE RefsAuthorityMC --------------------------
(* One module that the umbrella worker loads and one that it does not.     *)
EXTENDS RefsAuthority, TLC

MCOrder == <<"a", "b">>
MCUmbrella == {"a"}

(* One launcher in a checkout that changes under it, twice in its files or *)
(* once in its files and once in what git tracks; or two launchers of      *)
(* which one, or one of their gates, is killed.                            *)
MCBudgets ==
    {[launchers |-> 1, edits |-> 2, retracks |-> 0, kills |-> 0],
     [launchers |-> 1, edits |-> 1, retracks |-> 1, kills |-> 0],
     [launchers |-> 2, edits |-> 0, retracks |-> 0, kills |-> 1]}

MCSymmetry == Permutations(Launchers)

=============================================================================
