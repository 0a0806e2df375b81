------------------------- MODULE SourceAuthorityMC -------------------------
(* A root, a module in a directory below, a package's file below .lake and *)
(* a file with an odd extension.                                           *)
EXTENDS SourceAuthority

CONSTANTS root, leaf, packaged, shouted

MCDirOf == [p \in Paths |-> CASE p = root -> "top" [] p = packaged -> "packages" [] OTHER -> "lib"]

(* Two steps of a developer anywhere where Git converts line ends, or      *)
(* three on ordinary files where it does not.                              *)
MCRegimes ==
    {[paths |-> Paths, crlf |-> TRUE, edits |-> 2],
     [paths |-> {root, leaf}, crlf |-> FALSE, edits |-> 3]}
=============================================================================
