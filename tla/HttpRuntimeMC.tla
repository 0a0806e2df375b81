---------------------------- MODULE HttpRuntimeMC ----------------------------
(* A budget of three bytes and transfers of two: every request of up to    *)
(* seven bytes is alone, every one of up to four is followed by every one  *)
(* of up to three.  One line parses; "g" stands for a visible byte.        *)
EXTENDS HttpRuntime, TLC

MCBytes == {"CR", "LF", "g"}

UpTo(n) == UNION {[1 .. k -> MCBytes] : k \in 0 .. n}

MCTargets == (<<"g", "g">> :> "root")

MCQueues ==
    {<<>>} \cup {<<r>> : r \in UpTo(7)} \cup {<<r, s>> : r \in UpTo(4), s \in UpTo(3)}

==============================================================================
