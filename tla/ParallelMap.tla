----------------------------- MODULE ParallelMap -----------------------------
(***************************************************************************)
(* What runWorkerPool of Tools/GateSubprocess.lean promises its callers:   *)
(* every item is worked on at most once, and the answer is the outcomes in *)
(* the order of the items, or an error that one of them raised.            *)
(***************************************************************************)
CONSTANTS
    Items,      \* the positions of the items
    Values,     \* what working on an item may give
    Failed,     \* or that it raises
    None

VARIABLES
    outcome,    \* what an item gave, None if it has not been worked on
    answer      \* what the caller gets: all outcomes, or Failed

mapVars == <<outcome, answer>>

MapInit == outcome = [i \in Items |-> None] /\ answer = None

Work(i) ==
    /\ outcome[i] = None
    /\ \E v \in Values \union {Failed} : outcome' = [outcome EXCEPT ![i] = v]
    /\ UNCHANGED answer

Return ==
    /\ answer = None /\ \A i \in Items : outcome[i] \in Values
    /\ answer' = outcome
    /\ UNCHANGED outcome

Raise ==
    /\ answer = None /\ \E i \in Items : outcome[i] = Failed
    /\ answer' = Failed
    /\ UNCHANGED outcome

MapNext == Return \/ Raise \/ \E i \in Items : Work(i)

MapSpec == MapInit /\ [][MapNext]_mapVars
==============================================================================
