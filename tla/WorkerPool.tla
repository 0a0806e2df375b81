----------------------------- MODULE WorkerPool -----------------------------
(***************************************************************************)
(* runWorkerPool of Tools/GateSubprocess.lean: workers take items from a   *)
(* shared queue and put results into a shared array, each at the place of  *)
(* its item; the caller waits for the workers one after the other and      *)
(* throws what the first failing one threw, while the others go on.        *)
(*                                                                         *)
(* A definition commented "Mutant" is a bug the checks must find; no       *)
(* specification uses it.                                                  *)
(***************************************************************************)
EXTENDS Integers

CONSTANTS
    N,              \* the number of items
    MaxConcurrency, \* GASM_SCAN_CONCURRENCY, which may be 0
    Values,         \* what working on an item may give
    Failed,         \* an exception
    Lost,           \* "worker pool item missing result"
    None

Items == 1 .. N

ASSUME PoolAssumption ==
    /\ N \in Nat /\ MaxConcurrency \in Nat
    /\ None \notin Values /\ Failed \notin Values /\ None # Failed
    /\ Lost \notin Values \union {None, Failed}
    /\ [Items -> Values] \cap {None, Failed, Lost} = {}

(* min (max 1 maxConcurrency) items.size                                   *)
NumWorkers ==
    LET asked == IF MaxConcurrency > 1 THEN MaxConcurrency ELSE 1
    IN  IF asked < N THEN asked ELSE N

Workers == 1 .. NumWorkers

VARIABLES
    next,       \* the queue holds the items from here on
    results,    \* resultsRef
    place,      \* where a worker is
    item,       \* the item it has taken
    value,      \* what working on it gave
    joining,    \* the worker the caller waits for
    answer      \* what the caller returned or threw

poolVars == <<next, results, place, item, value, joining, answer>>

PoolInit ==
    /\ next = 1 /\ results = [i \in Items |-> None]
    /\ place = [w \in Workers |-> "take"]
    /\ item = [w \in Workers |-> 0] /\ value = [w \in Workers |-> None]
    /\ joining = 1 /\ answer = None

(* Mutant: the head of the queue is read and stays.                        *)
AfterTaking == next

(* queueRef.modifyGet takes the head of the queue in one step.             *)
Remaining == next + 1

Take(w) ==
    /\ place[w] = "take" /\ next <= N
    /\ item' = [item EXCEPT ![w] = next]
    /\ next' = Remaining
    /\ place' = [place EXCEPT ![w] = "work"]
    /\ UNCHANGED <<results, value, joining, answer>>

(* An empty queue ends the worker.                                         *)
Finish(w) ==
    /\ place[w] = "take" /\ next > N
    /\ place' = [place EXCEPT ![w] = "ended"]
    /\ UNCHANGED <<next, results, item, value, joining, answer>>

(* f item                                                                  *)
Work(w) ==
    /\ place[w] = "work"
    /\ \E v \in Values : value' = [value EXCEPT ![w] = v]
    /\ place' = [place EXCEPT ![w] = "store"]
    /\ UNCHANGED <<next, results, item, joining, answer>>

(* f item throws, and the worker with it.                                  *)
WorkRaises(w) ==
    /\ place[w] = "work"
    /\ place' = [place EXCEPT ![w] = "raised"]
    /\ UNCHANGED <<next, results, item, value, joining, answer>>

(* Mutant: results are put one after the other as they come.               *)
AsTheyCome(w) ==
    LET i == CHOOSE i \in Items : results[i] = None /\ \A j \in 1 .. i - 1 : results[j] # None
    IN  [results EXCEPT ![i] = value[w]]

(* resultsRef.modify sets the place of the item.                           *)
Stored(w) == [results EXCEPT ![item[w]] = value[w]]

Store(w) ==
    /\ place[w] = "store"
    /\ results' = Stored(w)
    /\ place' = [place EXCEPT ![w] = "take"]
    /\ UNCHANGED <<next, item, value, joining, answer>>

(* Mutant: the caller does not wait for a task.                            *)
NotRaised(w) == place[w] # "raised"

Ended(w) == place[w] = "ended"

(* IO.ofExcept t.get, for one task after the other.                        *)
Join ==
    /\ answer = None /\ joining \in Workers /\ Ended(joining)
    /\ joining' = joining + 1
    /\ UNCHANGED <<next, results, place, item, value, answer>>

JoinRaises ==
    /\ answer = None /\ joining \in Workers /\ place[joining] = "raised"
    /\ answer' = Failed
    /\ UNCHANGED <<next, results, place, item, value, joining>>

(* All tasks ended; a result that is missing is thrown as an error.        *)
Missing == \E i \in Items : results[i] = None

Return ==
    /\ answer = None /\ joining = NumWorkers + 1
    /\ answer' = IF Missing THEN Lost ELSE results
    /\ UNCHANGED <<next, results, place, item, value, joining>>

Worker(w) == Take(w) \/ Finish(w) \/ Work(w) \/ WorkRaises(w) \/ Store(w)

PoolNext == Join \/ JoinRaises \/ Return \/ \E w \in Workers : Worker(w)

(* Every task is a thread of its own, and working on an item ends.         *)
PoolSpec == PoolInit /\ [][PoolNext]_poolVars

PoolFairSpec ==
    /\ PoolSpec
    /\ WF_poolVars(Join \/ JoinRaises \/ Return)
    /\ \A w \in Workers : WF_poolVars(Worker(w))

-----------------------------------------------------------------------------
(* Properties *)

PoolTypeOK ==
    /\ next \in 1 .. N + 1
    /\ results \in [Items -> Values \union {None}]
    /\ place \in [Workers -> {"take", "work", "store", "ended", "raised"}]
    /\ item \in [Workers -> 0 .. N]
    /\ value \in [Workers -> Values \union {None}]
    /\ joining \in 1 .. NumWorkers + 1
    /\ answer \in [Items -> Values] \union {None, Failed, Lost}

(* The caller that gets results gets all of them, and no worker is still   *)
(* at work for it; "worker pool item missing result" is never thrown.      *)
AnswerIsComplete ==
    answer \notin {None, Failed} =>
        /\ answer = results /\ answer \in [Items -> Values]
        /\ \A w \in Workers : place[w] = "ended"

(* What working on an item gave: the result, or the exception of the       *)
(* worker that stopped at it.                                              *)
Outcome ==
    [i \in Items |->
        IF \E w \in Workers : place[w] = "raised" /\ item[w] = i THEN Failed ELSE results[i]]

(* The pool is a map in parallel: whatever order the workers run in, no    *)
(* item is worked on twice, results keep the order of the items, and an    *)
(* error is one an item raised.                                            *)
Map == INSTANCE ParallelMap WITH outcome <- Outcome
IsParallelMap == Map!MapSpec

(* The caller gets all results, or an error that one of the items raised.  *)
Answered == <>(answer = Failed \/ answer \in [Items -> Values])

=============================================================================
