-------------------------- MODULE GateRunnerProofs ---------------------------
(***************************************************************************)
(* Theorems about GateRunner, for every gate table that satisfies          *)
(* TableAssumption and every command line.                                 *)
(*                                                                         *)
(* The inductive invariant says where gates can be (Placement, Disjoint),  *)
(* that a row tells what its command did (RowsTrue), that the pool and the *)
(* rows are empty until the loop starts (Fresh), and that a success code   *)
(* was computed from the rows (Earned).  A row is then never overwritten,  *)
(* so a dependency that has passed stays passed.                           *)
(***************************************************************************)
EXTENDS GateRunner, TLAPS, WellFoundedInduction

(* A set of naturals that is not empty has a least element.                *)
LEMMA LeastNat ==
    ASSUME NEW T \in SUBSET Nat, T # {}
    PROVE  \E n \in T : \A m \in T : n <= m
<1> DEFINE Below == {p \in Nat \X Nat : p[1] < p[2]}
<1>1. IsWellFoundedOn(Below, Nat)
  BY NatLessThanWellFounded DEF OpToRel
<1>2. \A m, n \in Nat : m < n => <<m, n>> \in Below
  OBVIOUS
<1> HIDE DEF Below
<1>3. PICK n \in T : \A m \in T : <<m, n>> \notin Below
  BY <1>1, WFMin
<1>4. \A m \in T : ~(m < n)
  BY <1>2, <1>3
<1> QED BY <1>4

Phases == {"select", "prereqs", "clean", "start", "schedule", "wait", "unwind",
           "next", "gate", "report", "done"}

Early == {"select", "prereqs", "clean", "start"}

Types ==
    /\ phase \in Phases
    /\ selected \subseteq Gates
    /\ todo \subseteq Gates
    /\ pending \subseteq Gates /\ queued \subseteq Gates
    /\ running \subseteq Gates /\ finished \subseteq Gates
    /\ raw \in [Gates -> Raw \cup {"none"}]
    /\ result \in [Gates -> Status \cup {"none"}]

(* Nothing has happened to any gate before the loop starts.                *)
Fresh ==
    phase \in Early =>
        /\ todo = {} /\ pending = {} /\ queued = {} /\ running = {} /\ finished = {}
        /\ \A g \in Gates : raw[g] = "none" /\ result[g] = "none"

(* In every phase the places of a gate exclude each other.                 *)
Disjoint ==
    /\ todo \cap (pending \cup queued \cup running \cup finished \cup Rows) = {}
    /\ pending \cap (queued \cup running \cup finished \cup Rows) = {}
    /\ queued \cap (running \cup finished \cup Rows) = {}
    /\ running \cap (finished \cup Rows) = {}
    /\ finished \cap Rows = {}

(* Which places there are in which phase.                                  *)
Placement ==
    /\ phase \in {"schedule", "wait"} =>
          /\ selected = pending \cup queued \cup running \cup finished \cup Rows
          /\ todo = {}
    /\ phase \in {"next", "gate"} =>
          /\ ~(Jobs > 1)
          /\ pending = {} /\ queued = {} /\ finished = {}
          /\ selected = todo \cup running \cup Rows
    /\ phase = "next" => running = {}
    /\ phase = "gate" => \E g \in Gates : running = {g}
    /\ phase = "report" =>
          selected = Rows /\ queued = {} /\ running = {} /\ finished = {}

(* A row that counts as success says what the command did.                 *)
RowsTrue ==
    \A g \in Gates :
        /\ result[g] = "PASS" => raw[g] = "0"
        /\ result[g] = "SKIPPED (runner)" => raw[g] = "2" /\ g \in AllowSkip

(* The exit code is there only at the end, and a success code follows from *)
(* the rows and the tools.                                                 *)
Earned ==
    /\ phase # "done" => exit = -1
    /\ phase \notin {"select", "prereqs", "done"} => Missing = {}
    /\ exit \in {EXIT_OK, EXIT_PASSED_PARTIAL} =>
          /\ Missing = {} /\ OverallPass
          /\ opts.quick <=> exit = EXIT_PASSED_PARTIAL

Inv ==
    /\ Types /\ Fresh /\ Disjoint /\ Placement /\ RowsTrue /\ Earned
    /\ StartsAfterDependencies

LEMMA InitInv == Init => Inv
BY DEF Init, Inv, Types, Phases, Fresh, Disjoint, Placement, RowsTrue, Earned,
       StartsAfterDependencies, Rows, Missing, EXIT_OK, EXIT_PASSED_PARTIAL, Early

(* Everything but the place of the main thread and the exit code.          *)
data == <<opts, selected, found, todo, pending, queued, running, finished, raw, result>>

(* A step of the main thread that touches no gate keeps what is said about *)
(* the gates alone.                                                        *)
LEMMA Frame ==
    ASSUME Types, Disjoint, RowsTrue, StartsAfterDependencies, phase' \in Phases,
           UNCHANGED data
    PROVE  /\ Types' /\ Disjoint' /\ RowsTrue' /\ StartsAfterDependencies'
           /\ Rows' = Rows /\ Missing' = Missing /\ Jobs' = Jobs
           /\ OverallPass' = OverallPass
<1> USE DEF data
<1>1. Types'
  BY DEF Types
<1>2. Rows' = Rows
  BY DEF Rows
<1>3. Disjoint'
  BY <1>2 DEF Disjoint
<1>4. RowsTrue'
  BY DEF RowsTrue
<1>5. StartsAfterDependencies'
  BY DEF StartsAfterDependencies, EffDeps
<1>6. Missing' = Missing /\ Jobs' = Jobs /\ OverallPass' = OverallPass
  BY DEF Missing, Jobs, AutomaticParallelJobs, OverallPass
<1> QED BY <1>1, <1>2, <1>3, <1>4, <1>5, <1>6

(* The steps of the main thread that only move it.                         *)
MoveStep ==
    \/ RejectOptions \/ AbortMissing \/ PrereqsMet \/ (\E r \in Raw : Clean(r))
    \/ ParallelEnds \/ Unwind \/ (\E g \in finished : CollectRaises(g))
    \/ SequentialEnds \/ Report

LEMMA MoveInv ==
    ASSUME Inv, MoveStep
    PROVE  Inv'
<1> USE DEF Inv
<1>1. UNCHANGED data
  BY DEF MoveStep, RejectOptions, AbortMissing, PrereqsMet, Clean, ParallelEnds, Unwind,
     CollectRaises, SequentialEnds, Report, pool, data
<1>2. phase' \in Phases
  BY DEF MoveStep, RejectOptions, AbortMissing, PrereqsMet, Clean, ParallelEnds, Unwind,
     CollectRaises, SequentialEnds, Report, Stop, Phases
<1>3. /\ Types' /\ Disjoint' /\ RowsTrue' /\ StartsAfterDependencies'
      /\ Rows' = Rows /\ Missing' = Missing /\ Jobs' = Jobs
      /\ OverallPass' = OverallPass
  BY <1>1, <1>2, Frame
<1>4. Fresh'
  <2>1. phase \in Early \/ phase' \notin Early
    BY DEF MoveStep, RejectOptions, AbortMissing, PrereqsMet, Clean, ParallelEnds, Unwind,
       CollectRaises, SequentialEnds, Report, Stop, Early
  <2> QED BY <1>1, <2>1 DEF Fresh, data
<1>5. Placement'
  <2>1. phase' \in {"done", "clean", "start", "unwind"} \/ ParallelEnds \/ SequentialEnds
    BY DEF MoveStep, RejectOptions, AbortMissing, PrereqsMet, Clean, Unwind,
       CollectRaises, Report, Stop
  <2>2. ASSUME ParallelEnds \/ SequentialEnds
        PROVE  /\ phase' = "report"
               /\ selected = Rows /\ queued = {} /\ running = {} /\ finished = {}
    BY <2>2 DEF ParallelEnds, SequentialEnds, Placement
  <2> QED BY <1>1, <1>3, <2>1, <2>2 DEF Placement, data
<1>6. Earned'
  <2> USE DEF Stop, EXIT_OK, EXIT_GATE_FAILED, EXIT_PASSED_PARTIAL, EXIT_PREREQ_ABORT
  <2>1. CASE RejectOptions \/ AbortMissing \/ Unwind
    BY <1>3, <2>1 DEF RejectOptions, AbortMissing, Unwind, Earned
  <2>2. CASE PrereqsMet
    BY <1>3, <2>2 DEF PrereqsMet, Earned
  <2>3. ASSUME NEW r \in Raw, Clean(r) PROVE Earned'
    BY <1>3, <2>3 DEF Clean, Earned
  <2>4. CASE ParallelEnds \/ SequentialEnds \/ (\E g \in finished : CollectRaises(g))
    BY <1>3, <2>4 DEF ParallelEnds, SequentialEnds, CollectRaises, Earned
  <2>5. CASE Report
    BY <1>3, <2>5 DEF Report, Earned
  <2> QED BY <2>1, <2>2, <2>3, <2>4, <2>5 DEF MoveStep
<1> QED BY <1>3, <1>4, <1>5, <1>6

LEMMA SelectInv == ASSUME Inv, SelectGates PROVE Inv'
<1> USE DEF Inv
<1>1. /\ phase = "select" /\ phase' = "prereqs" /\ selected' \subseteq Gates
      /\ UNCHANGED <<opts, found, todo, pending, queued, running, finished, raw, result, exit>>
  BY DEF SelectGates, Shard, Filter, pool
<1>2. /\ todo = {} /\ pending = {} /\ queued = {} /\ running = {} /\ finished = {}
      /\ \A g \in Gates : raw[g] = "none" /\ result[g] = "none"
  BY <1>1 DEF Fresh, Early
<1>3. Types' /\ Fresh' /\ Placement'
  BY <1>1, <1>2 DEF Types, Phases, Fresh, Placement
<1>4. Rows' = {}
  BY <1>1, <1>2 DEF Rows
<1>5. Disjoint'
  BY <1>1, <1>2, <1>4 DEF Disjoint
<1>6. RowsTrue'
  BY <1>1, <1>2 DEF RowsTrue
<1>7. StartsAfterDependencies'
  BY <1>1, <1>2 DEF StartsAfterDependencies
<1>8. Earned'
  BY <1>1 DEF Earned, EXIT_OK, EXIT_PASSED_PARTIAL
<1> QED BY <1>3, <1>5, <1>6, <1>7, <1>8

LEMMA StartInv == ASSUME Inv, StartLoop PROVE Inv'
<1> USE DEF Inv
<1>1. /\ phase = "start"
      /\ UNCHANGED <<opts, selected, found, queued, running, finished, raw, result, exit>>
      /\ \/ phase' = "schedule" /\ pending' = selected /\ todo' = todo
         \/ ~(Jobs > 1) /\ phase' = "next" /\ todo' = selected /\ pending' = pending
  BY DEF StartLoop
<1>2. /\ todo = {} /\ pending = {} /\ queued = {} /\ running = {} /\ finished = {}
      /\ \A g \in Gates : raw[g] = "none" /\ result[g] = "none"
  BY <1>1 DEF Fresh, Early
<1>3. Types' /\ Fresh'
  BY <1>1, <1>2 DEF Types, Phases, Fresh, Early
<1>4. Rows' = {}
  BY <1>1, <1>2 DEF Rows
<1>5. Disjoint'
  BY <1>1, <1>2, <1>4 DEF Disjoint
<1>6. RowsTrue'
  BY <1>1, <1>2 DEF RowsTrue
<1>7. StartsAfterDependencies'
  BY <1>1, <1>2 DEF StartsAfterDependencies
<1>8. Earned'
  BY <1>1 DEF Earned, Missing, OverallPass, EXIT_OK, EXIT_PASSED_PARTIAL
<1>9. Jobs' = Jobs
  BY <1>1 DEF Jobs, AutomaticParallelJobs
<1>10. Placement'
  BY <1>1, <1>2, <1>4, <1>9 DEF Placement
<1> QED BY <1>3, <1>5, <1>6, <1>7, <1>8, <1>10

-----------------------------------------------------------------------------

(* What a row says of the dictionary run_one_gate returned.                *)
LEMMA StatusFacts ==
    ASSUME NEW g, NEW r
    PROVE  /\ StatusOf(g, r) \in Status
           /\ StatusOf(g, r) = "PASS" => r = "0"
           /\ StatusOf(g, r) = "SKIPPED (runner)" => r = "2" /\ g \in AllowSkip
BY DEF StatusOf, Status

(* A row is never overwritten: new rows go to gates that have none, so     *)
(* every command whose dependencies had passed keeps that.                 *)
LEMMA PassedStays ==
    ASSUME Types, StartsAfterDependencies, UNCHANGED selected,
           \A g \in Rows : result'[g] = result[g],
           NEW g \in queued \cup running \cup finished \cup {h \in Gates : raw[h] # "none"},
           NEW d \in EffDeps(g)'
    PROVE  result'[d] = "PASS"
<1>1. d \in EffDeps(g) /\ d \in Gates
  BY DEF EffDeps, Types
<1>2. result[d] = "PASS"
  BY <1>1 DEF StartsAfterDependencies
<1> QED BY <1>1, <1>2 DEF Rows

LEMMA ScheduleInv == ASSUME Inv, Schedule PROVE Inv'
<1> USE DEF Inv
<1> DEFINE blocked == {g \in pending : EffDeps(g) \cap FailedOrSkipped # {}}
           ready == {g \in pending \ blocked : EffDeps(g) \subseteq Passed}
<1>1. /\ phase = "schedule" /\ phase' \in {"schedule", "wait"}
      /\ result' = [g \in Gates |-> IF g \in blocked THEN "SKIPPED (dependency)" ELSE result[g]]
      /\ pending' = pending \ (blocked \cup ready)
      /\ queued' = queued \cup ready
      /\ UNCHANGED <<opts, selected, found, todo, running, finished, raw, exit>>
  <2>1. phase = "schedule" /\ phase' \in {"schedule", "wait"}
    BY DEF Schedule
  <2>2. result' = [g \in Gates |-> IF g \in blocked THEN "SKIPPED (dependency)" ELSE result[g]]
    BY Zenon DEF Schedule
  <2>3. pending' = pending \ (blocked \cup ready) /\ queued' = queued \cup ready
    BY Zenon DEF Schedule
  <2>4. UNCHANGED <<opts, selected, found, todo, running, finished, raw, exit>>
    BY DEF Schedule
  <2> QED BY <2>1, <2>2, <2>3, <2>4
<1>2. blocked \subseteq pending /\ ready \subseteq pending /\ blocked \cap ready = {}
  OBVIOUS
<1>3. \A g \in ready : EffDeps(g) \subseteq Passed
  OBVIOUS
<1> HIDE DEF blocked, ready
<1>4. Types'
  BY <1>1, <1>2 DEF Types, Phases, Status
<1>5. Rows' = Rows \cup blocked
  BY <1>1, <1>2 DEF Rows, Types
<1>6. \A g \in Rows : result'[g] = result[g]
  BY <1>1, <1>2 DEF Rows, Disjoint
<1>7. Disjoint'
  BY <1>1, <1>2, <1>5 DEF Disjoint
<1>8. Fresh'
  BY <1>1 DEF Fresh, Early
<1>9. Placement'
  BY <1>1, <1>2, <1>5 DEF Placement
<1>10. RowsTrue'
  BY <1>1 DEF RowsTrue
<1>11. Earned'
  <2>1. Missing = {} /\ Missing' = Missing /\ exit' = -1
    BY <1>1 DEF Missing, Earned
  <2> QED BY <2>1 DEF Earned, EXIT_OK, EXIT_PASSED_PARTIAL
<1>12. StartsAfterDependencies'
  <2> SUFFICES ASSUME NEW g \in (queued \cup running \cup finished
                                    \cup {h \in Gates : raw[h] # "none"})',
                      NEW d \in EffDeps(g)'
               PROVE  result'[d] = "PASS"
    BY DEF StartsAfterDependencies
  <2>1. CASE g \in ready
    BY <1>1, <1>3, <1>6, <2>1 DEF EffDeps, Passed, Rows
  <2>2. CASE g \in queued \cup running \cup finished \cup {h \in Gates : raw[h] # "none"}
    BY <1>1, <1>6, <2>2, PassedStays
  <2> QED BY <1>1, <2>1, <2>2
<1> QED BY <1>4, <1>7, <1>8, <1>9, <1>10, <1>11, <1>12

LEMMA WorkerStartsInv == ASSUME Inv, NEW g \in queued, WorkerStarts(g) PROVE Inv'
<1> USE DEF Inv
<1>1. /\ queued' = queued \ {g} /\ running' = running \cup {g}
      /\ UNCHANGED <<opts, phase, selected, found, todo, pending, finished, raw, result, exit>>
  BY DEF WorkerStarts
<1>2. Types' /\ Fresh' /\ RowsTrue'
  BY <1>1 DEF Types, Fresh, RowsTrue
<1>3. Rows' = Rows
  BY <1>1 DEF Rows
<1>4. Disjoint'
  BY <1>1, <1>3 DEF Disjoint
<1>5. Placement'
  BY <1>1, <1>3 DEF Placement
<1>6. Earned'
  BY <1>1 DEF Earned, Missing, OverallPass
<1>7. StartsAfterDependencies'
  BY <1>1 DEF StartsAfterDependencies, EffDeps
<1> QED BY <1>2, <1>4, <1>5, <1>6, <1>7

LEMMA WorkerEndsInv ==
    ASSUME Inv, NEW g \in running, NEW r \in Raw, WorkerEnds(g, r) PROVE Inv'
<1> USE DEF Inv
<1>1. /\ Jobs > 1
      /\ raw' = [raw EXCEPT ![g] = r]
      /\ running' = running \ {g} /\ finished' = finished \cup {g}
      /\ UNCHANGED <<opts, phase, selected, found, todo, pending, queued, result, exit>>
  BY DEF WorkerEnds
<1>2. Types'
  BY <1>1 DEF Types
<1>3. Rows' = Rows
  BY <1>1 DEF Rows
<1>4. Fresh'
  BY <1>1 DEF Fresh
<1>5. Disjoint'
  BY <1>1, <1>3 DEF Disjoint
<1>6. Placement'
  BY <1>1, <1>3 DEF Placement
<1>7. RowsTrue'
  <2>1. result[g] = "none"
    BY DEF Disjoint, Rows, Types
  <2> QED BY <1>1, <2>1 DEF RowsTrue, Types
<1>8. Earned'
  BY <1>1 DEF Earned, Missing, OverallPass
<1>9. StartsAfterDependencies'
  BY <1>1 DEF StartsAfterDependencies, EffDeps, Types
<1> QED BY <1>2, <1>4, <1>5, <1>6, <1>7, <1>8, <1>9

LEMMA CollectInv == ASSUME Inv, NEW done \in SUBSET finished, Collect(done) PROVE Inv'
<1> USE DEF Inv
<1>1. /\ phase = "wait" /\ phase' = "schedule"
      /\ finished' = finished \ done
      /\ result' = [g \in Gates |-> IF g \in done THEN StatusOf(g, raw[g]) ELSE result[g]]
      /\ UNCHANGED <<opts, selected, found, todo, pending, queued, running, raw, exit>>
  BY DEF Collect
<1>2. Types'
  BY <1>1, StatusFacts DEF Types, Phases
<1>3. Rows' = Rows \cup done
  <2>1. \A g \in Gates : StatusOf(g, raw[g]) # "none"
    BY StatusFacts DEF Status
  <2> QED BY <1>1, <2>1 DEF Rows, Types
<1>4. Fresh'
  BY <1>1 DEF Fresh, Early
<1>5. Disjoint'
  BY <1>1, <1>3 DEF Disjoint
<1>6. Placement'
  BY <1>1, <1>3 DEF Placement
<1>7. RowsTrue'
  BY <1>1, StatusFacts DEF RowsTrue
<1>8. Earned'
  <2>1. Missing = {} /\ Missing' = Missing /\ exit' = -1
    BY <1>1 DEF Missing, Earned
  <2> QED BY <2>1 DEF Earned, EXIT_OK, EXIT_PASSED_PARTIAL
<1>9. \A g \in Rows : result'[g] = result[g]
  BY <1>1 DEF Rows, Disjoint
<1>10. StartsAfterDependencies'
  BY <1>1, <1>9, PassedStays DEF StartsAfterDependencies
<1> QED BY <1>2, <1>4, <1>5, <1>6, <1>7, <1>8, <1>10

-----------------------------------------------------------------------------

(* The sequential loop accepts a runner's skip where it asks for a pass;   *)
(* no dependency in the table may be skipped that way.                     *)
LEMMA AcceptableDependencyPassed ==
    ASSUME Types, RowsTrue, NEW g \in Gates, NEW d \in EffDeps(g), result[d] \in Acceptable
    PROVE  result[d] = "PASS"
<1>1. d \in DependsOn[g] /\ d \in Gates
  BY DEF EffDeps, Types
<1>2. d \notin AllowSkip
  BY <1>1, TableAssumption
<1> QED BY <1>1, <1>2 DEF Acceptable, RowsTrue

LEMMA SkipInv == ASSUME Inv, NEW g \in todo, SkipNext(g) PROVE Inv'
<1> USE DEF Inv
<1>1. /\ phase = "next"
      /\ result' = [result EXCEPT ![g] = "SKIPPED (dependency)"]
      /\ todo' = todo \ {g}
      /\ UNCHANGED <<opts, phase, selected, found, pending, queued, running, finished, raw, exit>>
  BY DEF SkipNext, pool
<1>2. Types'
  BY <1>1 DEF Types, Phases, Status
<1>3. Rows' = Rows \cup {g}
  BY <1>1 DEF Rows, Types
<1>4. Fresh'
  BY <1>1 DEF Fresh, Early
<1>5. Disjoint'
  BY <1>1, <1>3 DEF Disjoint
<1>6. Placement'
  <2>1. Jobs' = Jobs
    BY <1>1 DEF Jobs, AutomaticParallelJobs
  <2> QED BY <1>1, <1>3, <2>1 DEF Placement
<1>7. RowsTrue'
  BY <1>1 DEF RowsTrue, Types
<1>8. Earned'
  <2>1. Missing = {} /\ Missing' = Missing /\ exit' = -1
    BY <1>1 DEF Missing, Earned
  <2> QED BY <2>1 DEF Earned, EXIT_OK, EXIT_PASSED_PARTIAL
<1>9. \A h \in Rows : result'[h] = result[h]
  BY <1>1 DEF Rows, Disjoint, Types
<1>10. StartsAfterDependencies'
  BY <1>1, <1>9, PassedStays DEF StartsAfterDependencies
<1> QED BY <1>2, <1>4, <1>5, <1>6, <1>7, <1>8, <1>10

LEMMA LaunchInv == ASSUME Inv, NEW g \in todo, LaunchNext(g) PROVE Inv'
<1> USE DEF Inv
<1>1. /\ phase = "next" /\ phase' = "gate"
      /\ \A d \in EffDeps(g) : result[d] \in Acceptable
      /\ todo' = todo \ {g} /\ running' = {g}
      /\ UNCHANGED <<opts, selected, found, pending, queued, finished, raw, result, exit>>
  BY DEF LaunchNext
<1>2. running = {}
  BY <1>1 DEF Placement
<1>3. Types'
  BY <1>1 DEF Types, Phases
<1>4. Rows' = Rows
  BY <1>1 DEF Rows
<1>5. Fresh'
  BY <1>1 DEF Fresh, Early
<1>6. Disjoint'
  BY <1>1, <1>2, <1>4 DEF Disjoint
<1>7. Placement'
  <2>1. Jobs' = Jobs
    BY <1>1 DEF Jobs, AutomaticParallelJobs
  <2>2. g \in Gates /\ ~(Jobs > 1) /\ selected = todo \cup running \cup Rows
        /\ pending = {} /\ queued = {} /\ finished = {}
    BY <1>1 DEF Placement, Types
  <2> QED BY <1>1, <1>2, <1>4, <2>1, <2>2 DEF Placement
<1>8. RowsTrue'
  BY <1>1 DEF RowsTrue
<1>9. Earned'
  <2>1. Missing = {} /\ Missing' = Missing /\ exit' = -1
    BY <1>1 DEF Missing, Earned
  <2> QED BY <2>1 DEF Earned, EXIT_OK, EXIT_PASSED_PARTIAL
<1>10. StartsAfterDependencies'
  <2>1. \A d \in EffDeps(g) : result[d] = "PASS"
    BY <1>1, AcceptableDependencyPassed DEF Types
  <2> QED BY <1>1, <1>2, <2>1 DEF StartsAfterDependencies, EffDeps
<1> QED BY <1>3, <1>5, <1>6, <1>7, <1>8, <1>9, <1>10

LEMMA GateEndsInv ==
    ASSUME Inv, NEW g \in running, NEW r \in Raw, GateEnds(g, r) PROVE Inv'
<1> USE DEF Inv
<1>1. /\ phase = "gate"
      /\ raw' = [raw EXCEPT ![g] = r]
      /\ running' = {}
      /\ UNCHANGED <<opts, selected, found, todo, pending, queued, finished>>
      /\ \/ phase' = "done" /\ exit' = 1 /\ result' = result
         \/ /\ phase' = "next" /\ exit' = exit
            /\ result' = [result EXCEPT ![g] = StatusOf(g, r)]
  BY DEF GateEnds, Stop
<1>2. g \in Gates /\ result[g] = "none"
  BY DEF Disjoint, Rows, Types
<1>3. Types'
  <2>1. StatusOf(g, r) \in Status
    BY StatusFacts
  <2>2. raw' \in [Gates -> Raw \cup {"none"}] /\ result' \in [Gates -> Status \cup {"none"}]
    BY <1>1, <2>1 DEF Types
  <2> QED BY <1>1, <2>2 DEF Types, Phases
<1>4. Rows' = Rows \/ Rows' = Rows \cup {g}
  <2>1. StatusOf(g, r) # "none"
    BY StatusFacts DEF Status
  <2> QED BY <1>1, <2>1 DEF Rows, Types
<1>5. Fresh'
  BY <1>1 DEF Fresh, Early
<1>6. Disjoint'
  BY <1>1, <1>4 DEF Disjoint
<1>7. RowsTrue'
  <2> SUFFICES ASSUME NEW h \in Gates
               PROVE  /\ result'[h] = "PASS" => raw'[h] = "0"
                      /\ result'[h] = "SKIPPED (runner)" => raw'[h] = "2" /\ h \in AllowSkip
    BY DEF RowsTrue
  <2>1. CASE h = g
    <3>1. raw'[h] = r /\ result'[h] \in {"none", StatusOf(g, r)}
      BY <1>1, <1>2, <2>1 DEF Types
    <3> QED BY <2>1, <3>1, StatusFacts
  <2>2. CASE h # g
    BY <1>1, <2>2 DEF RowsTrue, Types
  <2> QED BY <2>1, <2>2
<1>8. Earned'
  <2>1. Missing' = Missing /\ exit' \in {-1, 1} /\ (phase' = "next" => exit' = -1)
    BY <1>1 DEF Missing, Earned
  <2> QED BY <1>1, <2>1 DEF Earned, EXIT_OK, EXIT_PASSED_PARTIAL
<1>9. \A h \in Rows : result'[h] = result[h]
  BY <1>1, <1>2 DEF Rows, Types
<1>10. StartsAfterDependencies'
  BY <1>1, <1>9, PassedStays DEF StartsAfterDependencies, Types
<1>11. Placement'
  <2>1. CASE phase' = "done"
    BY <2>1 DEF Placement
  <2>2. CASE phase' = "next"
    <3>1. running = {g}
      BY <1>1 DEF Placement
    <3>2. Rows' = Rows \cup {g}
      <4>1. StatusOf(g, r) # "none"
        BY StatusFacts DEF Status
      <4> QED BY <1>1, <1>2, <2>2, <4>1 DEF Rows, Types
    <3>3. Jobs' = Jobs
      BY <1>1 DEF Jobs, AutomaticParallelJobs
    <3> QED BY <1>1, <2>2, <3>1, <3>2, <3>3 DEF Placement
  <2> QED BY <1>1, <2>1, <2>2
<1> QED BY <1>3, <1>5, <1>6, <1>7, <1>8, <1>10, <1>11

-----------------------------------------------------------------------------

LEMMA NextInv == Inv /\ [Next]_vars => Inv'
<1> SUFFICES ASSUME Inv, [Next]_vars PROVE Inv'
  OBVIOUS
<1>1. CASE MoveStep
  BY <1>1, MoveInv
<1>2. CASE SelectGates \/ StartLoop \/ Schedule
  BY <1>2, SelectInv, StartInv, ScheduleInv
<1>3. ASSUME NEW done \in SUBSET finished, Collect(done) PROVE Inv'
  BY <1>3, CollectInv
<1>4. ASSUME NEW g \in todo, SkipNext(g) \/ LaunchNext(g) PROVE Inv'
  BY <1>4, SkipInv, LaunchInv
<1>5. ASSUME NEW g \in running, NEW r \in Raw, GateEnds(g, r) \/ WorkerEnds(g, r) PROVE Inv'
  BY <1>5, GateEndsInv, WorkerEndsInv
<1>6. ASSUME NEW g \in queued, WorkerStarts(g) PROVE Inv'
  BY <1>6, WorkerStartsInv
<1>7. CASE UNCHANGED vars
  <2>1. UNCHANGED <<data, phase, exit>>
    BY <1>7 DEF vars, pool, data
  <2>2. phase' \in Phases
    BY <2>1 DEF Inv, Types
  <2>3. /\ Types' /\ Disjoint' /\ RowsTrue' /\ StartsAfterDependencies'
        /\ Rows' = Rows /\ Missing' = Missing /\ Jobs' = Jobs /\ OverallPass' = OverallPass
    BY <2>1, <2>2, Frame DEF Inv
  <2>4. Fresh' /\ Placement' /\ Earned'
    BY <2>1, <2>3 DEF Inv, data, Fresh, Placement, Earned
  <2> QED BY <2>3, <2>4 DEF Inv
<1> QED
  BY <1>1, <1>2, <1>3, <1>4, <1>5, <1>6, <1>7
  DEF Next, MainStep, WorkerStep, MoveStep, Terminated

(* Every step of the main thread and of the workers keeps gates, pools,    *)
(* rows and exit code in agreement.                                        *)
THEOREM Invariance == Spec => []Inv
<1>1. Init => Inv
  BY InitInv
<1>2. Inv /\ [Next]_vars => Inv'
  BY NextInv
<1> QED BY <1>1, <1>2, PTL DEF Spec

(* For every table, command line and number of workers, the parallel loop  *)
(* neither loses a selected gate nor has it in two places.                 *)
THEOREM NoGateLostOrDoubled == Spec => []OnePlace
<1>1. Inv => OnePlace
  BY DEF Inv, Placement, Disjoint, OnePlace
<1> QED BY <1>1, Invariance, PTL

(* In both loops a command starts only after its selected dependencies     *)
(* have passed, whatever order the workers finish in.                      *)
THEOREM DependenciesFirst == Spec => []StartsAfterDependencies
<1>1. Inv => StartsAfterDependencies
  BY DEF Inv
<1> QED BY <1>1, Invariance, PTL

(* The runner is fail-closed: 0 or 2 is returned only for a non-empty      *)
(* selection with all its tools, every gate of which really succeeded.     *)
THEOREM FailClosed == Spec => []SuccessIsEarned
<1>1. Inv => SuccessIsEarned
  <2> SUFFICES ASSUME Inv, exit \in {EXIT_OK, EXIT_PASSED_PARTIAL}
               PROVE  /\ selected # {} /\ Missing = {}
                      /\ \A g \in selected : raw[g] = "0" \/ (raw[g] = "2" /\ g \in AllowSkip)
                      /\ opts.quick <=> exit = EXIT_PASSED_PARTIAL
    BY DEF SuccessIsEarned
  <2>1. Missing = {} /\ OverallPass /\ (opts.quick <=> exit = EXIT_PASSED_PARTIAL)
    BY DEF Inv, Earned
  <2>2. \A g \in selected : raw[g] = "0" \/ (raw[g] = "2" /\ g \in AllowSkip)
    BY <2>1 DEF Inv, Types, RowsTrue, OverallPass, Acceptable
  <2> QED BY <2>1, <2>2 DEF OverallPass
<1> QED BY <1>1, Invariance, PTL

-----------------------------------------------------------------------------
(* The rows                                                                *)

(* The options and the tools never change; the exit code is one of four.   *)
Settings == opts \in Options /\ found \subseteq AllTools /\ exit \in -1 .. 3

LEMMA SettingsInv == Spec => []Settings
<1>1. Init => Settings
  BY DEF Init, Settings
<1>2. Settings /\ [Next]_vars => Settings'
  <2> SUFFICES ASSUME Settings, [Next]_vars PROVE Settings'
    OBVIOUS
  <2> USE DEF Settings, Stop, EXIT_OK, EXIT_GATE_FAILED, EXIT_PASSED_PARTIAL, EXIT_PREREQ_ABORT
  <2>1. opts' = opts /\ found' = found
    BY DEF Next, MainStep, WorkerStep, Terminated, vars, RejectOptions, SelectGates, AbortMissing,
       PrereqsMet, Clean, StartLoop, Schedule, ParallelEnds, Unwind, Collect, CollectRaises,
       SkipNext, LaunchNext, GateEnds, SequentialEnds, Report, WorkerStarts, WorkerEnds
  <2>2. exit' \in {exit, 0, 1, 2, 3}
    BY DEF Next, MainStep, WorkerStep, Terminated, vars, RejectOptions, SelectGates, AbortMissing,
       PrereqsMet, Clean, StartLoop, Schedule, ParallelEnds, Unwind, Collect, CollectRaises,
       SkipNext, LaunchNext, GateEnds, SequentialEnds, Report, WorkerStarts, WorkerEnds
  <2> QED BY <2>1, <2>2
<1> QED BY <1>1, <1>2, PTL DEF Spec

(* A row was either computed from what the command did, or written because *)
(* a selected dependency had a row already that was no pass.               *)
Justified ==
    \A g \in Rows :
        \/ /\ result[g] = "SKIPPED (dependency)"
           /\ \E d \in EffDeps(g) : result[d] \notin {"none", "PASS"}
        \/ raw[g] # "none" /\ result[g] = StatusOf(g, raw[g])

(* The future of a gate is done when its command has ended.                *)
Ended == \A g \in finished : raw[g] # "none"

LEMMA EndedInv == Inv /\ Ended /\ [Next]_vars => Ended'
<1> SUFFICES ASSUME Inv, Ended, [Next]_vars PROVE Ended'
  OBVIOUS
<1> USE DEF Ended
<1>1. CASE finished' \subseteq finished /\ raw' = raw
  BY <1>1
<1>2. ASSUME NEW g \in running, NEW r \in Raw, WorkerEnds(g, r) PROVE Ended'
  BY <1>2 DEF WorkerEnds, Inv, Types, Raw
<1>3. ASSUME NEW g \in running, NEW r \in Raw, GateEnds(g, r) PROVE Ended'
  BY <1>3 DEF GateEnds, Inv, Types, Raw, Disjoint
<1> QED
  BY <1>1, <1>2, <1>3
  DEF Next, MainStep, WorkerStep, Terminated, vars, RejectOptions, SelectGates, AbortMissing,
      PrereqsMet, Clean, StartLoop, Schedule, ParallelEnds, Unwind, Collect, CollectRaises,
      SkipNext, LaunchNext, SequentialEnds, Report, WorkerStarts, pool

(* A dependency of the gate the sequential loop has come to has its row:   *)
(* the table lists it before.                                              *)
LEMMA DependencyHasRow ==
    ASSUME Types, Placement, phase = "next", NEW g \in todo, Current(g), NEW d \in EffDeps(g)
    PROVE  d \in Rows
<1>1. d \in DependsOn[g] /\ d \in selected /\ g \in Gates /\ d \in Gates
  BY DEF EffDeps, Types
<1>2. PICK i \in DOMAIN Table, j \in DOMAIN Table : Table[i] = d /\ Table[j] = g
  BY <1>1 DEF Gates
<1>3. Before(d, g)
  BY <1>1, <1>2, TableAssumption DEF Before
<1>4. d \notin todo
  BY <1>3 DEF Current
<1> QED BY <1>1, <1>4 DEF Placement

(* What is justified stays so, because rows and the dictionaries behind    *)
(* them are never overwritten.                                             *)
LEMMA JustifiedStays ==
    ASSUME Inv, Justified, UNCHANGED selected,
           \A g \in Rows : result'[g] = result[g] /\ raw'[g] = raw[g],
           \A g \in Rows' \ Rows :
              \/ /\ result'[g] = "SKIPPED (dependency)"
                 /\ \E d \in EffDeps(g) : result[d] \notin {"none", "PASS"}
              \/ raw'[g] # "none" /\ result'[g] = StatusOf(g, raw'[g])
    PROVE  Justified'
<1> SUFFICES ASSUME NEW g \in Rows'
             PROVE  \/ /\ result'[g] = "SKIPPED (dependency)"
                       /\ \E d \in EffDeps(g) : result'[d] \notin {"none", "PASS"}
                    \/ raw'[g] # "none" /\ result'[g] = StatusOf(g, raw'[g])
  BY DEF Justified, EffDeps
<1>1. ASSUME NEW d \in EffDeps(g), result[d] \notin {"none", "PASS"}
      PROVE  result'[d] \notin {"none", "PASS"}
  BY <1>1 DEF EffDeps, Rows, Inv, Types
<1>2. CASE g \in Rows
  BY <1>1, <1>2 DEF Justified
<1>3. CASE g \notin Rows
  BY <1>1, <1>3
<1> QED BY <1>2, <1>3

LEMMA JustifiedInv == Inv /\ Ended /\ Justified /\ [Next]_vars => Justified'
<1> SUFFICES ASSUME Inv, Ended, Justified, [Next]_vars PROVE Justified'
  OBVIOUS
<1> USE DEF Inv
<1>1. CASE UNCHANGED <<selected, raw, result>>
  <2>1. Rows' = Rows
    BY <1>1 DEF Rows
  <2> QED BY <1>1, <2>1, JustifiedStays
<1>2. CASE SelectGates
  <2>1. Rows' = {}
    BY <1>2 DEF SelectGates, Rows, Fresh, Early
  <2> QED BY <2>1 DEF Justified
<1>3. CASE Schedule
  <2> DEFINE blocked == {g \in pending : EffDeps(g) \cap FailedOrSkipped # {}}
  <2>1. result' = [g \in Gates |-> IF g \in blocked THEN "SKIPPED (dependency)" ELSE result[g]]
    BY <1>3, Zenon DEF Schedule
  <2>2. UNCHANGED <<selected, raw>>
    BY <1>3 DEF Schedule
  <2>3. \A g \in blocked : \E d \in EffDeps(g) : result[d] \notin {"none", "PASS"}
    BY DEF FailedOrSkipped
  <2>4. blocked \cap Rows = {}
    BY DEF Disjoint
  <2> HIDE DEF blocked
  <2>5. \A g \in Rows : result'[g] = result[g] /\ raw'[g] = raw[g]
    BY <2>1, <2>2, <2>4 DEF Rows
  <2>6. Rows' \ Rows \subseteq blocked
    BY <2>1 DEF Rows
  <2>7. \A g \in Rows' \ Rows : result'[g] = "SKIPPED (dependency)"
    BY <2>1, <2>6 DEF Rows
  <2> QED BY <2>2, <2>3, <2>5, <2>6, <2>7, JustifiedStays
<1>4. ASSUME NEW done \in SUBSET finished, Collect(done) PROVE Justified'
  <2>1. result' = [g \in Gates |-> IF g \in done THEN StatusOf(g, raw[g]) ELSE result[g]]
        /\ UNCHANGED <<selected, raw>>
    BY <1>4 DEF Collect
  <2>2. \A g \in Rows : result'[g] = result[g] /\ raw'[g] = raw[g]
    BY <2>1 DEF Rows, Disjoint
  <2>3. Rows' \ Rows \subseteq done
    BY <2>1 DEF Rows
  <2>4. \A g \in Rows' \ Rows : raw'[g] # "none" /\ result'[g] = StatusOf(g, raw'[g])
    BY <2>1, <2>3 DEF Ended, Types
  <2> QED BY <2>1, <2>2, <2>4, JustifiedStays
<1>5. ASSUME NEW g \in running, NEW r \in Raw, WorkerEnds(g, r) PROVE Justified'
  <2>1. g \notin Rows /\ raw' = [raw EXCEPT ![g] = r] /\ UNCHANGED <<selected, result>>
    BY <1>5 DEF WorkerEnds, Disjoint
  <2>2. Rows' = Rows
    BY <2>1 DEF Rows
  <2>3. \A h \in Rows : result'[h] = result[h] /\ raw'[h] = raw[h]
    BY <2>1 DEF Types, Rows
  <2> QED BY <2>1, <2>2, <2>3, JustifiedStays
<1>6. ASSUME NEW g \in todo, SkipNext(g) PROVE Justified'
  <2>1. PICK d \in EffDeps(g) : result[d] \notin Acceptable
    BY <1>6 DEF SkipNext
  <2>2. result[d] \notin {"none", "PASS"}
    BY <1>6, <2>1, DependencyHasRow DEF SkipNext, Rows, Acceptable
  <2>3. g \notin Rows /\ UNCHANGED <<selected, raw>>
        /\ result' = [result EXCEPT ![g] = "SKIPPED (dependency)"]
    BY <1>6 DEF SkipNext, Disjoint
  <2>4. /\ \A h \in Rows : result'[h] = result[h] /\ raw'[h] = raw[h]
        /\ \A h \in Rows' \ Rows : h = g /\ result'[h] = "SKIPPED (dependency)"
    BY <2>3 DEF Rows, Types
  <2> QED BY <2>1, <2>2, <2>3, <2>4, JustifiedStays
<1>7. ASSUME NEW g \in running, NEW r \in Raw, GateEnds(g, r) PROVE Justified'
  <2>1. /\ g \in Gates /\ g \notin Rows /\ raw' = [raw EXCEPT ![g] = r] /\ UNCHANGED selected
        /\ result' = result \/ result' = [result EXCEPT ![g] = StatusOf(g, r)]
        /\ r # "none"
    BY <1>7 DEF GateEnds, Disjoint, Types, Raw
  <2>2. \A h \in Rows : result'[h] = result[h] /\ raw'[h] = raw[h]
    BY <2>1 DEF Rows, Types
  <2>3. \A h \in Rows' \ Rows :
           raw'[h] # "none" /\ result'[h] = StatusOf(h, raw'[h])
    BY <2>1 DEF Rows, Types
  <2> QED BY <2>1, <2>2, <2>3, JustifiedStays
<1> QED
  BY <1>1, <1>2, <1>3, <1>4, <1>5, <1>6, <1>7
  DEF Next, MainStep, WorkerStep, Terminated, vars, RejectOptions, AbortMissing, PrereqsMet, Clean,
      StartLoop, ParallelEnds, Unwind, CollectRaises, LaunchNext, SequentialEnds, Report,
      WorkerStarts

(* What the rows of selected gates make of the whole table.                *)
RowTable ==
    [g \in Gates |->
        IF g \in selected THEN result[g]
        ELSE IF \E d \in EffDeps(g) : result[d] # "PASS" THEN "SKIPPED (dependency)"
        ELSE IF raw[g] = "none" THEN "none" ELSE StatusOf(g, raw[g])]

IsVerdict(v) ==
    v = [g \in Gates |->
            IF \E d \in EffDeps(g) : v[d] # "PASS" THEN "SKIPPED (dependency)"
            ELSE IF raw[g] = "none" THEN "none" ELSE StatusOf(g, raw[g])]

(* There is one verdict only: two differ first at a gate whose             *)
(* dependencies, listed before it, they agree on.                          *)
LEMMA VerdictUnique ==
    ASSUME NEW v, NEW w, IsVerdict(v), IsVerdict(w)
    PROVE  v = w
<1> DEFINE Differ == {i \in DOMAIN Table : v[Table[i]] # w[Table[i]]}
<1>1. CASE Differ = {}
  <2>1. \A g \in Gates : v[g] = w[g]
    BY <1>1 DEF Gates
  <2>2. /\ v = [g \in Gates |-> v[g]]
        /\ w = [g \in Gates |-> w[g]]
    BY DEF IsVerdict
  <2> QED BY <2>1, <2>2
<1>2. CASE Differ # {}
  <2>1. Differ \subseteq Nat
    BY TableAssumption
  <2> HIDE DEF Differ
  <2>2. PICK i \in Differ : \A j \in Differ : i <= j
    BY <1>2, <2>1, LeastNat
  <2> USE DEF Differ
  <2> DEFINE g == Table[i]
  <2>3. g \in Gates /\ i \in DOMAIN Table
    BY DEF Gates
  <2>4. ASSUME NEW d \in EffDeps(g) PROVE v[d] = w[d]
    <3>1. d \in DependsOn[g] /\ d \in Gates
      BY <2>3, TableAssumption DEF EffDeps
    <3>2. PICK j \in DOMAIN Table : Table[j] = d
      BY <3>1 DEF Gates
    <3>3. j < i /\ i \in Nat /\ j \in Nat
      BY <2>3, <3>1, <3>2, TableAssumption
    <3>4. j \notin Differ
      BY <2>2, <3>3
    <3> QED BY <3>2, <3>4
  <2>5. /\ v[g] = IF \E d \in EffDeps(g) : v[d] # "PASS" THEN "SKIPPED (dependency)"
                  ELSE IF raw[g] = "none" THEN "none" ELSE StatusOf(g, raw[g])
        /\ w[g] = IF \E d \in EffDeps(g) : w[d] # "PASS" THEN "SKIPPED (dependency)"
                  ELSE IF raw[g] = "none" THEN "none" ELSE StatusOf(g, raw[g])
    BY <2>3 DEF IsVerdict
  <2>6. v[g] = w[g]
    BY <2>4, <2>5
  <2> QED BY <2>6
<1> QED BY <1>1, <1>2

(* At the report the rows are the verdict: they satisfy its equation, and  *)
(* no other table does.                                                    *)
LEMMA RowsSatisfyVerdict ==
    ASSUME Inv, Justified, phase = "report"
    PROVE  RowsAreVerdict
<1> USE DEF Inv
<1>1. selected = Rows /\ selected \subseteq Gates
  BY DEF Placement, Types
<1>2. \A g \in Gates : \A d \in EffDeps(g) : d \in Gates /\ RowTable[d] = result[d]
  BY <1>1 DEF EffDeps, RowTable
<1>3. ASSUME NEW g \in Gates
      PROVE  RowTable[g] = IF \E d \in EffDeps(g) : result[d] # "PASS" THEN "SKIPPED (dependency)"
                           ELSE IF raw[g] = "none" THEN "none" ELSE StatusOf(g, raw[g])
  <2>1. CASE g \notin selected
    BY <2>1 DEF RowTable
  <2>2. CASE g \in selected
    <3>1. RowTable[g] = result[g]
      BY <2>2 DEF RowTable
    <3>2. raw[g] # "none" => \A d \in EffDeps(g) : result[d] = "PASS"
      BY DEF StartsAfterDependencies
    <3> QED BY <1>1, <2>2, <3>1, <3>2 DEF Justified
  <2> QED BY <2>1, <2>2
<1>4. IsVerdict(RowTable)
  <2>1. \A g \in Gates :
          RowTable[g] = IF \E d \in EffDeps(g) : RowTable[d] # "PASS" THEN "SKIPPED (dependency)"
                        ELSE IF raw[g] = "none" THEN "none" ELSE StatusOf(g, raw[g])
    BY <1>2, <1>3
  <2>2. RowTable = [g \in Gates |-> RowTable[g]]
    BY DEF RowTable
  <2> QED BY <2>1, <2>2 DEF IsVerdict
<1>5. IsVerdict(Verdict)
  BY <1>4, Zenon DEF IsVerdict, Verdict
<1>6. Verdict = RowTable
  BY <1>4, <1>5, VerdictUnique
<1> QED BY <1>1, <1>6 DEF RowsAreVerdict, RowTable

(* The report of run_gates.py is determined by what the commands did: it   *)
(* depends neither on the number of workers nor on the order in which they *)
(* finish, for every table, selection and outcome of the commands.         *)
THEOREM ReportIsTheVerdict == Spec => []RowsInv
<1>1. Init => Ended /\ Justified
  BY DEF Init, Ended, Justified, Rows
<1>2. Inv /\ Ended /\ Justified /\ [Next]_vars => Ended' /\ Justified'
  BY EndedInv, JustifiedInv
<1>3. Inv /\ Settings /\ Justified => RowsInv
  BY RowsSatisfyVerdict DEF RowsInv, RowsAreVerdict, TypeOK, Inv, Types, Phases, Settings
<1> QED BY <1>1, <1>2, <1>3, Invariance, SettingsInv, PTL DEF Spec

=============================================================================
