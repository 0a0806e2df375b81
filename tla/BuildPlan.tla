----------------------------- MODULE BuildPlan -----------------------------
(***************************************************************************)
(* scripts/build_full.py: the full build.  It reads the default targets,   *)
(* walks the imports of each depth first, cuts the modules into batches,   *)
(* waits for the Lean process lease, and builds the batches, then the      *)
(* targets, then asks Lake to confirm that nothing is left to build.       *)
(*                                                                         *)
(* The recursion of local_import_order is a stack of frames, each with the *)
(* imports its loop has still to visit, in any order.  Developers may      *)
(* change the imports of a module at any moment; what depends on it must   *)
(* then be built again.                                                    *)
(*                                                                         *)
(* A definition commented "Mutant" is a bug the checks must find; no       *)
(* specification uses it.                                                  *)
(***************************************************************************)
EXTENDS Integers, Sequences, FiniteSets, SequencesExt

CONSTANTS
    LocalModules, \* the modules that have a file
    Configs,    \* the defaultTargets lists that may be declared
    RootOf,     \* [target names -> the module Lake builds for it]
    Settings,   \* GASM_LEAN_NORMALIZATION_BATCH_SIZE: integers, None, NotANumber
    Memory,     \* the host's memory in tenths of a GiB
    ImportGraphs, \* import graphs to start from
    MaxChanges, \* bound: how often the imports of a module change
    None, NotANumber

MAX_AUTOMATIC_NORMALIZATION_BATCH_SIZE == 16

ASSUME BuildPlanAssumption ==
    /\ IsFiniteSet(LocalModules)
    /\ Memory \in Nat /\ MaxChanges \in Nat
    /\ Settings \ {None, NotANumber} \subseteq Int
    /\ ImportGraphs \subseteq [LocalModules -> SUBSET LocalModules]
    /\ \A list \in Configs : list \in Seq(DOMAIN RootOf)
    /\ \A targets \in Configs : \A i \in DOMAIN targets : RootOf[targets[i]] \in LocalModules

VARIABLES
    imports,   \* [Modules -> the modules it imports]
    targets, setting,
    phase,     \* "configure", "plan", "lease", "run", "ended"
    status,    \* the exit code
    t,         \* the target whose closure is walked
    stack,     \* frames of visit: the module, and the imports left to visit
    visited, ordered,
    modules,   \* the modules scheduled so far, of all targets
    next,      \* the command to run
    built,     \* the modules whose product is up to date
    wave,      \* how many modules the last normalization batch compiled
    changes

plan == <<targets, setting, t, stack, visited, ordered, modules>>
planVars == <<imports, plan, phase, status, next, built, wave, changes>>

-----------------------------------------------------------------------------
(* Configuration                                                           *)

IntegerSettings == Settings \ {None, NotANumber}

Accepts(list) == list # <<>> /\ IsInjective(list)

Smaller(a, b) == IF a < b THEN a ELSE b

(* 1.8 GiB of memory for each module of a wave, at least one, at most 16.  *)
NormalizationBatchSize(s) ==
    IF s # None THEN s
    ELSE LET fit == Smaller(MAX_AUTOMATIC_NORMALIZATION_BATCH_SIZE, Memory \div 18)
         IN IF fit < 1 THEN 1 ELSE fit

ValidSetting(s) == s = None \/ (s \in IntegerSettings /\ s >= 1)

Size == NormalizationBatchSize(setting)

PlanInit ==
    /\ imports \in ImportGraphs
    /\ targets \in Configs /\ setting \in Settings
    /\ phase = "configure" /\ status = 0
    /\ t = 1 /\ stack = <<>> /\ visited = {} /\ ordered = <<>> /\ modules = <<>>
    /\ next = 1 /\ built = {} /\ wave = 0 /\ changes = 0

Stop(exit) == phase' = "ended" /\ status' = exit

(* default_targets and normalization_batch_size, or exit code 2.           *)
Configure ==
    /\ phase = "configure"
    /\ IF Accepts(targets) /\ ValidSetting(setting)
       THEN phase' = "plan" /\ UNCHANGED status
       ELSE Stop(2)
    /\ UNCHANGED <<imports, plan, next, built, wave, changes>>

-----------------------------------------------------------------------------
(* local_import_order                                                      *)

(* A file's import lines, read when its frame is pushed.                   *)
Frame(m) == [module |-> m, todo |-> imports[m]]

Visiting == {stack[i].module : i \in DOMAIN stack}

(* Mutant: a module being visited counts as visited.                       *)
VisitOnce(m, callers) ==
    IF m \in visited \cup Visiting
    THEN stack' = callers /\ UNCHANGED <<phase, status>>
    ELSE stack' = Append(callers, Frame(m)) /\ UNCHANGED <<phase, status>>

(* What a call of visit makes of the frames of its callers.                *)
Visit(m, callers) ==
    IF m \in visited
    THEN stack' = callers /\ UNCHANGED <<phase, status>>
    ELSE IF m \in Visiting
    THEN Stop(2) /\ stack' = callers
    ELSE stack' = Append(callers, Frame(m)) /\ UNCHANGED <<phase, status>>

(* A target that is not the name of a source has no local closure.         *)
Closed == stack = <<>> /\ (targets[t] \in LocalModules => targets[t] \in visited)

VisitTarget ==
    /\ phase = "plan" /\ t <= Len(targets) /\ stack = <<>> /\ ~Closed
    /\ Visit(targets[t], <<>>)
    /\ UNCHANGED <<imports, targets, setting, t, visited, ordered, modules, next, built, wave, changes>>

VisitImport(i) ==
    /\ phase = "plan" /\ stack # <<>> /\ i \in Last(stack).todo
    /\ Visit(i, [stack EXCEPT ![Len(stack)].todo = @ \ {i}])
    /\ UNCHANGED <<imports, targets, setting, t, visited, ordered, modules, next, built, wave, changes>>

Return ==
    /\ phase = "plan" /\ stack # <<>> /\ Last(stack).todo = {}
    /\ visited' = visited \cup {Last(stack).module}
    /\ ordered' = Append(ordered, Last(stack).module)
    /\ stack' = Front(stack)
    /\ UNCHANGED <<imports, targets, setting, phase, status, t, modules, next, built, wave, changes>>

(* The next module of the target's closure is scheduled once.              *)
Schedule ==
    /\ phase = "plan" /\ t <= Len(targets) /\ Closed /\ ordered # <<>>
    /\ modules' = IF Head(ordered) \in ToSet(modules) THEN modules
                  ELSE Append(modules, Head(ordered))
    /\ ordered' = Tail(ordered)
    /\ UNCHANGED <<imports, targets, setting, stack, phase, status, t, visited, next, built, wave, changes>>

NextTarget ==
    /\ phase = "plan" /\ t <= Len(targets) /\ Closed /\ ordered = <<>>
    /\ visited' = {} /\ t' = t + 1
    /\ UNCHANGED <<imports, targets, setting, stack, phase, status, ordered, modules, next, built, wave, changes>>

PlanMade ==
    /\ phase = "plan" /\ t > Len(targets)
    /\ phase' = "lease"
    /\ UNCHANGED <<imports, plan, status, next, built, wave, changes>>

-----------------------------------------------------------------------------
(* The build                                                               *)

(* The lease is granted, or its deadline passes.                           *)
TakeLease ==
    /\ phase = "lease"
    /\ \/ phase' = "run" /\ UNCHANGED status
       \/ Stop(2)
    /\ UNCHANGED <<imports, plan, next, built, wave, changes>>

Batches == (Len(modules) + Size - 1) \div Size

(* The modules of a batch.                                                 *)
Batch(i) == {modules[k] : k \in (i - 1) * Size + 1 .. Smaller(i * Size, Len(modules))}

(* What modules need: every set that has them and what it imports has it.  *)
Closure(ms) ==
    {m \in LocalModules :
        \A set \in SUBSET LocalModules :
            ms \subseteq set /\ (\A x \in set : imports[x] \subseteq set) => m \in set}

Dependents(m) == {x \in LocalModules : m \in Closure({x})}

Cyclic(ms) == \E m \in Closure(ms) : m \in Closure(imports[m])

Roots == {RootOf[targets[i]] : i \in DOMAIN targets}

(* The modules the command at position next asks Lake for.                 *)
Asked == IF next <= Batches THEN Batch(next) ELSE {RootOf[targets[next - Batches]]}

Commands == Batches + Len(targets)

(* lake build: what the modules need and is not up to date is compiled, as *)
(* much of it as possible at once.  A module may fail.                     *)
RunBuild ==
    /\ phase = "run" /\ next <= Commands
    /\ wave' = IF next <= Batches THEN Cardinality(Closure(Asked) \ built) ELSE 0
    /\ \/ /\ ~Cyclic(Asked)
          /\ built' = built \cup Closure(Asked)
          /\ next' = next + 1
          /\ UNCHANGED <<phase, status>>
       \/ Stop(1) /\ UNCHANGED <<built, next>>
    /\ UNCHANGED <<imports, plan, changes>>

(* lake --no-build build                                                   *)
ClosureCheck ==
    /\ phase = "run" /\ next > Commands
    /\ Stop(IF Closure(Roots) \subseteq built THEN 0 ELSE 3)
    /\ UNCHANGED <<imports, plan, next, built, wave, changes>>

(* The imports of a file change.                                           *)
EditImports(m) ==
    /\ changes < MaxChanges /\ phase # "ended"
    /\ changes' = changes + 1
    /\ \E new \in SUBSET LocalModules : imports' = [imports EXCEPT ![m] = new]
    /\ built' = built \ Dependents(m)
    /\ UNCHANGED <<plan, phase, status, next, wave>>

PlanTerminated == phase = "ended" /\ UNCHANGED planVars

PlanNext ==
    \/ Configure \/ VisitTarget \/ Return \/ Schedule \/ NextTarget \/ PlanMade
    \/ TakeLease \/ RunBuild \/ ClosureCheck
    \/ \E m \in LocalModules : VisitImport(m) \/ EditImports(m)
    \/ PlanTerminated

PlanSpec == PlanInit /\ [][PlanNext]_planVars

-----------------------------------------------------------------------------
(* Properties                                                              *)

(* The walk never nests deeper than there are modules, so it ends, also on *)
(* a cycle and while files change under it.                                *)
PlanTypeOK ==
    /\ imports \in [LocalModules -> SUBSET LocalModules]
    /\ phase \in {"configure", "plan", "lease", "run", "ended"} /\ status \in 0 .. 3
    /\ Len(stack) <= Cardinality(LocalModules) /\ Visiting \subseteq LocalModules
    /\ ToSet(ordered) \subseteq visited /\ IsInjective(ordered)
    /\ t \in 1 .. Len(targets) + 1
    /\ built \subseteq LocalModules /\ changes \in 0 .. MaxChanges

LocalTargets == {targets[i] : i \in DOMAIN targets} \cap LocalModules

(* In a tree that holds still, the plan is the closure of the targets,     *)
(* each module once and after all it imports.                              *)
PlanIsTopological ==
    changes = 0 /\ phase \in {"lease", "run"} =>
        /\ ToSet(modules) = Closure(LocalTargets) /\ IsInjective(modules)
        /\ \A i \in DOMAIN modules : imports[modules[i]] \subseteq {modules[j] : j \in 1 .. i - 1}

(* Planning gives up exactly on a cycle below a target.                    *)
CyclesAreFound ==
    changes = 0 /\ Accepts(targets) /\ ValidSetting(setting) =>
        /\ phase \in {"lease", "run"} => ~Cyclic(LocalTargets)
        /\ phase = "ended" /\ t <= Len(targets) => Cyclic(LocalTargets)

(* A wave compiles at most the batch size, which is at least one.          *)
WavesBoundedWhenQuiet == changes = 0 /\ phase = "run" => wave <= Size /\ Size >= 1

(* The waves leave nothing of the plan for the phases, which compile as    *)
(* much at once as they like.                                              *)
WavesSufficeWhenQuiet ==
    changes = 0 /\ phase = "run" /\ next > Batches => ToSet(modules) \subseteq built

(* Without edits the closure check confirms what the phases built.         *)
PhasesSuffice == changes = 0 => status # 3

(* A plan that is sound, and a build that carries it out within its wave   *)
(* size and leaves nothing to do.                                          *)
PlanInv ==
    /\ PlanTypeOK
    /\ PlanIsTopological /\ CyclesAreFound
    /\ WavesBoundedWhenQuiet /\ WavesSufficeWhenQuiet /\ PhasesSuffice

=============================================================================
