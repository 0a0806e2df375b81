----------------------------- MODULE GateRunner ------------------------------
(***************************************************************************)
(* main() of scripts/run_gates.py: select gates of the table, refuse to    *)
(* start when a needed tool is missing, optionally clean, run the selected *)
(* gates in table order or on a pool of worker threads, and report.        *)
(*                                                                         *)
(* What a gate's command does is drawn when it ends (variable raw); the    *)
(* runner's own decisions are all determined.                              *)
(*                                                                         *)
(* A definition commented "Mutant" is a bug the checks must find; no       *)
(* specification uses it.                                                  *)
(***************************************************************************)
EXTENDS Integers, Sequences, FiniteSets

CONSTANTS
    Table,      \* GATE_TABLE: the sequence of gate keys
    Group,      \* the group of each gate
    Slow,       \* the gates left out by --quick
    Tools,      \* the tools each gate needs
    DependsOn,  \* the gates each gate depends on
    AllowSkip,  \* gates with allow_skip_code_2
    Options,    \* the command lines of the model
    Cpus,       \* os.cpu_count()
    NoShard     \* no --shard argument

Gates == {Table[i] : i \in DOMAIN Table}

AllTools == UNION {Tools[g] : g \in Gates}

(* The table lists a gate after the gates it depends on, and no gate       *)
(* depends on one that may be skipped for want of a runner.                *)
ASSUME TableAssumption ==
    /\ Table \in Seq(Gates)
    /\ \A i, j \in DOMAIN Table : Table[i] = Table[j] => i = j
    /\ DependsOn \in [Gates -> SUBSET Gates]
    /\ \A i, j \in DOMAIN Table : Table[i] \in DependsOn[Table[j]] => i < j
    /\ \A g \in Gates : DependsOn[g] \cap AllowSkip = {}
    /\ AllowSkip \subseteq Gates
    /\ Slow \subseteq Gates

VARIABLES
    opts,      \* the parsed command line
    phase,     \* where the main thread is
    selected,  \* the gates left by the filter pipeline
    found,     \* the tools that detect_all_prereqs found
    todo,      \* the gates the sequential loop has not come to
    pending,   \* pending_gates of the parallel loop
    queued,    \* futures that no worker has started
    running,   \* gates whose command runs
    finished,  \* futures that are done and not yet popped
    raw,       \* what the command of each gate did, "none" before it ends
    result,    \* result_map, "none" where it has no row
    exit       \* the exit code, or -1

pool == <<pending, queued, running, finished>>

vars == <<opts, phase, selected, found, todo, pool, raw, result, exit>>

(* run_one_gate's dictionary: exit code 0, 2 or another, a timeout, a      *)
(* command that could not be launched (OSError, the lease's TimeoutError), *)
(* or a ValueError of a misconfigured lease, which it does not catch.      *)
Raw == {"0", "2", "other", "timeout", "unlaunched", "ValueError"}

Status == {"PASS", "FAIL", "TIMEOUT", "ERROR", "SKIPPED (runner)", "SKIPPED (dependency)"}

EXIT_OK == 0
EXIT_GATE_FAILED == 1
EXIT_PASSED_PARTIAL == 2
EXIT_PREREQ_ABORT == 3

-----------------------------------------------------------------------------
(* Selection                                                               *)

Before(g, h) == \E i, j \in DOMAIN Table : i < j /\ Table[i] = g /\ Table[j] = h

(* --shard k/n keeps the positions i, counted from 0 among the gates that  *)
(* are left, with i % n == k - 1.                                          *)
Shard(S, shard) ==
    IF shard = NoShard THEN S
    ELSE {g \in S : Cardinality({h \in S : Before(h, g)}) % shard[2] = shard[1] - 1}

Filter(o) ==
    {g \in Gates :
        /\ o.groups = {} \/ Group[g] \in o.groups
        /\ ~o.quick \/ g \notin Slow
        /\ o.gates = {} \/ g \in o.gates}

Invalid(o) ==
    \/ ~(o.groups \subseteq {Group[g] : g \in Gates})
    \/ o.shard # NoShard /\ ~(1 <= o.shard[1] /\ o.shard[1] <= o.shard[2])
    \/ o.jobs = 0

AutomaticParallelJobs(keys) ==
    IF \E g \in keys : Group[g] = "proofs" THEN 1
    ELSE IF Cpus < 2 THEN 1 ELSE 2

(* --jobs wins over --parallel; -1 stands for a --jobs that is not given.  *)
Jobs ==
    IF opts.jobs > 0 THEN opts.jobs
    ELSE IF opts.parallel THEN AutomaticParallelJobs(selected) ELSE 1

EffDeps(g) == DependsOn[g] \cap selected

(* The gates that have a row in result_map.                                *)
Rows == {g \in Gates : result[g] # "none"}

Passed == {g \in Gates : result[g] = "PASS"}

FailedOrSkipped == {g \in Gates : result[g] \notin {"none", "PASS"}}

(* Mutant: exit code 2 is a skip for every gate.                           *)
StatusOfAllSkip(g, r) ==
    CASE r = "timeout"    -> "TIMEOUT"
      [] r = "unlaunched" -> "ERROR"
      [] r = "0"          -> "PASS"
      [] r = "2"          -> "SKIPPED (runner)"
      [] OTHER            -> "FAIL"

StatusOf(g, r) ==
    CASE r = "timeout"                    -> "TIMEOUT"
      [] r = "unlaunched"                 -> "ERROR"
      [] r = "0"                          -> "PASS"
      [] r = "2" /\ g \in AllowSkip       -> "SKIPPED (runner)"
      [] OTHER                            -> "FAIL"

Acceptable == {"PASS", "SKIPPED (runner)"}

-----------------------------------------------------------------------------

Init ==
    /\ opts \in Options
    /\ phase = "select"
    /\ selected = {}
    /\ found \in SUBSET AllTools
    /\ todo = {}
    /\ pending = {} /\ queued = {} /\ running = {} /\ finished = {}
    /\ raw = [g \in Gates |-> "none"]
    /\ result = [g \in Gates |-> "none"]
    /\ exit = -1

Stop(code) == phase' = "done" /\ exit' = code

RejectOptions ==
    /\ phase = "select"
    /\ Invalid(opts)
    /\ Stop(EXIT_PREREQ_ABORT)
    /\ UNCHANGED <<opts, selected, found, todo, pool, raw, result>>

SelectGates ==
    /\ phase = "select"
    /\ ~Invalid(opts)
    /\ selected' = Shard(Filter(opts), opts.shard)
    /\ phase' = "prereqs"
    /\ UNCHANGED <<opts, found, todo, pool, raw, result, exit>>

Missing == (UNION {Tools[g] : g \in selected}) \ found

(* A missing tool of a selected gate aborts before anything runs.          *)
AbortMissing ==
    /\ phase = "prereqs"
    /\ Missing # {}
    /\ Stop(EXIT_PREREQ_ABORT)
    /\ UNCHANGED <<opts, selected, found, todo, pool, raw, result>>

PrereqsMet ==
    /\ phase = "prereqs"
    /\ Missing = {}
    /\ phase' = IF opts.clean THEN "clean" ELSE "start"
    /\ UNCHANGED <<opts, selected, found, todo, pool, raw, result, exit>>

(* lake clean is one more command of run_one_gate.                         *)
Clean(r) ==
    /\ phase = "clean"
    /\ IF r = "0" THEN phase' = "start" /\ UNCHANGED exit
                  ELSE Stop(EXIT_GATE_FAILED)
    /\ UNCHANGED <<opts, selected, found, todo, pool, raw, result>>

StartLoop ==
    /\ phase = "start"
    /\ IF Jobs > 1
       THEN phase' = "schedule" /\ pending' = selected /\ UNCHANGED todo
       ELSE phase' = "next" /\ todo' = selected /\ UNCHANGED pending
    /\ UNCHANGED <<opts, selected, found, queued, running, finished, raw, result, exit>>

-----------------------------------------------------------------------------
(* jobs > 1                                                                *)

(* Mutant: a gate is ready as soon as no dependency of it has failed.      *)
ScheduleUnblocked ==
    LET blocked == {g \in pending : EffDeps(g) \cap FailedOrSkipped # {}}
        ready == pending \ blocked
    IN  /\ phase = "schedule"
        /\ pending # {} \/ queued \cup running \cup finished # {}
        /\ result' = [g \in Gates |-> IF g \in blocked THEN "SKIPPED (dependency)"
                                                       ELSE result[g]]
        /\ pending' = pending \ (blocked \cup ready)
        /\ queued' = queued \cup ready
        /\ phase' = IF queued' \cup running \cup finished # {} THEN "wait" ELSE "schedule"
        /\ UNCHANGED <<opts, selected, found, todo, running, finished, raw, exit>>

(* Mutant: submitted gates stay in pending_gates.                          *)
ScheduleTwice ==
    LET blocked == {g \in pending : EffDeps(g) \cap FailedOrSkipped # {}}
        ready == {g \in pending \ blocked : EffDeps(g) \subseteq Passed}
    IN  /\ phase = "schedule"
        /\ pending # {} \/ queued \cup running \cup finished # {}
        /\ result' = [g \in Gates |-> IF g \in blocked THEN "SKIPPED (dependency)"
                                                       ELSE result[g]]
        /\ pending' = pending \ blocked
        /\ queued' = queued \cup ready
        /\ phase' = IF queued' \cup running \cup finished # {} THEN "wait" ELSE "schedule"
        /\ UNCHANGED <<opts, selected, found, todo, running, finished, raw, exit>>

(* Mutant: only a FAIL blocks, not a timeout, an error or a skip.          *)
ScheduleBlocksOnFail ==
    LET blocked == {g \in pending : \E d \in EffDeps(g) : result[d] = "FAIL"}
        ready == {g \in pending \ blocked : EffDeps(g) \subseteq Passed}
    IN  /\ phase = "schedule"
        /\ pending # {} \/ queued \cup running \cup finished # {}
        /\ result' = [g \in Gates |-> IF g \in blocked THEN "SKIPPED (dependency)"
                                                       ELSE result[g]]
        /\ pending' = pending \ (blocked \cup ready)
        /\ queued' = queued \cup ready
        /\ phase' = IF queued' \cup running \cup finished # {} THEN "wait" ELSE "schedule"
        /\ UNCHANGED <<opts, selected, found, todo, running, finished, raw, exit>>

(* One turn of the scheduling loop: what is blocked or ready is judged by  *)
(* the rows that were there at the top of the loop.                        *)
Schedule ==
    LET blocked == {g \in pending : EffDeps(g) \cap FailedOrSkipped # {}}
        ready == {g \in pending \ blocked : EffDeps(g) \subseteq Passed}
    IN  /\ phase = "schedule"
        /\ pending # {} \/ queued \cup running \cup finished # {}
        /\ result' = [g \in Gates |-> IF g \in blocked THEN "SKIPPED (dependency)"
                                                       ELSE result[g]]
        /\ pending' = pending \ (blocked \cup ready)
        /\ queued' = queued \cup ready
        /\ phase' = IF queued' \cup running \cup finished # {} THEN "wait" ELSE "schedule"
        /\ UNCHANGED <<opts, selected, found, todo, running, finished, raw, exit>>

(* A worker thread of the pool takes a submitted gate.                     *)
WorkerStarts(g) ==
    /\ g \in queued
    /\ Cardinality(running) < Jobs
    /\ queued' = queued \ {g}
    /\ running' = running \cup {g}
    /\ UNCHANGED <<opts, phase, selected, found, todo, pending, finished, raw, result, exit>>

WorkerEnds(g, r) ==
    /\ Jobs > 1
    /\ g \in running
    /\ raw' = [raw EXCEPT ![g] = r]
    /\ running' = running \ {g}
    /\ finished' = finished \cup {g}
    /\ UNCHANGED <<opts, phase, selected, found, todo, pending, queued, result, exit>>

(* wait(FIRST_COMPLETED) returns some of the futures that are done; each   *)
(* one becomes a row, unless fut.result() raises.                          *)
Collect(done) ==
    /\ phase = "wait"
    /\ done # {} /\ done \subseteq finished
    /\ \A g \in done : raw[g] # "ValueError"
    /\ finished' = finished \ done
    /\ result' = [g \in Gates |-> IF g \in done THEN StatusOf(g, raw[g]) ELSE result[g]]
    /\ phase' = "schedule"
    /\ UNCHANGED <<opts, selected, found, todo, pending, queued, running, raw, exit>>

(* The exception leaves main through the pool's shutdown(wait=True).       *)
CollectRaises(g) ==
    /\ phase = "wait"
    /\ g \in finished
    /\ raw[g] = "ValueError"
    /\ phase' = "unwind"
    /\ UNCHANGED <<opts, selected, found, todo, pool, raw, result, exit>>

(* Shutdown waits for the submitted gates; the interpreter then exits 1.   *)
Unwind ==
    /\ phase = "unwind"
    /\ queued = {} /\ running = {}
    /\ Stop(1)
    /\ UNCHANGED <<opts, selected, found, todo, pool, raw, result>>

ParallelEnds ==
    /\ phase = "schedule"
    /\ pending = {} /\ queued \cup running \cup finished = {}
    /\ phase' = "report"
    /\ UNCHANGED <<opts, selected, found, todo, pool, raw, result, exit>>

-----------------------------------------------------------------------------
(* jobs = 1                                                                *)

(* The loop visits the selected gates in table order.                      *)
Current(g) == g \in todo /\ \A h \in todo : ~Before(h, g)

SkipNext(g) ==
    /\ phase = "next"
    /\ Current(g)
    /\ \E d \in EffDeps(g) : result[d] \notin Acceptable
    /\ result' = [result EXCEPT ![g] = "SKIPPED (dependency)"]
    /\ todo' = todo \ {g}
    /\ UNCHANGED <<opts, phase, selected, found, pool, raw, exit>>

(* Mutant: the sequential loop does not look at the dependencies.          *)
LaunchNextAnyway(g) ==
    /\ phase = "next"
    /\ Current(g)
    /\ todo' = todo \ {g}
    /\ running' = {g}
    /\ phase' = "gate"
    /\ UNCHANGED <<opts, selected, found, pending, queued, finished, raw, result, exit>>

LaunchNext(g) ==
    /\ phase = "next"
    /\ Current(g)
    /\ \A d \in EffDeps(g) : result[d] \in Acceptable
    /\ todo' = todo \ {g}
    /\ running' = {g}
    /\ phase' = "gate"
    /\ UNCHANGED <<opts, selected, found, pending, queued, finished, raw, result, exit>>

GateEnds(g, r) ==
    /\ phase = "gate"
    /\ g \in running
    /\ raw' = [raw EXCEPT ![g] = r]
    /\ IF r = "ValueError"
       THEN Stop(1) /\ UNCHANGED result
       ELSE /\ result' = [result EXCEPT ![g] = StatusOf(g, r)]
            /\ phase' = "next"
            /\ UNCHANGED exit
    /\ running' = {}
    /\ UNCHANGED <<opts, selected, found, todo, pending, queued, finished>>

SequentialEnds ==
    /\ phase = "next"
    /\ todo = {}
    /\ phase' = "report"
    /\ UNCHANGED <<opts, selected, found, todo, pool, raw, result, exit>>

-----------------------------------------------------------------------------

OverallPass ==
    /\ selected # {}
    /\ \A g \in selected : result[g] \in Acceptable

Report ==
    /\ phase = "report"
    /\ Stop(IF ~OverallPass THEN EXIT_GATE_FAILED
            ELSE IF opts.quick THEN EXIT_PASSED_PARTIAL ELSE EXIT_OK)
    /\ UNCHANGED <<opts, selected, found, todo, pool, raw, result>>

Terminated == phase = "done" /\ UNCHANGED vars

MainStep ==
    \/ RejectOptions \/ SelectGates \/ AbortMissing \/ PrereqsMet
    \/ \E r \in Raw : Clean(r)
    \/ StartLoop \/ Schedule \/ ParallelEnds \/ Unwind
    \/ \E done \in SUBSET finished : Collect(done)
    \/ \E g \in finished : CollectRaises(g)
    \/ \E g \in todo : SkipNext(g) \/ LaunchNext(g)
    \/ \E g \in running, r \in Raw : GateEnds(g, r)
    \/ SequentialEnds \/ Report

WorkerStep ==
    \/ \E g \in queued : WorkerStarts(g)
    \/ \E g \in running, r \in Raw : WorkerEnds(g, r)

Next == MainStep \/ WorkerStep \/ Terminated

Spec == Init /\ [][Next]_vars

(* Threads are scheduled, and every command ends or is killed at the gate  *)
(* timeout.                                                                *)
FairSpec == Spec /\ WF_vars(MainStep) /\ WF_vars(WorkerStep)

-----------------------------------------------------------------------------

TypeOK ==
    /\ opts \in Options
    /\ phase \in {"select", "prereqs", "clean", "start", "schedule", "wait", "unwind",
                  "next", "gate", "report", "done"}
    /\ selected \subseteq Gates
    /\ found \subseteq AllTools
    /\ todo \subseteq Gates
    /\ pending \subseteq Gates /\ queued \subseteq Gates
    /\ running \subseteq Gates /\ finished \subseteq Gates
    /\ raw \in [Gates -> Raw \cup {"none"}]
    /\ result \in [Gates -> Status \cup {"none"}]
    /\ exit \in -1 .. 3

(* While the parallel loop runs, every selected gate is in exactly one     *)
(* place: it waits for its dependencies, for a worker, runs, waits to be   *)
(* popped, or has its row.  None is lost and none is run twice.            *)
OnePlace ==
    phase \in {"schedule", "wait"} =>
        /\ selected = pending \cup queued \cup running \cup finished \cup Rows
        /\ pending \cap (queued \cup running \cup finished \cup Rows) = {}
        /\ queued \cap (running \cup finished \cup Rows) = {}
        /\ running \cap (finished \cup Rows) = {}
        /\ finished \cap Rows = {}

(* A command starts only after every selected dependency has passed, in    *)
(* both loops, whatever order the workers finish in.                       *)
StartsAfterDependencies ==
    \A g \in queued \cup running \cup finished \cup {h \in Gates : raw[h] # "none"} :
        \A d \in EffDeps(g) : result[d] = "PASS"

(* What the rows must say, as a function of what the commands did: a gate  *)
(* is skipped exactly when a selected dependency did not pass.             *)
Verdict[g \in Gates] ==
    IF \E d \in EffDeps(g) : Verdict[d] # "PASS" THEN "SKIPPED (dependency)"
    ELSE IF raw[g] = "none" THEN "none" ELSE StatusOf(g, raw[g])

(* The table of results does not depend on the order in which the workers  *)
(* finish, nor on whether there is one worker or several.                  *)
RowsAreVerdict ==
    phase = "report" =>
        \A g \in Gates :
            /\ g \in selected => result[g] = Verdict[g]
            /\ g \in Rows <=> g \in selected

(* Fail-closed: a success code means that some gate was selected, that all *)
(* tools of all selected gates were there, and that every selected gate    *)
(* was really executed and succeeded, or said it had no runner where the   *)
(* table allows that; and --quick never exits 0.                           *)
SuccessIsEarned ==
    exit \in {EXIT_OK, EXIT_PASSED_PARTIAL} =>
        /\ selected # {} /\ Missing = {}
        /\ \A g \in selected : raw[g] = "0" \/ (raw[g] = "2" /\ g \in AllowSkip)
        /\ opts.quick <=> exit = EXIT_PASSED_PARTIAL

(* The runner ends, whatever fails, times out or cannot be launched.       *)
Terminates == <>(phase = "done")

(* Types, a row among them being one of the statuses of the report, and    *)
(* rows that are the verdict on what the commands did.                     *)
RowsInv == TypeOK /\ RowsAreVerdict

==============================================================================
