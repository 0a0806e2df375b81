---------------------------- MODULE GateRunnerMC -----------------------------
(* Seven gates with the shapes of GATE_TABLE: a build most depend on,      *)
(* an emitter and the test that depends on it, a gate that may have no     *)
(* runner, a proof gate, a linter without dependencies, a slow fuzzer with *)
(* an oracle of its own.                                                   *)
EXTENDS GateRunner

MCTable == <<"lake_build", "check_refs", "check_gates_axioms", "spike1_hello_windows",
             "test_spike1_windows", "test_spike1_wasm", "wasm_fuzzer">>

MCGroup ==
    [g \in {MCTable[i] : i \in DOMAIN MCTable} |->
        CASE g = "lake_build"         -> "build"
          [] g = "check_refs"         -> "linters"
          [] g = "check_gates_axioms" -> "proofs"
          [] g = "wasm_fuzzer"        -> "fuzzers"
          [] OTHER                    -> "spikes"]

MCTools ==
    [g \in {MCTable[i] : i \in DOMAIN MCTable} |->
        CASE g = "check_refs"  -> {"python"}
          [] g = "wasm_fuzzer" -> {"lean", "node"}
          [] OTHER             -> {"lean"}]

MCDependsOn ==
    [g \in {MCTable[i] : i \in DOMAIN MCTable} |->
        CASE g \in {"lake_build", "check_refs"} -> {}
          [] g = "test_spike1_windows"          -> {"spike1_hello_windows"}
          [] OTHER                              -> {"lake_build"}]

CommandLine(quick, groups, gates, shard, jobs, parallel, clean) ==
    [quick |-> quick, groups |-> groups, gates |-> gates, shard |-> shard,
     jobs |-> jobs, parallel |-> parallel, clean |-> clean]

Sequential ==
    {CommandLine(q, {}, {}, NoShard, -1, FALSE, c) : q \in BOOLEAN, c \in BOOLEAN}

Filtered ==
    {CommandLine(FALSE, gr, {}, NoShard, -1, TRUE, FALSE) :
        gr \in {{"spikes"}, {"proofs"}, {"build", "spikes"}, {"nosuch"}}}
    \cup {CommandLine(FALSE, {}, ga, NoShard, 2, FALSE, FALSE) :
        ga \in {{"lake_build", "test_spike1_wasm"}, {"nosuch"}}}
    \cup {CommandLine(FALSE, {}, {}, <<k, 2>>, 2, FALSE, FALSE) : k \in 0 .. 3}
    \cup {CommandLine(FALSE, {}, {}, NoShard, 0, FALSE, FALSE)}

(* Five gates for two workers, and five for three under --quick.           *)
Parallel ==
    {CommandLine(FALSE, {"build", "spikes", "linters"}, {}, NoShard, 2, FALSE, FALSE),
     CommandLine(TRUE, {"build", "spikes", "proofs"}, {}, NoShard, 3, FALSE, FALSE)}

MCOptions == Sequential \cup Filtered \cup Parallel

==============================================================================
