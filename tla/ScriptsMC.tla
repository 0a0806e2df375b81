----------------------------- MODULE ScriptsMC -----------------------------
(* The instances of the scripts.                                           *)
EXTENDS Scripts

-----------------------------------------------------------------------------
(* Self-tests: two text controls of one gate and of another, the two that  *)
(* build, and the orphan gate's two vectors, which plant the same file.    *)

MCControls == {"broken_ref", "native_decide", "planted_sorry", "uncited_instance",
               "planted_orphan", "untracked_wip"}

MCHow ==
    [c \in MCControls |->
        CASE c \in {"broken_ref", "native_decide"}         -> "staged"
          [] c \in {"planted_sorry", "uncited_instance"}   -> "built"
          [] c = "planted_orphan"                          -> "throwaway"
          [] OTHER                                         -> "untracked"]

MCGate ==
    [c \in MCControls |->
        CASE c = "broken_ref"       -> "check_refs"
          [] c = "native_decide"    -> "check_gates"
          [] c = "planted_sorry"    -> "check_gates_axioms"
          [] c = "uncited_instance" -> "refs_coverage"
          [] OTHER                  -> "check_orphan_modules"]

MCProbe == [c \in MCControls |-> IF c = "untracked_wip" THEN "planted_orphan" ELSE c]

(* Whatever is uncited is a finding of the coverage gate, and whatever is  *)
(* not imported one of the orphan gate.                                    *)
MCReports ==
    [g \in {MCGate[c] : c \in MCControls} |->
        CASE g = "check_refs"           -> {"broken_ref"}
          [] g = "check_gates"          -> {"native_decide"}
          [] g = "check_gates_axioms"   -> {"planted_sorry"}
          [] g = "refs_coverage"        -> {"planted_sorry", "uncited_instance"}
          [] g = "check_orphan_modules" -> {MCProbe[c] : c \in MCControls}]

MCRuns == 1 .. 2

(* run_gates.py --self-test, then the orphan gate's.                       *)
MCWholePlan ==
    [r \in MCRuns |-> <<"broken_ref", "native_decide", "planted_sorry",
                        "uncited_instance", "planted_orphan", "untracked_wip">>]

(* Two invocations that meet in the umbrella and in the index.             *)
MCMeetingPlan ==
    [r \in MCRuns |-> IF r = 1 THEN <<"broken_ref", "planted_sorry">>
                      ELSE <<"uncited_instance", "planted_orphan">>]

MCGates == {MCGate[c] : c \in MCControls}
MCOneBlind == {{}} \cup {{g} : g \in MCGates}

(* One of them again, from its first build on.                             *)
MCRerunPlan == [r \in MCRuns |-> <<"planted_sorry", "broken_ref", "planted_orphan">>]

(* One run after the other, while files cannot be written or removed: in a *)
(* checkout that develops, with one run killed, and with builds and gates  *)
(* given up as well; and two at a time, one perhaps killed, while git      *)
(* fails.                                                                  *)
MCRegimes ==
    {[plan |-> MCWholePlan, concurrent |-> FALSE, mayFail |-> {"write", "unlink"},
      kills |-> 0, noise |-> 1],
     [plan |-> MCWholePlan, concurrent |-> FALSE, mayFail |-> {"write", "unlink"},
      kills |-> 1, noise |-> 0],
     [plan |-> MCRerunPlan, concurrent |-> FALSE, mayFail |-> {"write", "unlink", "timeout"},
      kills |-> 1, noise |-> 0],
     [plan |-> MCMeetingPlan, concurrent |-> TRUE, mayFail |-> {"git", "gittimeout"},
      kills |-> 1, noise |-> 0]}

-----------------------------------------------------------------------------
(* The full build: two targets that are modules and share imports, and one *)
(* that is an executable with a root of another name; lists that are       *)
(* refused; every import graph.                                            *)

MCSources == {"a", "b", "c"}
MCRootOf == [x \in {"a", "b", "exe"} |-> IF x = "exe" THEN "c" ELSE x]
MCConfigs == {<<"a", "exe", "b">>, <<"b", "exe">>, <<>>, <<"a", "a">>}
MCImportGraphs == [MCSources -> SUBSET MCSources]
MCSettings == {None, NotANumber, 0, 2}

-----------------------------------------------------------------------------
(* The orphan gate: a library, a library below it with a root of its own,  *)
(* a module under both, and an executable under neither.                   *)

Lib == <<"Stdlib">>
Sub == <<"Stdlib", "Zlib">>
Leaf == <<"Stdlib", "Zlib", "Spec">>
Exe == <<"Tools", "Emit">>

MCModules == {Lib, Sub, Leaf, Exe}
MCGraphs == {g \in [MCModules -> SUBSET MCModules] :
                \A m \in MCModules : m \notin g[m]}
MCUntracked == {{}, {Sub}, {Exe}}

(* Both libraries and the executable; the executable missing; a library    *)
(* without roots; no target at all.                                        *)
MCLakefiles ==
    {<<Key("name", <<>>), Heading("lean_lib"), Key("name", <<>>), Key("roots", <<Lib>>),
       Heading("lean_lib"), Key("roots", <<Sub>>), Heading("lean_exe"), Key("root", <<Exe>>)>>,
     <<Heading("lean_lib"), Key("roots", <<Lib>>), Heading("leanOptions"), Key("root", <<Exe>>)>>,
     <<Heading("lean_lib"), Key("roots", <<>>), Heading("lean_exe"), Key("root", <<Exe>>)>>,
     <<Key("name", <<>>)>>}

(* Files change in a chain and in a tree with a cycle.                     *)
MCChanging ==
    {[m \in MCModules |-> CASE m = Lib -> {Sub} [] m = Sub -> {Leaf} [] OTHER -> {}],
     [m \in MCModules |-> CASE m = Lib -> {Sub} [] m = Sub -> {Lib} [] m = Exe -> {Leaf} [] OTHER -> {}]}

-----------------------------------------------------------------------------
(* The measurement: a command with up to four processes below it; it and   *)
(* one of them ignore SIGTERM, and one may not be ended by anybody else.   *)
CONSTANTS lake, worker, lean, helper, late

=============================================================================
