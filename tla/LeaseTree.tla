------------------------------ MODULE LeaseTree ------------------------------
(***************************************************************************)
(* The lease of LeanLease together with the process trees it is meant to   *)
(* serialize.  The block of a launcher (build_full.py, check_lean.py,      *)
(* build_x86_family.py, fuzz_gzip.py, run_full_refs_coverage.py, a gate of *)
(* run_gates.py, run_cmd of tests/e2e/harness.py) runs commands one at a   *)
(* time: Lean or Lake itself, or another launcher, which inherits the      *)
(* marker GASM_LEAN_LEASE_HELD and so does not take the lock again.        *)
(*                                                                         *)
(* A definition commented "Mutant" is a bug the checks must find; no       *)
(* specification uses it.                                                  *)
(***************************************************************************)
EXTENDS LeanLease, FiniteSets

CONSTANT Faults \* what may go wrong: a subset of {"crash", "timeout"}

ASSUME TreeAssumption ==
    /\ {"none", "lean"} \cap Clients = {}
    /\ Faults \subseteq {"crash", "timeout"}

VARIABLES
    child,    \* the command each launcher waits for: "none", "lean" or a launcher
    parent,   \* the launcher that started this one with the marker, or NoClient
    top,      \* the launcher whose lease covers the block of this one
    orphans   \* launchers under whose lease a Lean command was left behind

treeVars == <<child, parent, top, orphans>>

vars == <<lock, pc, left, child, parent, top, orphans>>

TreeTypeOK ==
    /\ LeaseTypeOK
    /\ child \in [Clients -> Clients \cup {"none", "lean"}]
    /\ parent \in [Clients -> Clients \cup {NoClient}]
    /\ top \in [Clients -> Clients]
    /\ orphans \subseteq Clients

Init ==
    /\ LeaseInit
    /\ child = [c \in Clients |-> "none"]
    /\ parent = [c \in Clients |-> NoClient]
    /\ top = [c \in Clients |-> c]
    /\ orphans = {}

InBlock(c) == pc[c] \in {"body", "nested"}

(* The chain from c upward: what every set that holds c and the parents of *)
(* its members has in common.                                              *)
Chain(up, c) ==
    {a \in Clients :
        \A S \in SUBSET Clients :
            c \in S /\ (\A x \in S : up[x] \in S \cup {NoClient}) => a \in S}

(* The launchers from c up to the one started by hand.                     *)
Ancestors(c) == Chain(parent, c)

(* What is left when launcher c is killed: its Lean command, if it has one.*)
LeftBehind(c) == IF child[c] = "lean" THEN {top[c]} ELSE {}

(* A command that ended is reaped by the launcher that waits for it.       *)
Reaped(d) ==
    [c \in Clients |-> IF c = parent[d] /\ child[c] = d THEN "none" ELSE child[c]]

-----------------------------------------------------------------------------

(* Mutant: the marker is put into os.environ itself and outlives the block.*)
WaitStepStaleMarker(c) ==
    /\ \/ parent[c] = NoClient /\ (Enter(c) \/ EnterMisconfigured(c) \/ EnterNested(c))
       \/ TryLock(c) \/ ReserveStep(c) \/ DeadlineStep(c) \/ Recover(c)
    /\ UNCHANGED treeVars

(* The steps of the context manager itself, for a process started by hand. *)
WaitStep(c) ==
    /\ \/ parent[c] = NoClient /\ (Enter(c) \/ EnterMisconfigured(c))
       \/ TryLock(c) \/ ReserveStep(c) \/ DeadlineStep(c) \/ Recover(c)
    /\ UNCHANGED treeVars

(* The block calls subprocess.run on lake, lean or a built executable.     *)
StartLean(c) ==
    /\ InBlock(c)
    /\ child[c] = "none"
    /\ child' = [child EXCEPT ![c] = "lean"]
    /\ UNCHANGED <<leaseVars, parent, top, orphans>>

(* subprocess.run returns when the command it started has ended.           *)
LeanEnds(c) ==
    /\ child[c] = "lean"
    /\ child' = [child EXCEPT ![c] = "none"]
    /\ UNCHANGED <<leaseVars, parent, top, orphans>>

(* The block starts launcher d with inherited_lease_environment().         *)
StartLauncher(c, d) ==
    /\ InBlock(c)
    /\ child[c] = "none"
    /\ parent[d] = NoClient
    /\ EnterNested(d)
    /\ child' = [child EXCEPT ![c] = d]
    /\ parent' = [parent EXCEPT ![d] = c]
    /\ top' = [top EXCEPT ![d] = top[c]]
    /\ UNCHANGED orphans

LauncherEnds(d) ==
    /\ child[d] = "none"
    /\ LeaveNested(d)
    /\ child' = Reaped(d)
    /\ parent' = [parent EXCEPT ![d] = NoClient]
    /\ top' = [top EXCEPT ![d] = d]
    /\ UNCHANGED orphans

(* Mutant: the block does not wait for the command it started.             *)
EndBlockEarly(c) == Leave(c) /\ UNCHANGED treeVars

(* The plan of the holder is finished, or one command failed.              *)
EndBlock(c) ==
    /\ child[c] = "none"
    /\ Leave(c)
    /\ UNCHANGED treeVars

(* A launcher is killed.  Its own command is not.                          *)
KillLauncher(c) ==
    /\ "crash" \in Faults
    /\ Crash(c)
    /\ orphans' = orphans \cup LeftBehind(c)
    /\ child' = [Reaped(c) EXCEPT ![c] = "none"]
    /\ UNCHANGED <<parent, top>>

(* run_one_gate: subprocess.run(timeout=...) kills the process it started, *)
(* and nothing below it, then TimeoutExpired leaves the lease.             *)
GateTimeout(c) ==
    /\ "timeout" \in Faults
    /\ child[c] # "none"
    /\ pc[c] = "body"
    /\ lock' = NoClient
    /\ \/ /\ child[c] = "lean"
          /\ pc' = [pc EXCEPT ![c] = "idle"]
          /\ child' = [child EXCEPT ![c] = "none"]
          /\ \/ orphans' = orphans \cup {c}
             \/ UNCHANGED orphans
       \/ \E d \in Clients :
          /\ child[c] = d
          /\ pc' = [pc EXCEPT ![c] = "idle", ![d] = "dead"]
          /\ child' = [child EXCEPT ![c] = "none", ![d] = "none"]
          /\ orphans' = orphans \cup LeftBehind(d)
    /\ UNCHANGED <<left, parent, top>>

OrphanEnds(c) ==
    /\ c \in orphans
    /\ orphans' = orphans \ {c}
    /\ UNCHANGED <<leaseVars, child, parent, top>>

Second == Tick /\ UNCHANGED treeVars

Next ==
    \/ Second
    \/ \E c \in Clients :
          \/ WaitStep(c) \/ StartLean(c) \/ LeanEnds(c)
          \/ LauncherEnds(c) \/ EndBlock(c)
          \/ KillLauncher(c) \/ GateTimeout(c) \/ OrphanEnds(c)
          \/ \E d \in Clients : StartLauncher(c, d)

Spec == Init /\ [][Next]_vars

(* A launcher that waits goes on trying and the clock advances; no command *)
(* is obliged to end, nor a launcher to be started or killed.              *)
FairSpec == Spec /\ LeaseFairness

-----------------------------------------------------------------------------

Supervised(c) == \A a \in Ancestors(c) : InBlock(a)

LeanTrees == {c \in Clients : child[c] = "lean"}

(* Whatever is killed around it, a Lean command whose chain of launchers   *)
(* is intact runs under the lease of the top of that chain: a nested       *)
(* launcher that skips the lock is covered by an ancestor that holds it    *)
(* for as long as the nested one works.                                    *)
SupervisedUnderLease ==
    \A c \in LeanTrees : Supervised(c) => lock \in Ancestors(c)

(* Two launcher chains that are intact never run Lean at the same time.    *)
OneSupervisedTree ==
    \A c, d \in LeanTrees : Supervised(c) /\ Supervised(d) => c = d

(* A launcher that gives the lease back while nobody is being killed       *)
(* leaves no launcher below it in its block: releasing the lock never      *)
(* uncovers a nested launcher that would go on without one.                *)
ReleaseIsQuiet ==
    [][\A c \in Clients :
          lock = c /\ lock' # c /\ (\A d \in Clients : pc'[d] = "dead" => pc[d] = "dead") =>
             \A d \in Clients \ {c} : Supervised(d) => c \notin Ancestors(d)]_vars

(* Types, and that the Lean trees whose launchers are alive are serialized *)
(* by the lease: each is covered by a lease an ancestor holds, and there   *)
(* is one.                                                                 *)
TreeInv == LeaseTypeOK /\ TreeTypeOK /\ SupervisedUnderLease /\ OneSupervisedTree

(* "independent gasm worktrees and clones serialize their canonical Lean   *)
(* commands" (lean_process_lease.py), "even an explicit --jobs value       *)
(* cannot overlap canonical Lean/Lake trees" (docs/CI.md): the Lean and    *)
(* Lake trees of the host all belong to one launcher.                      *)
Serialized ==
    Cardinality({top[c] : c \in LeanTrees} \cup orphans) <= 1

==============================================================================
