---------------------------- MODULE MeasureTree ----------------------------
(***************************************************************************)
(* scripts/measure_process_tree.py: one command is started under the lease *)
(* and its process tree is sampled until it ends.  An interrupt leaves the *)
(* block of the lease first and then takes the tree down.                  *)
(*                                                                         *)
(* The tree belongs to somebody else: its processes start others, end when *)
(* they like, may ignore SIGTERM, and lose their parent when that ends;    *)
(* the operating system may refuse to end one, or to list what is below.   *)
(*                                                                         *)
(* A definition commented "Mutant" is a bug the checks must find; no       *)
(* specification uses it.                                                  *)
(***************************************************************************)
EXTENDS Integers

CONSTANTS
    Pids,       \* bound: the processes the command may come to
    Root,       \* the command itself
    Stubborn,   \* processes that ignore SIGTERM
    Denied,     \* processes the operating system does not let it end
    HasPsutil,  \* whether psutil can be imported
    Free        \* nobody

ASSUME MeasureAssumption ==
    /\ Root \in Pids /\ Stubborn \subseteq Pids /\ Denied \subseteq Pids
    /\ HasPsutil \in BOOLEAN
    /\ {"measure", "launcher"} \cap (Pids \union {Free}) = {}

VARIABLES
    lock,       \* who holds the lease: "measure", another "launcher", or Free
    stage,      \* where main is
    result,     \* its exit code, or Free
    held,       \* whether it has hold of the command: root is not None
    started,    \* processes of the tree that were started
    alive,      \* those that run
    parent,     \* the parent of each of them, or Free if that has ended
    victims,    \* processes terminate_tree has yet to ask
    listed,     \* all it found
    stray       \* history: processes it could not find, or that came later

family == <<started, alive, parent>>
measureVars == <<lock, stage, result, held, started, alive, parent, victims, listed, stray>>

MeasureInit ==
    /\ lock \in {Free, "launcher"}
    /\ stage = "idle" /\ result = Free /\ held = FALSE
    /\ started = {} /\ alive = {} /\ parent = [p \in Pids |-> Free]
    /\ victims = {} /\ listed = {} /\ stray = {}

Exit(c) == stage' = "done" /\ result' = c

(* What is left of a tree when some of its processes end.                  *)
Orphaned(ended) == [p \in Pids |-> IF parent[p] \in ended THEN Free ELSE parent[p]]

(* psutil's children(recursive=True), nothing if the process has ended:    *)
(* what is in every set that has the children of what it has.              *)
Children(p) ==
    {q \in alive \ {p} :
        \A set \in SUBSET alive :
            /\ {p} \cap alive \subseteq set
            /\ \A x \in alive : parent[x] \in set => x \in set
            => q \in set}

(* The arguments were accepted; without psutil nothing is measured.        *)
Begin ==
    /\ stage = "idle"
    /\ IF HasPsutil THEN stage' = "wait" /\ UNCHANGED result ELSE Exit(2)
    /\ UNCHANGED <<lock, held, family, victims, listed, stray>>

AcquireLease ==
    /\ stage = "wait" /\ lock = Free
    /\ lock' = "measure" /\ stage' = "spawn"
    /\ UNCHANGED <<result, held, family, victims, listed, stray>>

(* The deadline of the lease, its configuration, or an interrupt.          *)
NotAcquired ==
    /\ stage = "wait"
    /\ Exit(2)
    /\ UNCHANGED <<lock, held, family, victims, listed, stray>>

(* Popen starts the command, which runs while nobody has hold of it; or    *)
(* there is no such command.                                               *)
Spawn ==
    /\ stage = "spawn"
    /\ started' = {Root} /\ alive' = {Root}
    /\ stage' = "spawned"
    /\ UNCHANGED <<lock, result, held, parent, victims, listed, stray>>

SpawnFails ==
    /\ stage = "spawn"
    /\ lock' = Free /\ Exit(2)
    /\ UNCHANGED <<held, family, victims, listed, stray>>

(* psutil.Process takes hold of it; its error, when the command has ended  *)
(* or may not be looked at, is one nobody catches.                         *)
TakeHold ==
    /\ stage = "spawned"
    /\ held' = TRUE /\ stage' = "sample"
    /\ UNCHANGED <<lock, result, family, victims, listed, stray>>

HoldFails ==
    /\ stage = "spawned"
    /\ lock' = Free /\ Exit(1)
    /\ UNCHANGED <<held, family, victims, listed, stray>>

(* The loop ends with the command; the reader of its output is waited for  *)
(* five seconds; the block is left.                                        *)
Finish ==
    /\ stage = "sample" /\ Root \notin alive
    /\ lock' = Free /\ Exit(0)
    /\ stray' = stray \union alive
    /\ UNCHANGED <<held, family, victims, listed>>

(* An exception leaves the block before it is handled; a command nobody    *)
(* has hold of is left to itself.                                          *)
Interrupt ==
    /\ stage \in {"spawned", "sample"}
    /\ lock' = Free
    /\ IF held THEN stage' = "list" /\ UNCHANGED result ELSE Exit(2)
    /\ UNCHANGED <<held, family, victims, listed, stray>>

(* terminate_tree looks for the descendants once; when it is not allowed   *)
(* to, it takes the command to have none.                                  *)
Descendants(p) == Children(p)

List ==
    /\ stage = "list"
    /\ \/ /\ listed' = Descendants(Root) \union ({Root} \cap alive)
          /\ stray' = stray \union (alive \ ({Root} \union Children(Root)))
       \/ /\ listed' = {Root} \cap alive
          /\ stray' = stray \union (alive \ {Root})
    /\ victims' = listed'
    /\ stage' = "terminate"
    /\ UNCHANGED <<lock, result, held, family>>

(* Whoever has ended by now, or may not be ended, is no error.             *)
Terminate ==
    /\ stage = "terminate"
    /\ \E p \in victims :
        LET ended == {p} \ (Stubborn \union Denied)
        IN /\ p = Root => victims = {Root}
           /\ victims' = victims \ {p}
           /\ alive' = alive \ ended
           /\ parent' = Orphaned(ended)
    /\ UNCHANGED <<lock, stage, result, held, started, listed, stray>>

(* Mutant: what did not react to SIGTERM is left.                          *)
NotKilled == {}

(* After five seconds those found that still run are killed.               *)
Killed == listed \ Denied

KillListed ==
    /\ stage = "terminate" /\ victims = {}
    /\ alive' = alive \ Killed
    /\ parent' = Orphaned(Killed)
    /\ Exit(2)
    /\ UNCHANGED <<lock, held, started, victims, listed, stray>>

Measure ==
    \/ Begin \/ AcquireLease \/ NotAcquired \/ Spawn \/ SpawnFails
    \/ TakeHold \/ HoldFails \/ Finish \/ Interrupt \/ List \/ Terminate \/ KillListed

(* A process of the tree starts another one.                               *)
Fork(p, q) ==
    /\ p \in alive /\ q \notin started
    /\ started' = started \union {q} /\ alive' = alive \union {q}
    /\ parent' = [parent EXCEPT ![q] = p]
    /\ stray' = IF stage \in {"terminate", "done"} \/ p \in stray THEN stray \union {q} ELSE stray
    /\ UNCHANGED <<lock, stage, result, held, victims, listed>>

End(p) ==
    /\ p \in alive
    /\ alive' = alive \ {p} /\ parent' = Orphaned({p})
    /\ UNCHANGED <<lock, stage, result, held, started, victims, listed, stray>>

(* Another launcher runs Lean under the lease.                             *)
Launcher ==
    /\ lock \in {Free, "launcher"}
    /\ lock' = IF lock = Free THEN "launcher" ELSE Free
    /\ UNCHANGED <<stage, result, held, family, victims, listed, stray>>

MeasureNext ==
    \/ Measure \/ Launcher
    \/ \E p \in Pids : End(p) \/ \E q \in Pids : Fork(p, q)

MeasureSpec == MeasureInit /\ [][MeasureNext]_measureVars

-----------------------------------------------------------------------------
(* Properties *)

MeasureTypeOK ==
    /\ lock \in {Free, "measure", "launcher"}
    /\ stage \in {"idle", "wait", "spawn", "spawned", "sample", "list", "terminate", "done"}
    /\ result \in {Free, 0, 1, 2} /\ held \in BOOLEAN
    /\ started \subseteq Pids /\ alive \subseteq started
    /\ parent \in [Pids -> Pids \union {Free}]
    /\ victims \subseteq listed /\ listed \subseteq started /\ stray \subseteq started

(* An aborted measurement that had hold of the command ends every process  *)
(* below it that was there to be found, whether or not it reacts to        *)
(* SIGTERM; what is left may not be ended, had lost its parent, could not  *)
(* be listed, or came while the others were being ended.  Without a hold   *)
(* on the command ("if root is not None") nothing is ended.                *)
CleanupIsThorough ==
    stage = "done" /\ result = 2 /\ held => alive \subseteq stray \union Denied

(* The measured tree, up to the end of its cleanup.                        *)
CleanupInv == MeasureTypeOK /\ CleanupIsThorough

==============================================================================
