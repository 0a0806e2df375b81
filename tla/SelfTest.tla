------------------------------ MODULE SelfTest ------------------------------
(***************************************************************************)
(* The self-tests that plant a defect in the real checkout, look whether   *)
(* the gate it is meant for turns red, revert it and look whether the gate *)
(* is green again: run_self_test() of scripts/run_gates.py, and the first  *)
(* two vectors of scripts/check_orphan_modules.py.                         *)
(*                                                                         *)
(* All runs share one checkout: the files on disk, the git index, the      *)
(* umbrella Gasm.lean and the build products.  A probe is its file; the    *)
(* umbrella is the set of its import lines, those of the repository        *)
(* counted as one.                                                         *)
(*                                                                         *)
(* write_text empties a file before it fills it, so one that fails may     *)
(* leave it empty.  What raises inside a finally clause leaves the rest of *)
(* the clause undone.                                                      *)
(*                                                                         *)
(* A definition commented "Mutant" is a bug the checks must find; no       *)
(* specification uses it.                                                  *)
(***************************************************************************)
EXTENDS Integers, Sequences

CONSTANTS
    Runs,        \* invocations, numbered
    Controls,    \* the control vectors
    How,         \* [Controls -> Kinds]
    Gate,        \* [Controls -> Gates]: the gate a control is aimed at
    Probe,       \* [Controls -> Files]: the file it plants
    Own,         \* the import lines of the repository itself
    Reports,     \* [Gates -> SUBSET Files]: the probes that are a defect for a gate
    Blinds,      \* the sets of gates that may detect nothing
    Regimes      \* what may happen around the runs; one holds for a behaviour

Kinds == {"staged", "built", "throwaway", "untracked"}
Files == {Probe[c] : c \in Controls}
Gates == {Gate[c] : c \in Controls}

(* The control lists its probe in the index of the checkout.               *)
Indexed(c) == How[c] \in {"staged", "built"}

(* No control shares a file with one that treats the index differently.    *)
(* plan: what the runs do; concurrent: whether a run may start while       *)
(* another one is active; mayFail: which operations may fail: a file       *)
(* cannot be written or removed, git fails or does not answer, a build or  *)
(* a gate is given up at its time limit; kills and noise                   *)
(* bound how many runs are killed and how often a developer plants or      *)
(* repairs a real defect.                                                  *)
ASSUME SelfTestAssumption ==
    /\ Runs \subseteq Nat
    /\ How \in [Controls -> Kinds]
    /\ Reports \in [Gates -> SUBSET Files]
    /\ \A c \in Controls : Probe[c] \in Reports[Gate[c]]
    /\ Own \notin Files
    /\ \A c, d \in Controls : Probe[c] = Probe[d] => (Indexed(c) <=> Indexed(d))
    /\ Blinds \subseteq SUBSET Gates
    /\ \A regime \in Regimes :
        /\ regime.plan \in [Runs -> Seq(Controls) \ {<<>>}]
        /\ regime.concurrent \in BOOLEAN
        /\ regime.mayFail \subseteq {"write", "unlink", "git", "gittimeout", "timeout"}
        /\ regime.kills \in Nat /\ regime.noise \in Nat

VARIABLES
    planted,    \* the probes on disk
    hollow,     \* the probes of which there is an empty file
    staged,     \* the probes git ls-files lists
    root,       \* the import lines of Gasm.lean
    olean,     \* the probes the last successful build compiled
    regime,
    blind,     \* the gates that detect nothing
    noise,     \* the gates a developer's own defect makes red
    noises,    \* how often noise changed
    kills,     \* how many runs were killed
    place,      \* where each run is
    at,        \* the position of its control in its plan
    original,  \* what it read of Gasm.lean before planting
    copy,      \* its throwaway copy of the index
    red,       \* whether it saw its control's defect reported
    raising,   \* whether an exception is on its way out of the try block
    ok,        \* whether all its controls so far passed
    saw        \* the controls whose gate looked while the probe was visible to it

checkout == <<planted, hollow, staged, root, olean>>
environment == <<regime, blind, noise, noises, kills>>
locals == <<original, copy, red, raising, ok, saw>>
selfTestVars == <<checkout, environment, place, at, locals>>

Plan == regime.plan
Fails(operation) == operation \in regime.mayFail

(* raised: an exception of the try block, after the cleanup; abandoned:    *)
(* one of the cleanup itself.                                              *)
Ended == {"idle", "passed", "failed", "raised", "abandoned", "killed"}
Active(r) == place[r] \notin Ended
Pcs == Ended \cup {"plant", "root", "stage", "build", "check", "unstage",
                   "restore", "unlink", "rebuild", "recheck"}

Ctl(r) == Plan[r][at[r]]
Mine(r) == Probe[Ctl(r)]
Is(r, kind) == How[Ctl(r)] = kind

-----------------------------------------------------------------------------
(* What a gate reports                                                     *)

(* The text gates read what git lists and skip a file they cannot read;    *)
(* the compiled gates see what was built; the orphan gate lists every      *)
(* tracked file that nothing imports, on disk or not, and is not green     *)
(* either when the umbrella has lost its own imports.                      *)
Visible(kind, listed) ==
    CASE kind = "staged" -> listed \cap planted
      [] kind = "built"  -> olean
      [] OTHER           -> listed \ root

Reported(r, listed) ==
    IF Gate[Ctl(r)] \in blind THEN {}
    ELSE Visible(How[Ctl(r)], listed) \cap Reports[Gate[Ctl(r)]]

(* The gate exits 0: nothing planted is reported, and nothing else.        *)
GateGreen(r, listed) ==
    /\ Reported(r, listed) = {} /\ Gate[Ctl(r)] \notin noise
    /\ Own \in root \/ Indexed(Ctl(r))

(* Mutant: any nonzero exit code counts as red.                            *)
AnyRed(r, listed) == ~GateGreen(r, listed)

(* Red means that the report names this control's own probe.               *)
TurnedRed(r, listed) == Mine(r) \in Reported(r, listed)

Listed(r) == IF Is(r, "throwaway") THEN copy[r] ELSE staged

(* The gate gives no verdict: it was given up, or git did not list.        *)
GateFails(r) == Fails("git") \/ (Indexed(Ctl(r)) /\ Fails("timeout"))

-----------------------------------------------------------------------------
(* One control                                                             *)

Goto(r, to) == place' = [place EXCEPT ![r] = to]

Cleanup(r) == IF Indexed(Ctl(r)) THEN "unstage" ELSE "unlink"

(* An exception inside the try block: the finally clause runs, and passes  *)
(* it on.                                                                  *)
Raise(r) ==
    /\ raising' = [raising EXCEPT ![r] = TRUE]
    /\ Goto(r, Cleanup(r))

(* The probe after write_text, after one that broke off, and when removed. *)
Written(r) == planted' = planted \cup {Mine(r)} /\ hollow' = hollow \ {Mine(r)}
Emptied(r) == planted' = planted \ {Mine(r)} /\ hollow' = hollow \cup {Mine(r)}
Removed(r) == planted' = planted \ {Mine(r)} /\ hollow' = hollow \ {Mine(r)}

SelfTestInit ==
    /\ planted = {} /\ hollow = {} /\ staged = {} /\ root = {Own} /\ olean = {}
    /\ regime \in Regimes /\ blind \in Blinds
    /\ noise = {} /\ noises = 0 /\ kills = 0
    /\ place = [r \in Runs |-> "idle"]
    /\ at = [r \in Runs |-> 1]
    /\ original = [r \in Runs |-> {}]
    /\ copy = [r \in Runs |-> {}]
    /\ red = [r \in Runs |-> FALSE]
    /\ raising = [r \in Runs |-> FALSE]
    /\ ok = [r \in Runs |-> TRUE]
    /\ saw = [r \in Runs |-> {}]

(* Runs start in the order of their numbers.                               *)
Start(r) ==
    /\ place[r] = "idle"
    /\ \A s \in Runs : s < r => place[s] # "idle"
    /\ regime.concurrent \/ \A s \in Runs : ~Active(s)
    /\ Goto(r, "plant")
    /\ UNCHANGED <<checkout, environment, at, locals>>

(* Read the umbrella or copy the index, which git is asked for outside the *)
(* try block; then write the probe.                                        *)
Plant(r) ==
    /\ place[r] = "plant"
    /\ original' = [original EXCEPT ![r] = IF Is(r, "built") THEN root ELSE @]
    /\ copy' = [copy EXCEPT ![r] = IF Is(r, "throwaway") THEN staged ELSE @]
    /\ red' = [red EXCEPT ![r] = FALSE]
    /\ \/ /\ Written(r)
          /\ Goto(r, CASE Is(r, "built")     -> "root"
                       [] Is(r, "untracked") -> "check"
                       [] OTHER              -> "stage")
          /\ UNCHANGED raising
       \/ /\ Fails("write") /\ Raise(r)
          /\ Emptied(r) \/ UNCHANGED <<planted, hollow>>
       \/ /\ Fails("git") /\ Is(r, "throwaway") /\ Goto(r, "raised")
          /\ UNCHANGED <<planted, hollow, raising>>
    /\ UNCHANGED <<staged, root, olean, environment, at, ok, saw>>

WriteRoot(r) ==
    /\ place[r] = "root"
    /\ \/ root' = original[r] \cup {Mine(r)} /\ Goto(r, "stage") /\ UNCHANGED raising
       \/ Fails("write") /\ root' \in {root, {}} /\ Raise(r)
    /\ UNCHANGED <<planted, hollow, staged, olean, environment, at, original, copy, red, ok, saw>>

(* git add.  run_gates.py ignores that it failed; the orphan gate's vector *)
(* stages into its copy and raises.                                        *)
Stage(r) ==
    /\ place[r] = "stage"
    /\ LET next == IF Is(r, "built") THEN "build" ELSE "check"
       IN \/ /\ IF Is(r, "throwaway")
                THEN copy' = [copy EXCEPT ![r] = @ \cup {Mine(r)}] /\ UNCHANGED staged
                ELSE staged' = staged \cup {Mine(r)} /\ UNCHANGED copy
             /\ Goto(r, next) /\ UNCHANGED raising
          \/ /\ Fails("git")
             /\ IF Is(r, "throwaway") THEN Raise(r) ELSE Goto(r, next) /\ UNCHANGED raising
             /\ UNCHANGED <<staged, copy>>
          \/ /\ Fails("gittimeout") /\ ~Is(r, "throwaway")
             /\ Raise(r)
             /\ UNCHANGED <<staged, copy>>
    /\ UNCHANGED <<planted, hollow, root, olean, environment, at, original, red, ok, saw>>

(* lake build fails on an import without a file; an empty one compiles,    *)
(* and there is nothing in it to report.                                   *)
Builds == root \ {Own} \subseteq planted \cup hollow
Compiled == IF Builds THEN root \cap planted ELSE olean

(* A build given up at its time limit may have compiled all there is.      *)
Build(r) ==
    /\ place[r] = "build"
    /\ \/ olean' = Compiled /\ Goto(r, IF Builds THEN "check" ELSE Cleanup(r))
       \/ Fails("timeout") /\ olean' \in {olean, Compiled} /\ Goto(r, Cleanup(r))
    /\ UNCHANGED <<planted, hollow, staged, root, environment, at, locals>>

(* The orphan gate is asked in process: git failing ends the self-test.    *)
Check(r) ==
    /\ place[r] = "check"
    /\ \/ /\ red' = [red EXCEPT ![r] = IF Is(r, "untracked") THEN GateGreen(r, staged)
                                       ELSE TurnedRed(r, Listed(r))]
          /\ saw' = [saw EXCEPT ![r] =
                        IF Mine(r) \in Visible(How[Ctl(r)], Listed(r))
                        THEN @ \cup {Ctl(r)} ELSE @]
          /\ Goto(r, Cleanup(r)) /\ UNCHANGED raising
       \/ /\ GateFails(r)
          /\ IF Indexed(Ctl(r)) THEN Goto(r, Cleanup(r)) /\ UNCHANGED raising ELSE Raise(r)
          /\ UNCHANGED <<red, saw>>
    /\ UNCHANGED <<checkout, environment, at, original, copy, ok>>

(* Mutant: the probe is deleted but stays staged.                          *)
UnstageNothing(r) ==
    /\ place[r] = "unstage"
    /\ Goto(r, IF Is(r, "built") THEN "restore" ELSE "unlink")
    /\ UNCHANGED <<checkout, environment, at, locals>>

(* git reset; its failure is ignored.  A timeout is not, and leaves the    *)
(* rest of the finally clause undone.                                      *)
Unstage(r) ==
    /\ place[r] = "unstage"
    /\ \/ /\ \/ staged' = staged \ {Mine(r)}
             \/ Fails("git") /\ UNCHANGED staged
          /\ Goto(r, IF Is(r, "built") THEN "restore" ELSE "unlink")
       \/ /\ Fails("gittimeout")
          /\ Goto(r, "abandoned")
          /\ UNCHANGED staged
    /\ UNCHANGED <<planted, hollow, root, olean, environment, at, locals>>

Restore(r) ==
    /\ place[r] = "restore"
    /\ \/ root' = original[r] /\ Goto(r, "unlink")
       \/ Fails("write") /\ root' \in {root, {}} /\ Goto(r, "abandoned")
    /\ UNCHANGED <<planted, hollow, staged, olean, environment, at, locals>>

(* The control is over: the next one, or the verdict.                      *)
Conclude(r, passed) ==
    /\ ok' = [ok EXCEPT ![r] = @ /\ passed]
    /\ IF at[r] < Len(Plan[r])
       THEN at' = [at EXCEPT ![r] = @ + 1] /\ Goto(r, "plant")
       ELSE UNCHANGED at /\ Goto(r, IF ok[r] /\ passed THEN "passed" ELSE "failed")

Unlink(r) ==
    /\ place[r] = "unlink"
    /\ \/ /\ Removed(r)
          /\ IF raising[r] THEN Goto(r, "raised") /\ UNCHANGED <<at, ok>>
             ELSE IF Is(r, "untracked") THEN Conclude(r, red[r])
             ELSE Goto(r, IF Is(r, "built") THEN "rebuild" ELSE "recheck") /\ UNCHANGED <<at, ok>>
       \/ /\ Fails("unlink") /\ Goto(r, "abandoned")
          /\ UNCHANGED <<planted, hollow, at, ok>>
    /\ UNCHANGED <<staged, root, olean, environment, original, copy, red, raising, saw>>

(* The revert must build again before the gate is asked.                   *)
Rebuild(r) ==
    /\ place[r] = "rebuild"
    /\ \/ /\ olean' = Compiled
          /\ IF Builds THEN Goto(r, "recheck") /\ UNCHANGED <<at, ok>> ELSE Conclude(r, FALSE)
       \/ /\ Fails("timeout") /\ olean' \in {olean, Compiled}
          /\ Conclude(r, FALSE)
    /\ UNCHANGED <<planted, hollow, staged, root, environment, original, copy, red, raising, saw>>

(* This time nothing is left to clean up.                                  *)
Recheck(r) ==
    /\ place[r] = "recheck"
    /\ \/ Conclude(r, red[r] /\ GateGreen(r, staged))
       \/ /\ GateFails(r)
          /\ IF Indexed(Ctl(r)) THEN Conclude(r, FALSE)
             ELSE Goto(r, "raised") /\ UNCHANGED <<at, ok>>
    /\ UNCHANGED <<checkout, environment, original, copy, red, raising, saw>>

-----------------------------------------------------------------------------
(* The environment                                                         *)

(* The kill may come while a file is empty.                                *)
KillRun(r) ==
    /\ Active(r) /\ kills < regime.kills
    /\ kills' = kills + 1
    /\ Goto(r, "killed")
    /\ \/ UNCHANGED <<planted, hollow, root>>
       \/ place[r] = "plant" /\ Emptied(r) /\ UNCHANGED root
       \/ place[r] \in {"root", "restore"} /\ root' = {} /\ UNCHANGED <<planted, hollow>>
    /\ UNCHANGED <<staged, olean, regime, blind, noise, noises, at, locals>>

(* A developer's own defect comes or goes.                                 *)
Develop ==
    /\ noises < regime.noise
    /\ noises' = noises + 1
    /\ \E g \in Gates : noise' = IF g \in noise THEN noise \ {g} ELSE noise \cup {g}
    /\ UNCHANGED <<checkout, regime, blind, kills, place, at, locals>>

SelfTestTerminated == (\A r \in Runs : place[r] \in Ended \ {"idle"}) /\ UNCHANGED selfTestVars

Step(r) ==
    \/ Start(r) \/ Plant(r) \/ WriteRoot(r) \/ Stage(r) \/ Build(r) \/ Check(r)
    \/ Unstage(r) \/ Restore(r) \/ Unlink(r) \/ Rebuild(r) \/ Recheck(r)

SelfTestNext == (\E r \in Runs : Step(r) \/ KillRun(r)) \/ Develop \/ SelfTestTerminated

SelfTestSpec == SelfTestInit /\ [][SelfTestNext]_selfTestVars

-----------------------------------------------------------------------------
(* Properties                                                              *)

SelfTestTypeOK ==
    /\ planted \subseteq Files /\ hollow \subseteq Files /\ staged \subseteq Files
    /\ root \subseteq Files \cup {Own} /\ olean \subseteq Files
    /\ blind \subseteq Gates /\ noise \subseteq Gates
    /\ noises \in 0 .. regime.noise /\ kills \in 0 .. regime.kills
    /\ place \in [Runs -> Pcs]
    /\ \A r \in Runs : at[r] \in DOMAIN Plan[r]
    /\ original \in [Runs -> SUBSET (Files \cup {Own})]
    /\ copy \in [Runs -> SUBSET Files]
    /\ red \in [Runs -> BOOLEAN] /\ raising \in [Runs -> BOOLEAN]
    /\ ok \in [Runs -> BOOLEAN] /\ saw \in [Runs -> SUBSET Controls]

(* PASS is earned: each planting control's gate looked at a visible probe  *)
(* and is not blind, whatever else runs, fails, is killed or is red in the *)
(* checkout (the false pass the comment of _git_stage warns of).           *)
PassIsEarned ==
    \A r \in Runs : place[r] = "passed" =>
        \A i \in DOMAIN Plan[r] :
            How[Plan[r][i]] # "untracked" =>
                /\ Gate[Plan[r][i]] \notin blind
                /\ Plan[r][i] \in saw[r]

(* One run at a time, and git does what it is told.                        *)
Alone == ~regime.concurrent /\ regime.mayFail \subseteq {"write", "unlink", "timeout"}

(* Runs that did not come to the end of a cleanup: they were killed, or an *)
(* operation of the finally clause itself failed.                          *)
BrokenOff == {r \in Runs : place[r] \in {"killed", "abandoned"}}

Dirt == planted \cup hollow \cup staged \cup (root \ {Own})

(* When no run is active and none broke off, the checkout is as it was     *)
(* before the first one, whatever could not be written on the way and      *)
(* whichever build or gate was given up: "reverted and re-asserted green,  *)
(* with try/finally cleanup".                                              *)
EndedIsClean ==
    Alone /\ BrokenOff = {} /\ (\A r \in Runs : ~Active(r)) => Dirt = {} /\ root = {Own}

(* A run over gates that work, answer in time and are otherwise green      *)
(* passes, unless an earlier one broke off: a control leaves nothing       *)
(* behind that a later one would stumble over.                             *)
WorkingGatesPass ==
    Alone /\ ~Fails("timeout") =>
        \A r \in Runs : place[r] = "failed" =>
            blind # {} \/ noises > 0 \/ \E s \in BrokenOff : s < r

Latest(r) == place[r] # "idle" /\ \A s \in Runs : s > r => place[s] = "idle"

(* A control that was run to its end leaves neither file nor index entry   *)
(* of its probe, even those of an earlier run that broke off in it: the    *)
(* self-test is "a RE-RUNNABLE regression test".                           *)
CompletedIsClean ==
    Alone => \A r \in Runs : Latest(r) =>
        \A i \in DOMAIN Plan[r] :
            (place[r] \in {"passed", "failed"} \/ (i < at[r] /\ Probe[Plan[r][i]] # Mine(r))) =>
                Probe[Plan[r][i]] \notin planted \cup hollow \cup staged

(* Whatever lies about is the probe of the control a run is in, or broke   *)
(* off in, and the umbrella has its own imports unless that is a control   *)
(* that writes it.                                                         *)
DirtIsAccounted ==
    Alone =>
        LET accountable == {r \in Runs : Active(r)} \cup BrokenOff
        IN /\ Dirt \subseteq {Mine(r) : r \in accountable}
           /\ Own \in root \/ \E r \in accountable : Is(r, "built")

(* The checkout through self-tests that fail, are killed and run again:    *)
(* controls clean up after themselves, do not disturb one another, and     *)
(* what stays is accounted for.                                            *)
CheckoutInv ==
    /\ SelfTestTypeOK
    /\ EndedIsClean /\ CompletedIsClean /\ DirtIsAccounted
    /\ WorkingGatesPass

=============================================================================
