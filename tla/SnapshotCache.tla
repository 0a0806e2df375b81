---------------------------- MODULE SnapshotCache ----------------------------
(***************************************************************************)
(* main() of scripts/run_incremental_lean.py for the runs that elaborate   *)
(* one source: the per-source lock, the fingerprint, the choice between    *)
(* loading and saving, Lean, the publication of the pair of files and its  *)
(* manifest, and the pruning of other fingerprints, file by file, with a   *)
(* crash possible between any two steps.                                   *)
(*                                                                         *)
(* A version stands for everything a fingerprint hashes besides the        *)
(* arguments: toolchain, import header, dependency list and contents.      *)
(*                                                                         *)
(* A definition commented "Mutant" is a bug the checks must find; no       *)
(* specification uses it.                                                  *)
(***************************************************************************)
EXTENDS Integers, FiniteSets

CONSTANTS
    Clients,    \* processes that elaborate the source
    NoClient,   \* the owner of a free lock
    Versions,   \* the versions of the inputs
    Args,       \* the accepted Lean argument lists
    MaxEdits,   \* bound: how often the inputs change
    MaxSaves,   \* bound: how often Lean serializes a snapshot
    MayFail     \* TRUE: replacing or unlinking a file may raise OSError

Keys == Versions \X Args

(* No file.                                                                *)
None == [built |-> 0, id |-> 0]

(* A file Lean wrote: the version it read and the save that wrote it.      *)
Content == [built : Versions, id : 1 .. MaxSaves]

NoManifest == [snapshot |-> None, deps |-> None]

ASSUME CacheAssumption ==
    /\ NoClient \notin Clients
    /\ 0 \in Versions /\ Args # {}
    /\ MaxEdits \in Nat /\ MaxSaves \in Nat
    /\ MayFail \in BOOLEAN

VARIABLES
    inputs,   \* the version on disk
    edits,    \* how often it changed
    saves,    \* how often Lean serialized a snapshot
    lock,     \* the process that holds the source's lock file
    pc,       \* where each process is
    key,      \* the fingerprint each process computed under the lock
    args,     \* its Lean arguments
    refresh,  \* its --refresh flag
    read,     \* the version Lean read in its run
    doomed,   \* the keys it has still to prune
    victim,   \* the key it is pruning
    tmp,      \* its temporary snapshot and dependency file
    snap,     \* <key>.snapshot
    deps,     \* <key>.snapshot.deps
    man       \* <key>.snapshot.json

local == <<key, args, refresh, read, doomed, victim>>
files == <<snap, deps, man>>
vars == <<inputs, edits, saves, lock, pc, local, tmp, files>>

PcValues == {"idle", "want", "locked", "select", "load", "save", "written", "recheck",
             "deps", "snap", "manifest", "prune", "pruneDeps", "pruneManifest", "cleanup",
             "dead"}

TypeOK ==
    /\ inputs \in Versions
    /\ edits \in 0 .. MaxEdits
    /\ saves \in 0 .. MaxSaves
    /\ lock \in Clients \cup {NoClient}
    /\ pc \in [Clients -> PcValues]
    /\ key \in [Clients -> Keys]
    /\ args \in [Clients -> Args]
    /\ refresh \in [Clients -> BOOLEAN]
    /\ read \in [Clients -> Versions]
    /\ doomed \in [Clients -> SUBSET Keys]
    /\ victim \in [Clients -> Keys]
    /\ tmp \in [Clients -> [snap : Content \cup {None}, deps : Content \cup {None}]]
    /\ snap \in [Keys -> Content \cup {None}]
    /\ deps \in [Keys -> Content \cup {None}]
    /\ man \in [Keys -> [snapshot : Content \cup {None}, deps : Content \cup {None}]]

NoTemporary == [snap |-> None, deps |-> None]

(* What the variables of a process that does not run are taken to be.      *)
AnyArgs == CHOOSE a \in Args : TRUE
AnyKey == <<0, AnyArgs>>

Init ==
    /\ inputs = 0 /\ edits = 0 /\ saves = 0
    /\ lock = NoClient
    /\ pc = [c \in Clients |-> "idle"]
    /\ args = [c \in Clients |-> AnyArgs]
    /\ key = [c \in Clients |-> AnyKey]
    /\ refresh = [c \in Clients |-> FALSE]
    /\ read = [c \in Clients |-> 0]
    /\ doomed = [c \in Clients |-> {}]
    /\ victim = [c \in Clients |-> AnyKey]
    /\ tmp = [c \in Clients |-> NoTemporary]
    /\ snap = [k \in Keys |-> None]
    /\ deps = [k \in Keys |-> None]
    /\ man = [k \in Keys |-> NoManifest]

(* The variables of a process go with it, and nobody looks at temporaries  *)
(* it leaves: their names are its own.                                     *)
Gone(c) ==
    /\ key' = [key EXCEPT ![c] = AnyKey] /\ args' = [args EXCEPT ![c] = AnyArgs]
    /\ refresh' = [refresh EXCEPT ![c] = FALSE] /\ read' = [read EXCEPT ![c] = 0]
    /\ doomed' = [doomed EXCEPT ![c] = {}] /\ victim' = [victim EXCEPT ![c] = AnyKey]
    /\ tmp' = [tmp EXCEPT ![c] = NoTemporary]

Goto(c, from, to) == pc[c] = from /\ pc' = [pc EXCEPT ![c] = to]

(* The directory can be in three states for a key.                         *)
Absent(k) == snap[k] = None /\ deps[k] = None /\ man[k] = NoManifest

Intact(k) ==
    /\ snap[k] # None /\ deps[k] # None
    /\ man[k] = [snapshot |-> snap[k], deps |-> deps[k]]

(* snapshot_fingerprint: what is on disk now, with the arguments of c.     *)
Fingerprint(c) == <<inputs, args[c]>>

-----------------------------------------------------------------------------

(* An editor, a checkout or a dependency build changes the inputs, to a    *)
(* version they had before it may be.                                      *)
Edit ==
    /\ edits < MaxEdits
    /\ \E v \in Versions \ {inputs} : inputs' = v
    /\ edits' = edits + 1
    /\ UNCHANGED <<saves, lock, pc, local, tmp, files>>

Begin(c) ==
    /\ Goto(c, "idle", "want")
    /\ \E r \in BOOLEAN : refresh' = [refresh EXCEPT ![c] = r]
    /\ \E a \in Args : args' = [args EXCEPT ![c] = a]
    /\ UNCHANGED <<inputs, edits, saves, lock, key, read, doomed, victim, tmp, files>>

(* Mutant: no lock, or one that does not cover all runs of the source.     *)
AcquireUnlocked(c) ==
    /\ Goto(c, "want", "locked")
    /\ lock' = c
    /\ UNCHANGED <<inputs, edits, saves, local, tmp, files>>

Acquire(c) ==
    /\ lock = NoClient
    /\ Goto(c, "want", "locked")
    /\ lock' = c
    /\ UNCHANGED <<inputs, edits, saves, local, tmp, files>>

(* 120 seconds without the lock: PreparationError, exit 2.                 *)
GiveUp(c) ==
    /\ lock # NoClient
    /\ Goto(c, "want", "idle")
    /\ Gone(c)
    /\ UNCHANGED <<inputs, edits, saves, lock, files>>

(* The fingerprint is computed after the lock is taken.                    *)
TakeFingerprint(c) ==
    /\ Goto(c, "locked", "select")
    /\ key' = [key EXCEPT ![c] = Fingerprint(c)]
    /\ UNCHANGED <<inputs, edits, saves, lock, args, refresh, read, doomed, victim, tmp, files>>

(* A dependency is missing, or lake fails: PreparationError, before the run*)
(* or after it.                                                            *)
FingerprintFails(c) ==
    /\ Goto(c, "locked", "cleanup") \/ Goto(c, "recheck", "cleanup")
    /\ UNCHANGED <<inputs, edits, saves, lock, local, tmp, files>>

(* Mutant: three files make a pair, whatever their digests are.            *)
SelectByPresence(c) ==
    /\ IF refresh[c] THEN Goto(c, "select", "save")
       ELSE IF man[key[c]] # NoManifest /\ snap[key[c]] # None /\ deps[key[c]] # None
       THEN Goto(c, "select", "load")
       ELSE IF Absent(key[c]) THEN Goto(c, "select", "save") ELSE Goto(c, "select", "cleanup")
    /\ UNCHANGED <<inputs, edits, saves, lock, local, tmp, files>>

(* Mutant: a damaged pair is retried until it is whole.                    *)
SelectRetries(c) ==
    /\ \/ ~refresh[c] /\ Intact(key[c]) /\ Goto(c, "select", "load")
       \/ (refresh[c] \/ Absent(key[c])) /\ Goto(c, "select", "save")
    /\ UNCHANGED <<inputs, edits, saves, lock, local, tmp, files>>

(* validate_snapshot_pair: an intact pair is loaded, an absent one saved,  *)
(* anything else raises; --refresh saves without looking.                  *)
Select(c) ==
    /\ \/ ~refresh[c] /\ Intact(key[c]) /\ Goto(c, "select", "load")
       \/ (refresh[c] \/ Absent(key[c])) /\ Goto(c, "select", "save")
       \/ ~refresh[c] /\ ~Intact(key[c]) /\ ~Absent(key[c]) /\ Goto(c, "select", "cleanup")
    /\ UNCHANGED <<inputs, edits, saves, lock, local, tmp, files>>

(* --print-command returns 0 instead of running the selected command.      *)
PrintCommand(c) ==
    /\ refresh[c] \/ Intact(key[c]) \/ Absent(key[c])
    /\ Goto(c, "select", "cleanup")
    /\ UNCHANGED <<inputs, edits, saves, lock, local, tmp, files>>

(* lean --incr-load: the pair is read until Lean ends.                     *)
LoadEnds(c) ==
    /\ Goto(c, "load", "cleanup")
    /\ UNCHANGED <<inputs, edits, saves, lock, local, tmp, files>>

(* lean --incr-save: at some moment of the run Lean reads the inputs ...   *)
LeanReads(c) ==
    /\ Goto(c, "save", "written")
    /\ read' = [read EXCEPT ![c] = inputs]
    /\ UNCHANGED <<inputs, edits, saves, lock, key, args, refresh, doomed, victim, tmp, files>>

(* ... and later writes both temporaries, or fails to write one of them.   *)
LeanWrites(c) ==
    /\ saves < MaxSaves
    /\ Goto(c, "written", "recheck")
    /\ saves' = saves + 1
    /\ LET content == [built |-> read[c], id |-> saves + 1]
       IN  \E d \in {content, None} :
              tmp' = [tmp EXCEPT ![c] = [snap |-> content, deps |-> d]]
    /\ UNCHANGED <<inputs, edits, lock, local, files>>

LeanFails(c) ==
    /\ Goto(c, "written", "cleanup")
    /\ UNCHANGED <<inputs, edits, saves, lock, local, tmp, files>>

(* Mutant: the fingerprint is not computed again.                          *)
RecheckNothing(c) ==
    /\ Goto(c, "recheck", IF tmp[c].deps # None THEN "deps" ELSE "cleanup")
    /\ UNCHANGED <<inputs, edits, saves, lock, local, tmp, files>>

(* Both temporaries must be there, and the fingerprint must be the same as *)
(* before the run.                                                         *)
Recheck(c) ==
    /\ Goto(c, "recheck",
            IF tmp[c].deps # None /\ Fingerprint(c) = key[c] THEN "deps" ELSE "cleanup")
    /\ UNCHANGED <<inputs, edits, saves, lock, local, tmp, files>>

(* publish_snapshot_pair, after the manifest was computed from the         *)
(* temporaries: os.replace of the dependency file, ...                     *)
ReplaceDeps(c) ==
    /\ Goto(c, "deps", "snap")
    /\ deps' = [deps EXCEPT ![key[c]] = tmp[c].deps]
    /\ UNCHANGED <<inputs, edits, saves, lock, local, tmp, snap, man>>

(* ... of the snapshot, ...                                                *)
ReplaceSnapshot(c) ==
    /\ Goto(c, "snap", "manifest")
    /\ snap' = [snap EXCEPT ![key[c]] = tmp[c].snap]
    /\ UNCHANGED <<inputs, edits, saves, lock, local, tmp, deps, man>>

(* Mutant: only snapshots with a manifest are pruned.                      *)
WriteManifestDoomsWhole(c) ==
    /\ Goto(c, "manifest", "prune")
    /\ man' = [man EXCEPT ![key[c]] = [snapshot |-> tmp[c].snap, deps |-> tmp[c].deps]]
    /\ doomed' = [doomed EXCEPT ![c] = {k \in Keys \ {key[c]} : Intact(k)}]
    /\ UNCHANGED <<inputs, edits, saves, lock, key, args, refresh, read, victim, tmp, snap, deps>>

(* ... and write_manifest, which replaces the manifest atomically.         *)
WriteManifest(c) ==
    /\ Goto(c, "manifest", "prune")
    /\ man' = [man EXCEPT ![key[c]] = [snapshot |-> tmp[c].snap, deps |-> tmp[c].deps]]
    /\ doomed' = [doomed EXCEPT ![c] = {k \in Keys \ {key[c]} : snap[k] # None}]
    /\ UNCHANGED <<inputs, edits, saves, lock, key, args, refresh, read, victim, tmp, snap, deps>>

(* A replacement or the manifest's temporary raises OSError: exit 2, with  *)
(* the files of the key half published.                                    *)
PublishFails(c) ==
    /\ MayFail
    /\ \E from \in {"deps", "snap", "manifest"} : Goto(c, from, "cleanup")
    /\ UNCHANGED <<inputs, edits, saves, lock, local, tmp, files>>

(* prune_obsolete_snapshots removes the three files of every other key it  *)
(* finds a snapshot of, the snapshot first.  An unlink that fails ends the *)
(* turn of that key.                                                       *)
Unlink(c, k, from, to, unlinked) ==
    \/ /\ Goto(c, from, to)
       /\ unlinked
       /\ doomed' = IF to = "prune" THEN [doomed EXCEPT ![c] = @ \ {k}] ELSE doomed
    \/ /\ MayFail
       /\ Goto(c, from, "prune")
       /\ UNCHANGED files
       /\ doomed' = [doomed EXCEPT ![c] = @ \ {k}]

PruneSnapshot(c, k) ==
    /\ Unlink(c, k, "prune", "pruneDeps",
              snap' = [snap EXCEPT ![k] = None] /\ UNCHANGED <<deps, man>>)
    /\ victim' = [victim EXCEPT ![c] = k]
    /\ UNCHANGED <<inputs, edits, saves, lock, key, args, refresh, read, tmp>>

PruneDeps(c) ==
    /\ Unlink(c, victim[c], "pruneDeps", "pruneManifest",
              deps' = [deps EXCEPT ![victim[c]] = None] /\ UNCHANGED <<snap, man>>)
    /\ UNCHANGED <<inputs, edits, saves, lock, key, args, refresh, read, tmp, victim>>

PruneManifest(c) ==
    /\ Unlink(c, victim[c], "pruneManifest", "prune",
              man' = [man EXCEPT ![victim[c]] = NoManifest] /\ UNCHANGED <<snap, deps>>)
    /\ UNCHANGED <<inputs, edits, saves, lock, key, args, refresh, read, tmp, victim>>

PruneDone(c) ==
    /\ doomed[c] = {}
    /\ Goto(c, "prune", "cleanup")
    /\ UNCHANGED <<inputs, edits, saves, lock, local, tmp, files>>

(* The finally clauses: the temporaries are unlinked, the lock released.   *)
Finish(c) ==
    /\ Goto(c, "cleanup", "idle")
    /\ Gone(c)
    /\ lock' = NoClient
    /\ UNCHANGED <<inputs, edits, saves, files>>

(* The process is killed between two steps: its lock goes, its files stay. *)
Crash(c) ==
    /\ pc[c] \notin {"idle", "dead"}
    /\ pc' = [pc EXCEPT ![c] = "dead"]
    /\ lock' = IF lock = c THEN NoClient ELSE lock
    /\ Gone(c)
    /\ UNCHANGED <<inputs, edits, saves, files>>

(* A new process takes its place.                                          *)
Restart(c) ==
    /\ Goto(c, "dead", "idle")
    /\ UNCHANGED <<inputs, edits, saves, lock, local, tmp, files>>

Step(c) ==
    \/ Acquire(c) \/ GiveUp(c) \/ TakeFingerprint(c) \/ Select(c) \/ LoadEnds(c)
    \/ FingerprintFails(c) \/ PrintCommand(c)
    \/ LeanReads(c) \/ LeanWrites(c) \/ LeanFails(c) \/ Recheck(c)
    \/ ReplaceDeps(c) \/ ReplaceSnapshot(c) \/ WriteManifest(c) \/ PublishFails(c)
    \/ \E k \in doomed[c] : PruneSnapshot(c, k)
    \/ PruneDeps(c) \/ PruneManifest(c) \/ PruneDone(c) \/ Finish(c)

Next == Edit \/ \E c \in Clients : Begin(c) \/ Step(c) \/ Crash(c) \/ Restart(c)

Spec == Init /\ [][Next]_vars

(* A launcher that runs is scheduled, and Lean ends; nobody has to begin a *)
(* run, to edit, to crash or to restart.                                   *)
FairSpec == Spec /\ \A c \in Clients : WF_vars(Step(c))

-----------------------------------------------------------------------------

(* The pair a run loads is intact from its validation to the end of Lean,  *)
(* whatever crashed before and whoever else runs, with whatever arguments. *)
LoadsIntact ==
    \A c \in Clients : pc[c] = "load" => Intact(key[c])

(* Every run that waits for the lock gets it or gives up, and every run    *)
(* that has it releases it, whoever crashes in the meantime.               *)
RunsEnd ==
    \A c \in Clients : pc[c] # "idle" ~> pc[c] \in {"idle", "dead"}

(* What the cache is for its readers.                                      *)
store == [k \in Keys |-> IF Intact(k) THEN snap[k] ELSE None]

readers == [k \in Keys |-> {c \in Clients : pc[c] = "load" /\ key[c] = k}]

Store == INSTANCE SnapshotStore WITH Contents <- Content, NoContent <- None

ImplementsStore == Store!StoreSpec

==============================================================================
