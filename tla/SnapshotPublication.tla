------------------------ MODULE SnapshotPublication ------------------------
(***************************************************************************)
(* SnapshotCache with the histories that two promises about publications   *)
(* are relative to: publish_snapshot_pair does not notice that             *)
(* prune_obsolete_snapshots left a snapshot where it was, and the second   *)
(* fingerprint of a run does not notice that the inputs were changed and   *)
(* changed back since the first.                                           *)
(***************************************************************************)
EXTENDS SnapshotCache

VARIABLES
    failed,   \* history: the runs that could not unlink a snapshot
    restored, \* history: the runs whose inputs went away and came back
    doubtful  \* history: the saves such runs went on to publish

history == <<failed, restored, doubtful>>

Pruning(c) == pc[c] \in {"prune", "pruneDeps", "pruneManifest"}

(* Between the first fingerprint and the second.                           *)
Saving(c) == pc[c] \in {"select", "save", "written", "recheck"}

PublicationInit == Init /\ failed = {} /\ restored = {} /\ doubtful = {}

(* The turn of a key ends with its snapshot where it was.                  *)
FailedNext ==
    failed' = {c \in failed : Pruning(c)'} \cup
              {c \in Clients : pc[c] = "prune" /\ doomed'[c] # doomed[c]}

RestoredNext ==
    restored' = {c \in Clients :
                    Saving(c)' /\ (c \in restored \/ (inputs' # inputs /\ inputs' = key[c][1]))}

DoubtfulNext ==
    doubtful' = doubtful \cup
                {tmp[c].snap.id : c \in {d \in restored : pc[d] = "recheck" /\ pc'[d] = "deps"}}

PublicationNext == Next /\ FailedNext /\ RestoredNext /\ DoubtfulNext

PublicationSpec ==
    /\ PublicationInit /\ [][PublicationNext]_<<vars, history>>
    /\ \A c \in Clients : WF_vars(Step(c))

(* A pair that validates is of one generation, and Lean built it from the  *)
(* inputs its key was computed from, unless these were changed and changed *)
(* back while it was being built ("Reuse is keyed by the pinned toolchain, *)
(* exact import header, accepted arguments, and contents of direct         *)
(* compiled dependencies", docs/PROOF_MACHINERY_INDEX.md).                 *)
KeyedReuse ==
    \A k \in Keys : Intact(k) =>
        /\ snap[k] = deps[k]
        /\ snap[k].built = k[1] \/ snap[k].id \in doubtful

(* A run that published and unlinked every other snapshot it found leaves  *)
(* exactly one, its own, intact, whoever crashed before in the middle of a *)
(* publication ("Keep one committed fingerprint per source").              *)
PublishesOne ==
    [][\A c \in Clients \ failed :
          pc[c] = "prune" /\ pc'[c] = "cleanup" =>
             /\ Intact(key[c]) /\ snap[key[c]] = tmp[c].snap
             /\ \A k \in Keys \ {key[c]} : snap[k] = None]_vars

==============================================================================
