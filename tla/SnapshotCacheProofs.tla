------------------------- MODULE SnapshotCacheProofs -------------------------
(***************************************************************************)
(* Theorems about SnapshotCache, for every number of processes, versions   *)
(* and argument lists.                                                     *)
(*                                                                         *)
(* The inductive invariant: the lock and the places of the processes       *)
(* determine each other (Locked), so nobody touches a file while another   *)
(* process is between its fingerprint and its cleanup; what a publisher    *)
(* carries from the fingerprint to the manifest stays of one version while *)
(* the inputs do not come back to it (Carried); and a manifest, whatever   *)
(* happened to the files it names, names a pair of one generation and, but *)
(* for a doubtful save, of its key's version (ManifestTrue).               *)
(* Published is what a publisher has put in place so far, and what it has  *)
(* still to prune.                                                         *)
(***************************************************************************)
EXTENDS SnapshotPublication, TLAPS

LockedPcs == {"locked", "select", "load", "save", "written", "recheck", "deps", "snap",
              "manifest", "prune", "pruneDeps", "pruneManifest", "cleanup"}

Locked == \A c \in Clients : lock = c <=> pc[c] \in LockedPcs

FileInv == TypeOK /\ Locked /\ LoadsIntact

-----------------------------------------------------------------------------
(* Types                                                                   *)

LEMMA TypeInit == Init => TypeOK
BY CacheAssumption DEF Init, TypeOK, PcValues, Keys, Content, NoTemporary, NoManifest, AnyArgs, AnyKey

(* The steps that leave all files and temporaries alone.                   *)
QuietStep(c) ==
    \/ Begin(c) \/ Acquire(c) \/ TakeFingerprint(c) \/ FingerprintFails(c)
    \/ Select(c) \/ PrintCommand(c) \/ LoadEnds(c) \/ LeanReads(c) \/ LeanFails(c)
    \/ Recheck(c) \/ PublishFails(c) \/ PruneDone(c) \/ Restart(c)

FileStep(c) ==
    \/ ReplaceDeps(c) \/ ReplaceSnapshot(c) \/ WriteManifest(c)
    \/ (\E k \in doomed[c] : PruneSnapshot(c, k)) \/ PruneDeps(c) \/ PruneManifest(c)

(* The steps with which a process ends.                                    *)
Ends(c) == GiveUp(c) \/ Finish(c) \/ Crash(c)

TemporaryStep(c) == LeanWrites(c) \/ Ends(c)

(* Where a step of one process may lead it.                                *)
LEMMA PcType ==
    ASSUME TypeOK, NEW c \in Clients, QuietStep(c) \/ FileStep(c) \/ TemporaryStep(c)
    PROVE  pc' \in [Clients -> PcValues]
<1> USE DEF TypeOK, Goto, PcValues
<1>1. CASE QuietStep(c)
  BY <1>1 DEF QuietStep, Begin, Acquire, TakeFingerprint, FingerprintFails, Select,
     PrintCommand, LoadEnds, LeanReads, LeanFails, Recheck, PublishFails, PruneDone, Restart
<1>2. CASE FileStep(c)
  BY <1>2 DEF FileStep, ReplaceDeps, ReplaceSnapshot, WriteManifest, PruneSnapshot, PruneDeps,
     PruneManifest, Unlink
<1>3. CASE TemporaryStep(c)
  BY <1>3 DEF TemporaryStep, LeanWrites, Ends, GiveUp, Finish, Crash, Gone
<1> QED BY <1>1, <1>2, <1>3

LEMMA QuietType ==
    ASSUME TypeOK, NEW c \in Clients, QuietStep(c)
    PROVE  TypeOK'
<1> USE DEF TypeOK, local, files
<1>1. pc' \in [Clients -> PcValues]
  BY PcType
<1>2. CASE Begin(c)
  BY <1>1, <1>2 DEF Begin
<1>3. CASE Acquire(c)
  BY <1>1, <1>3 DEF Acquire
<1>4. CASE TakeFingerprint(c)
  BY <1>1, <1>4 DEF TakeFingerprint, Fingerprint, Keys
<1>5. CASE LeanReads(c)
  BY <1>1, <1>5 DEF LeanReads
<1>6. CASE FingerprintFails(c) \/ Select(c) \/ PrintCommand(c) \/ LoadEnds(c)
             \/ LeanFails(c) \/ Recheck(c) \/ PublishFails(c) \/ PruneDone(c) \/ Restart(c)
  BY <1>1, <1>6 DEF FingerprintFails, Select, PrintCommand, LoadEnds, LeanFails, Recheck,
     PublishFails, PruneDone, Restart
<1> QED BY <1>2, <1>3, <1>4, <1>5, <1>6 DEF QuietStep

LEMMA FileType ==
    ASSUME TypeOK, NEW c \in Clients, FileStep(c)
    PROVE  TypeOK'
<1> USE DEF TypeOK, local, files
<1>1. pc' \in [Clients -> PcValues]
  BY PcType
<1>2. CASE ReplaceDeps(c)
  BY <1>1, <1>2 DEF ReplaceDeps
<1>3. CASE ReplaceSnapshot(c)
  BY <1>1, <1>3 DEF ReplaceSnapshot
<1>4. CASE WriteManifest(c)
  BY <1>1, <1>4 DEF WriteManifest
<1>5. ASSUME NEW k \in doomed[c], PruneSnapshot(c, k) PROVE TypeOK'
  BY <1>1, <1>5 DEF PruneSnapshot, Unlink
<1>6. CASE PruneDeps(c)
  BY <1>1, <1>6 DEF PruneDeps, Unlink
<1>7. CASE PruneManifest(c)
  <2>1. NoManifest \in [snapshot : Content \cup {None}, deps : Content \cup {None}]
    BY DEF NoManifest
  <2>2. man' \in [Keys -> [snapshot : Content \cup {None}, deps : Content \cup {None}]]
    BY <1>7, <2>1 DEF PruneManifest, Unlink
  <2> QED BY <1>1, <1>7, <2>2 DEF PruneManifest, Unlink
<1> QED BY <1>2, <1>3, <1>4, <1>5, <1>6, <1>7 DEF FileStep

LEMMA TemporaryType ==
    ASSUME TypeOK, NEW c \in Clients, TemporaryStep(c)
    PROVE  TypeOK'
<1> USE DEF TypeOK, local, files
<1>1. pc' \in [Clients -> PcValues]
  BY PcType
<1>2. CASE LeanWrites(c)
  <2>1. [built |-> read[c], id |-> saves + 1] \in Content /\ saves' \in 0 .. MaxSaves
    BY <1>2, CacheAssumption DEF LeanWrites, Content
  <2> QED BY <1>1, <1>2, <2>1 DEF LeanWrites
<1>3. CASE Ends(c)
  <2>1. NoTemporary \in [snap : Content \cup {None}, deps : Content \cup {None}]
    BY DEF NoTemporary
  <2>2. AnyArgs \in Args /\ AnyKey \in Keys /\ 0 \in Versions
    BY CacheAssumption DEF AnyArgs, AnyKey, Keys
  <2>3. Gone(c)
    BY <1>3 DEF Ends, GiveUp, Finish, Crash
  <2>4. tmp' \in [Clients -> [snap : Content \cup {None}, deps : Content \cup {None}]]
    BY <2>1, <2>3 DEF Gone
  <2>5. /\ key' \in [Clients -> Keys] /\ args' \in [Clients -> Args]
        /\ refresh' \in [Clients -> BOOLEAN] /\ read' \in [Clients -> Versions]
        /\ doomed' \in [Clients -> SUBSET Keys] /\ victim' \in [Clients -> Keys]
    BY <2>2, <2>3 DEF Gone
  <2> QED BY <1>1, <1>3, <2>4, <2>5 DEF Ends, GiveUp, Finish, Crash
<1> QED BY <1>2, <1>3 DEF TemporaryStep

LEMMA TypeStep == TypeOK /\ [Next]_vars => TypeOK'
<1> SUFFICES ASSUME TypeOK, [Next]_vars PROVE TypeOK'
  OBVIOUS
<1>1. CASE Edit
  BY <1>1, CacheAssumption DEF Edit, TypeOK, local, files
<1>2. ASSUME NEW c \in Clients, QuietStep(c) \/ FileStep(c) \/ TemporaryStep(c) PROVE TypeOK'
  BY <1>2, QuietType, FileType, TemporaryType
<1>3. CASE UNCHANGED vars
  BY <1>3 DEF vars, TypeOK, local, files
<1> QED BY <1>1, <1>2, <1>3 DEF Next, Step, QuietStep, FileStep, TemporaryStep, Ends

-----------------------------------------------------------------------------
(* The lock, and what is read under it                                     *)

LEMMA LockedStep ==
    ASSUME TypeOK, Locked, NEW c \in Clients, QuietStep(c) \/ FileStep(c) \/ TemporaryStep(c)
    PROVE  Locked'
<1> USE DEF TypeOK, Locked, LockedPcs, Goto
<1>1. CASE Begin(c) \/ GiveUp(c) \/ Restart(c)
  BY <1>1 DEF Begin, GiveUp, Restart
<1>2. CASE Acquire(c)
  BY <1>2, CacheAssumption DEF Acquire
<1>3. CASE Finish(c)
  BY <1>3, CacheAssumption DEF Finish
<1>4. CASE Crash(c)
  BY <1>4, CacheAssumption DEF Crash
<1>5. CASE TakeFingerprint(c) \/ FingerprintFails(c) \/ Select(c) \/ PrintCommand(c)
             \/ LoadEnds(c) \/ LeanReads(c) \/ LeanFails(c) \/ Recheck(c)
             \/ PublishFails(c) \/ PruneDone(c) \/ LeanWrites(c)
  BY <1>5 DEF TakeFingerprint, FingerprintFails, Select, PrintCommand, LoadEnds, LeanReads,
     LeanFails, Recheck, PublishFails, PruneDone, LeanWrites
<1>6. CASE FileStep(c)
  BY <1>6 DEF FileStep, ReplaceDeps, ReplaceSnapshot, WriteManifest, PruneSnapshot, PruneDeps,
     PruneManifest, Unlink
<1> QED BY <1>1, <1>2, <1>3, <1>4, <1>5, <1>6 DEF QuietStep, TemporaryStep, Ends

(* Files move only under the lock, and not on the way to a load.           *)
LEMMA FileStepLocked ==
    ASSUME TypeOK, Locked, NEW c \in Clients, FileStep(c)
    PROVE  /\ lock = c /\ pc[c] # "load" /\ pc'[c] # "load" /\ key' = key
           /\ \A d \in Clients \ {c} : pc[d] \notin LockedPcs /\ pc'[d] = pc[d]
<1>1. pc[c] \in LockedPcs /\ pc[c] # "load" /\ pc'[c] # "load" /\ key' = key
  BY DEF TypeOK, FileStep, ReplaceDeps, ReplaceSnapshot, WriteManifest, PruneSnapshot,
     PruneDeps, PruneManifest, Unlink, Goto, LockedPcs, local
<1>2. \A d \in Clients \ {c} : pc'[d] = pc[d]
  BY DEF TypeOK, FileStep, ReplaceDeps, ReplaceSnapshot, WriteManifest, PruneSnapshot,
     PruneDeps, PruneManifest, Unlink, Goto
<1> QED BY <1>1, <1>2 DEF Locked

LEMMA NoFileStep ==
    ASSUME NEW c, Edit \/ QuietStep(c) \/ TemporaryStep(c) \/ UNCHANGED vars
    PROVE  UNCHANGED <<snap, deps, man>>
BY DEF Edit, QuietStep, Begin, Acquire, TakeFingerprint, FingerprintFails, Select,
   PrintCommand, LoadEnds, LeanReads, LeanFails, Recheck, PublishFails, PruneDone, Restart,
   TemporaryStep, LeanWrites, Ends, GiveUp, Finish, Crash, Gone, vars, files

(* How a process comes to load, and what else may change meanwhile.        *)
LEMMA LoadStep ==
    ASSUME TypeOK, NEW c \in Clients, QuietStep(c) \/ TemporaryStep(c),
           NEW d \in Clients, pc'[d] = "load"
    PROVE  key'[d] = key[d] /\ (pc[d] = "load" \/ Intact(key[d]))
<1> USE DEF TypeOK, Goto, local
<1>1. CASE TakeFingerprint(c)
  BY <1>1 DEF TakeFingerprint
<1>2. CASE Select(c)
  BY <1>2 DEF Select
<1>3. CASE QuietStep(c) /\ ~TakeFingerprint(c) /\ ~Select(c)
  BY <1>3 DEF QuietStep, Begin, Acquire, FingerprintFails, PrintCommand, LoadEnds,
     LeanReads, LeanFails, Recheck, PublishFails, PruneDone, Restart
<1>4. CASE TemporaryStep(c)
  BY <1>4 DEF TemporaryStep, LeanWrites, Ends, GiveUp, Finish, Crash, Gone
<1> QED BY <1>1, <1>2, <1>3, <1>4

LEMMA FileInvStep == FileInv /\ [Next]_vars => FileInv'
<1> SUFFICES ASSUME FileInv, [Next]_vars PROVE FileInv'
  OBVIOUS
<1> USE DEF FileInv
<1>1. TypeOK'
  BY TypeStep
<1>2. CASE Edit \/ UNCHANGED vars
  <2>1. UNCHANGED <<lock, pc, key, snap, deps, man>>
    BY <1>2 DEF Edit, vars, local, files
  <2> QED BY <1>1, <2>1 DEF Locked, LoadsIntact, Intact
<1>3. ASSUME NEW c \in Clients, QuietStep(c) \/ TemporaryStep(c) PROVE FileInv'
  <2>1. UNCHANGED <<snap, deps, man>>
    BY <1>3, NoFileStep
  <2>2. LoadsIntact'
    BY <1>3, <2>1, LoadStep DEF LoadsIntact, Intact
  <2> QED BY <1>1, <1>3, <2>2, LockedStep
<1>4. ASSUME NEW c \in Clients, FileStep(c) PROVE FileInv'
  <2>1. LoadsIntact'
    BY <1>4, FileStepLocked DEF LoadsIntact, LockedPcs
  <2> QED BY <1>1, <1>4, <2>1, LockedStep
<1> QED BY <1>2, <1>3, <1>4 DEF Next, Step, QuietStep, FileStep, TemporaryStep, Ends

(* The types, the owner of a source's lock and the pairs being loaded are  *)
(* kept by every step, crashes between two file operations included.       *)
THEOREM FileInvariant == Spec => []FileInv
<1>1. Init => FileInv
  BY TypeInit, CacheAssumption
  DEF Init, FileInv, Locked, LockedPcs, LoadsIntact
<1>2. FileInv /\ [Next]_vars => FileInv'
  BY FileInvStep
<1> QED BY <1>1, <1>2, PTL DEF Spec

(* Every variable of the cache keeps its type, for any number of           *)
(* processes, versions and argument lists.                                 *)
THEOREM CacheTypeCorrect == Spec => []TypeOK
<1>1. FileInv => TypeOK
  BY DEF FileInv
<1> QED BY <1>1, FileInvariant, PTL

(* Whatever crashes, fails or runs beside it, the pair a run validated     *)
(* stays whole for as long as Lean loads it.                               *)
THEOREM LoadedPairsStayIntact == Spec => []LoadsIntact
<1>1. FileInv => LoadsIntact
  BY DEF FileInv
<1> QED BY <1>1, FileInvariant, PTL

-----------------------------------------------------------------------------
(* What a publisher carries, while the inputs do not go back to its version *)

Carried(c) ==
    /\ c \notin restored /\ key[c][1] = inputs =>
          /\ pc[c] = "written" => read[c] = inputs
          /\ pc[c] = "recheck" => tmp[c].snap.built = inputs
    /\ pc[c] = "recheck" => tmp[c].snap \in Content /\ tmp[c].deps \in {None, tmp[c].snap}
    /\ pc[c] \in {"deps", "snap", "manifest"} =>
          /\ tmp[c].snap \in Content /\ tmp[c].deps = tmp[c].snap
          /\ tmp[c].snap.built = key[c][1] \/ tmp[c].snap.id \in doubtful

ManifestTrue ==
    \A k \in Keys :
        \/ man[k] = NoManifest
        \/ /\ man[k].snapshot = man[k].deps
           /\ man[k].snapshot.built = k[1] \/ man[k].snapshot.id \in doubtful

KeyInv == TypeOK /\ ManifestTrue /\ \A c \in Clients : Carried(c)

(* What the histories say of one run.                                      *)
LEMMA HistoryStep ==
    ASSUME PublicationNext, NEW c \in Clients
    PROVE  /\ doubtful \subseteq doubtful'
           /\ Saving(c)' /\ c \notin restored' =>
                  c \notin restored /\ (inputs' = inputs \/ inputs' # key[c][1])
           /\ pc[c] = "recheck" /\ pc'[c] = "deps" /\ c \in restored =>
                  tmp[c].snap.id \in doubtful'
BY DEF PublicationNext, RestoredNext, DoubtfulNext

(* A step of one process leaves what another one carries alone.            *)
LEMMA CarriedByOthers ==
    ASSUME TypeOK, NEW c \in Clients, QuietStep(c) \/ FileStep(c) \/ TemporaryStep(c),
           PublicationNext, NEW d \in Clients, d # c, Carried(d)
    PROVE  Carried(d)'
<1>1. /\ pc'[d] = pc[d] /\ key'[d] = key[d] /\ read'[d] = read[d] /\ tmp'[d] = tmp[d]
      /\ inputs' = inputs
  <2> USE DEF TypeOK, Goto, local, files
  <2>1. CASE QuietStep(c)
    BY <2>1 DEF QuietStep, Begin, Acquire, TakeFingerprint, FingerprintFails, Select,
       PrintCommand, LoadEnds, LeanReads, LeanFails, Recheck, PublishFails, PruneDone, Restart
  <2>2. CASE FileStep(c)
    BY <2>2 DEF FileStep, ReplaceDeps, ReplaceSnapshot, WriteManifest, PruneSnapshot,
       PruneDeps, PruneManifest, Unlink
  <2>3. CASE TemporaryStep(c)
    BY <2>3 DEF TemporaryStep, LeanWrites, Ends, GiveUp, Finish, Crash, Gone
  <2> QED BY <2>1, <2>2, <2>3
<1> QED BY <1>1, HistoryStep DEF Carried, Saving

(* The fingerprint before the run, what Lean read during it, and the       *)
(* fingerprint after it: equal at both ends means equal in between, if the *)
(* inputs did not come back.                                               *)
LEMMA CarriedByItself ==
    ASSUME TypeOK, NEW c \in Clients, QuietStep(c) \/ FileStep(c) \/ TemporaryStep(c),
           PublicationNext, Carried(c)
    PROVE  Carried(c)'
<1> USE DEF Goto, local, files
<1>0. key[c] \in Keys /\ pc \in [Clients -> PcValues]
  BY DEF TypeOK
<1>h. /\ doubtful \subseteq doubtful'
      /\ pc'[c] = "recheck" /\ c \notin restored' => c \notin restored
      /\ pc[c] = "recheck" /\ pc'[c] = "deps" /\ c \in restored => tmp[c].snap.id \in doubtful'
  BY HistoryStep DEF Saving
<1>3. CASE LeanReads(c)
  <2>1. pc'[c] = "written" /\ inputs' = inputs /\ read'[c] = inputs
    BY <1>0, <1>3 DEF LeanReads, TypeOK
  <2> QED BY <2>1 DEF Carried
<1>4. CASE LeanWrites(c)
  <2>1. [built |-> read[c], id |-> saves + 1] \in Content
    BY <1>4, CacheAssumption DEF LeanWrites, Content, TypeOK
  <2>2. /\ pc[c] = "written" /\ pc'[c] = "recheck"
        /\ UNCHANGED <<inputs, key>>
        /\ tmp'[c].snap = [built |-> read[c], id |-> saves + 1]
        /\ tmp'[c].deps \in {None, tmp'[c].snap}
    BY <1>0, <1>4 DEF LeanWrites, TypeOK
  <2> QED BY <1>h, <2>1, <2>2 DEF Carried
<1>5. CASE Recheck(c)
  <2>1. UNCHANGED <<inputs, key, read, tmp>> /\ pc[c] = "recheck"
    BY <1>5 DEF Recheck
  <2>2. CASE tmp[c].deps # None /\ Fingerprint(c) = key[c]
    <3>1. key[c][1] = inputs
      BY <2>2 DEF Fingerprint
    <3>2. pc'[c] = "deps"
      BY <1>0, <1>5, <2>2 DEF Recheck
    <3> QED BY <1>h, <2>1, <2>2, <3>1, <3>2 DEF Carried
  <2>3. CASE ~(tmp[c].deps # None /\ Fingerprint(c) = key[c])
    <3>1. pc'[c] = "cleanup"
      BY <1>0, <1>5, <2>3 DEF Recheck
    <3> QED BY <3>1 DEF Carried
  <2> QED BY <2>2, <2>3
<1>6. CASE ReplaceDeps(c) \/ ReplaceSnapshot(c)
  <2>1. /\ UNCHANGED <<tmp, key>> /\ pc[c] \in {"deps", "snap"}
        /\ pc'[c] \in {"snap", "manifest"}
    BY <1>0, <1>6 DEF ReplaceDeps, ReplaceSnapshot
  <2> QED BY <1>h, <2>1 DEF Carried
<1>7. CASE \/ Begin(c) \/ Acquire(c) \/ TakeFingerprint(c) \/ FingerprintFails(c)
           \/ Select(c) \/ PrintCommand(c) \/ LoadEnds(c) \/ LeanFails(c) \/ PublishFails(c)
           \/ PruneDone(c) \/ Restart(c) \/ WriteManifest(c) \/ PruneDeps(c) \/ PruneManifest(c)
           \/ (\E k \in doomed[c] : PruneSnapshot(c, k)) \/ Ends(c)
  <2>1. pc'[c] \notin {"written", "recheck", "deps", "snap", "manifest"}
    BY <1>0, <1>7 DEF Begin, Acquire, TakeFingerprint, FingerprintFails, Select, PrintCommand,
       LoadEnds, LeanFails, PublishFails, PruneDone, Restart, WriteManifest, PruneSnapshot,
       PruneDeps, PruneManifest, Unlink, Ends, GiveUp, Finish, Crash
  <2> QED BY <2>1 DEF Carried
<1> QED BY <1>3, <1>4, <1>5, <1>6, <1>7 DEF QuietStep, FileStep, TemporaryStep

(* Only write_manifest writes one, and pruning removes it.                 *)
LEMMA ManifestStep ==
    ASSUME TypeOK, ManifestTrue, NEW c \in Clients, FileStep(c), Carried(c),
           doubtful \subseteq doubtful'
    PROVE  ManifestTrue'
<1>1. CASE WriteManifest(c)
  <2>1. /\ man' = [man EXCEPT ![key[c]] = [snapshot |-> tmp[c].snap, deps |-> tmp[c].deps]]
        /\ tmp[c].deps = tmp[c].snap
        /\ tmp[c].snap.built = key[c][1] \/ tmp[c].snap.id \in doubtful
    BY <1>1 DEF WriteManifest, Goto, Carried
  <2> QED BY <2>1 DEF ManifestTrue, TypeOK
<1>2. CASE PruneManifest(c)
  BY <1>2 DEF PruneManifest, Unlink, files, ManifestTrue, TypeOK
<1>3. CASE ReplaceDeps(c) \/ ReplaceSnapshot(c) \/ PruneDeps(c)
             \/ (\E k \in doomed[c] : PruneSnapshot(c, k))
  <2>1. man' = man
    BY <1>3 DEF ReplaceDeps, ReplaceSnapshot, PruneDeps, PruneSnapshot, Unlink, files
  <2> QED BY <2>1 DEF ManifestTrue
<1> QED BY <1>1, <1>2, <1>3 DEF FileStep

LEMMA KeyInvStep == KeyInv /\ [PublicationNext]_<<vars, history>> => KeyInv'
<1> SUFFICES ASSUME KeyInv, [PublicationNext]_<<vars, history>> PROVE KeyInv'
  OBVIOUS
<1> USE DEF KeyInv
<1>1. TypeOK'
  BY TypeStep DEF PublicationNext
<1>2. CASE Edit /\ PublicationNext
  <2>1. UNCHANGED <<pc, key, read, tmp, man>> /\ inputs' # inputs
    BY <1>2 DEF Edit, local, files
  <2>2. ASSUME NEW c \in Clients PROVE Carried(c)'
    BY <1>2, <2>1, HistoryStep DEF Carried, Saving
  <2>3. ManifestTrue'
    BY <1>2, <2>1 DEF ManifestTrue, PublicationNext, DoubtfulNext
  <2> QED BY <1>1, <2>2, <2>3
<1>3. CASE UNCHANGED <<vars, history>>
  BY <1>1, <1>3 DEF vars, history, local, files, Carried, ManifestTrue
<1>4. ASSUME NEW c \in Clients, QuietStep(c) \/ FileStep(c) \/ TemporaryStep(c), PublicationNext
      PROVE  KeyInv'
  <2>1. \A d \in Clients : Carried(d)'
    BY <1>4, CarriedByOthers, CarriedByItself
  <2>2. ManifestTrue'
    <3>0. doubtful \subseteq doubtful'
      BY <1>4, HistoryStep
    <3>1. CASE FileStep(c)
      BY <3>0, <3>1, ManifestStep
    <3>2. CASE QuietStep(c) \/ TemporaryStep(c)
      BY <3>0, <3>2, NoFileStep DEF ManifestTrue
    <3> QED BY <1>4, <3>1, <3>2
  <2> QED BY <1>1, <2>1, <2>2
<1> QED BY <1>2, <1>3, <1>4 DEF PublicationNext, Next, Step, QuietStep, FileStep, TemporaryStep, Ends

(* For every sequence of edits, undone ones included: a pair that validates*)
(* is of one generation, and it was built from the very inputs its         *)
(* fingerprint was computed from unless an edit took these away and brought*)
(* them back between the two fingerprints of the run that published it.    *)
THEOREM ReuseIsKeyed == PublicationSpec => []KeyedReuse
<1>1. PublicationInit => KeyInv
  BY TypeInit DEF PublicationInit, Init, KeyInv, Carried, ManifestTrue
<1>2. KeyInv /\ [PublicationNext]_<<vars, history>> => KeyInv'
  BY KeyInvStep
<1>3. KeyInv => KeyedReuse
  BY DEF KeyInv, ManifestTrue, KeyedReuse, Intact, NoManifest
<1> QED BY <1>1, <1>2, <1>3, PTL DEF PublicationSpec

-----------------------------------------------------------------------------
(* The files implement the abstract store                                  *)

(* Under the lock one key's pair may appear, vanish or stay; a pair that is*)
(* whole before and after a step is the same pair.                         *)
LEMMA PairSimulates ==
    ASSUME TypeOK, TypeOK', NEW k \in Keys,
           \A j \in Keys \ {k} : snap'[j] = snap[j] /\ deps'[j] = deps[j] /\ man'[j] = man[j],
           Intact(k) /\ Intact(k)' => snap'[k] = snap[k],
           readers' = readers, readers[k] = {}
    PROVE  [Store!StoreNext]_<<store, readers>>
<1>1. store' = [store EXCEPT ![k] = IF Intact(k)' THEN snap'[k] ELSE None]
  BY DEF store, Intact, TypeOK
<1>2. store[k] = IF Intact(k) THEN snap[k] ELSE None
  BY DEF store
<1>3. CASE Intact(k) /\ Intact(k)'
  <2>1. store' = store
    BY <1>1, <1>2, <1>3 DEF store
  <2> QED BY <2>1
<1>4. CASE Intact(k) /\ ~Intact(k)'
  <2>1. Store!Evict(k)
    BY <1>1, <1>2, <1>4 DEF Store!Evict, Intact
  <2> QED BY <2>1 DEF Store!StoreNext
<1>5. CASE ~Intact(k) /\ Intact(k)'
  <2>1. snap'[k] \in Content
    BY <1>5 DEF TypeOK, Intact
  <2>2. Store!Commit(k)
    BY <1>1, <1>2, <1>5, <2>1 DEF Store!Commit
  <2> QED BY <2>2 DEF Store!StoreNext
<1>6. CASE ~Intact(k) /\ ~Intact(k)'
  <2>1. store' = store
    BY <1>1, <1>2, <1>6 DEF store
  <2> QED BY <2>1
<1> QED BY <1>3, <1>4, <1>5, <1>6

(* Each file step is on one key, which nobody reads.                       *)
LEMMA FileStepSimulates ==
    ASSUME FileInv, FileInv', NEW c \in Clients, FileStep(c)
    PROVE  [Store!StoreNext]_<<store, readers>>
<1> USE DEF FileInv
<1>1. /\ readers' = readers /\ \A k \in Keys : readers[k] = {}
  BY FileStepLocked DEF readers, LockedPcs
<1>2. ASSUME NEW k \in Keys,
             \A j \in Keys \ {k} : snap'[j] = snap[j] /\ deps'[j] = deps[j] /\ man'[j] = man[j],
             snap'[k] = snap[k] \/ man'[k] = man[k]
      PROVE  [Store!StoreNext]_<<store, readers>>
  <2>1. Intact(k) /\ Intact(k)' => snap'[k] = snap[k]
    BY <1>2 DEF Intact
  <2> QED BY <1>1, <1>2, <2>1, PairSimulates
<1>3. CASE ReplaceDeps(c) \/ ReplaceSnapshot(c) \/ WriteManifest(c)
  <2>1. key[c] \in Keys
    BY DEF TypeOK
  <2>2. /\ \A j \in Keys \ {key[c]} : snap'[j] = snap[j] /\ deps'[j] = deps[j] /\ man'[j] = man[j]
        /\ snap' = snap \/ man' = man
    BY <1>3 DEF ReplaceDeps, ReplaceSnapshot, WriteManifest, TypeOK
  <2> QED BY <1>2, <2>1, <2>2
<1>4. ASSUME NEW k \in doomed[c], PruneSnapshot(c, k) PROVE [Store!StoreNext]_<<store, readers>>
  <2>1. k \in Keys
    BY DEF TypeOK
  <2>2. /\ \A j \in Keys \ {k} : snap'[j] = snap[j] /\ deps'[j] = deps[j] /\ man'[j] = man[j]
        /\ man' = man
    BY <1>4 DEF PruneSnapshot, Unlink, files, TypeOK
  <2> QED BY <1>2, <2>1, <2>2
<1>5. CASE PruneDeps(c) \/ PruneManifest(c)
  <2>1. victim[c] \in Keys
    BY DEF TypeOK
  <2>2. /\ \A j \in Keys \ {victim[c]} : snap'[j] = snap[j] /\ deps'[j] = deps[j] /\ man'[j] = man[j]
        /\ snap' = snap
    BY <1>5 DEF PruneDeps, PruneManifest, Unlink, files, TypeOK
  <2> QED BY <1>2, <2>1, <2>2
<1> QED BY <1>3, <1>4, <1>5 DEF FileStep

(* A step that leaves the files alone opens a pair, closes it, or neither. *)
LEMMA ReaderStepSimulates ==
    ASSUME FileInv, NEW c \in Clients, QuietStep(c) \/ TemporaryStep(c)
    PROVE  [Store!StoreNext]_<<store, readers>>
<1> USE DEF FileInv
<1>1. UNCHANGED <<snap, deps, man>>
  BY NoFileStep
<1>2. store' = store
  BY <1>1 DEF store, Intact
<1>3. CASE pc[c] # "load" /\ pc'[c] = "load"
  <2>1. Select(c) /\ Intact(key[c]) /\ UNCHANGED key
    BY <1>3 DEF QuietStep, TemporaryStep, Begin, Acquire, TakeFingerprint,
       FingerprintFails, Select, PrintCommand, LoadEnds, LeanReads, LeanFails, Recheck,
       PublishFails, PruneDone, Restart, LeanWrites, Ends, GiveUp, Finish, Crash, Gone, Goto,
       local, TypeOK
  <2>2. pc' = [pc EXCEPT ![c] = "load"] /\ key[c] \in Keys
    BY <1>3, <2>1 DEF Select, Goto, TypeOK
  <2>3. readers' = [readers EXCEPT ![key[c]] = @ \cup {c}]
    BY <1>3, <2>1, <2>2 DEF readers, TypeOK
  <2>4. Store!Open(key[c], c)
    BY <1>2, <1>3, <2>1, <2>2, <2>3 DEF Store!Open, store, readers, Intact
  <2> QED BY <2>2, <2>4 DEF Store!StoreNext
<1>4. CASE pc[c] = "load" /\ pc'[c] # "load"
  <2>1. LoadEnds(c) \/ Crash(c)
    BY <1>4 DEF QuietStep, TemporaryStep, Begin, Acquire, TakeFingerprint,
       FingerprintFails, Select, PrintCommand, LoadEnds, LeanReads, LeanFails, Recheck,
       PublishFails, PruneDone, Restart, LeanWrites, Ends, GiveUp, Finish, Crash, Gone, Goto, local
  <2>2. key[c] \in Keys /\ \A d \in Clients \ {c} : pc'[d] = pc[d] /\ key'[d] = key[d]
    BY <2>1 DEF LoadEnds, Crash, Gone, Goto, TypeOK, local
  <2>3. readers' = [readers EXCEPT ![key[c]] = @ \ {c}]
    BY <1>4, <2>1, <2>2 DEF readers
  <2>4. Store!Close(key[c], c)
    BY <1>2, <1>4, <2>2, <2>3 DEF Store!Close, readers
  <2> QED BY <2>2, <2>4 DEF Store!StoreNext
<1>5. CASE (pc[c] = "load") <=> (pc'[c] = "load")
  <2>1. \A d \in Clients \ {c} : pc'[d] = pc[d] /\ key'[d] = key[d]
    BY DEF QuietStep, TemporaryStep, Begin, Acquire, TakeFingerprint,
       FingerprintFails, Select, PrintCommand, LoadEnds, LeanReads, LeanFails, Recheck,
       PublishFails, PruneDone, Restart, LeanWrites, Ends, GiveUp, Finish, Crash, Gone, Goto,
       local, TypeOK
  <2>2. pc'[c] = "load" => key'[c] = key[c]
    BY LoadStep
  <2>3. readers' = readers
    BY <1>5, <2>1, <2>2 DEF readers
  <2> QED BY <1>2, <2>3
<1> QED BY <1>3, <1>4, <1>5

(* For its readers the directory is a store of whole pairs: they appear and*)
(* vanish at once, and never while a run loads them.                       *)
THEOREM CacheImplementsStore == Spec => ImplementsStore
<1>1. Init => Store!StoreInit
  BY DEF Init, Store!StoreInit, store, readers, Intact
<1>2. FileInv /\ FileInv' /\ [Next]_vars => [Store!StoreNext]_<<store, readers>>
  <2> SUFFICES ASSUME FileInv, FileInv', [Next]_vars
               PROVE  [Store!StoreNext]_<<store, readers>>
    OBVIOUS
  <2>1. CASE Edit \/ UNCHANGED vars
    <3>1. UNCHANGED <<pc, key, snap, deps, man>>
      BY <2>1 DEF Edit, vars, local, files
    <3>2. store' = store /\ readers' = readers
      BY <3>1 DEF store, readers, Intact
    <3> QED BY <3>2
  <2>2. ASSUME NEW c \in Clients, QuietStep(c) \/ FileStep(c) \/ TemporaryStep(c)
        PROVE  [Store!StoreNext]_<<store, readers>>
    BY <2>2, FileStepSimulates, ReaderStepSimulates
  <2> QED BY <2>1, <2>2 DEF Next, Step, QuietStep, FileStep, TemporaryStep, Ends
<1> QED BY <1>1, <1>2, FileInvariant, PTL DEF Spec, ImplementsStore, Store!StoreSpec

-----------------------------------------------------------------------------
(* A publication leaves one snapshot                                       *)

PruningPcs == {"prune", "pruneDeps", "pruneManifest"}

Published(c) ==
    /\ pc[c] = "recheck" => tmp[c].snap # None
    /\ pc[c] \in {"deps", "snap", "manifest"} \cup PruningPcs =>
          tmp[c].snap # None /\ tmp[c].deps # None
    /\ pc[c] \in {"snap", "manifest"} \cup PruningPcs => deps[key[c]] = tmp[c].deps
    /\ pc[c] \in {"manifest"} \cup PruningPcs => snap[key[c]] = tmp[c].snap
    /\ pc[c] \in PruningPcs =>
          /\ man[key[c]] = [snapshot |-> tmp[c].snap, deps |-> tmp[c].deps]
          /\ key[c] \notin doomed[c]
          /\ c \notin failed => \A k \in Keys \ {key[c]} : snap[k] # None => k \in doomed[c]
    /\ pc[c] \in {"pruneDeps", "pruneManifest"} => victim[c] # key[c] /\ snap[victim[c]] = None

PublicationInv == FileInv /\ \A c \in Clients : Published(c)

(* A publisher owns the lock, so the files wait for it.                    *)
LEMMA PublishedByOthers ==
    ASSUME PublicationInv, NEW c \in Clients, QuietStep(c) \/ FileStep(c) \/ TemporaryStep(c),
           PublicationNext, NEW d \in Clients, d # c
    PROVE  Published(d)'
<1>1. /\ pc'[d] = pc[d] /\ key'[d] = key[d] /\ tmp'[d] = tmp[d]
      /\ doomed'[d] = doomed[d] /\ victim'[d] = victim[d]
  <2> USE DEF PublicationInv, FileInv, TypeOK, Goto, local, files
  <2>1. CASE QuietStep(c)
    BY <2>1 DEF QuietStep, Begin, Acquire, TakeFingerprint, FingerprintFails, Select,
       PrintCommand, LoadEnds, LeanReads, LeanFails, Recheck, PublishFails, PruneDone, Restart
  <2>2. CASE FileStep(c)
    BY <2>2 DEF FileStep, ReplaceDeps, ReplaceSnapshot, WriteManifest, PruneSnapshot,
       PruneDeps, PruneManifest, Unlink
  <2>3. CASE TemporaryStep(c)
    BY <2>3 DEF TemporaryStep, LeanWrites, Ends, GiveUp, Finish, Crash, Gone
  <2> QED BY <2>1, <2>2, <2>3
<1>2. CASE FileStep(c)
  <2>1. pc[d] \notin LockedPcs
    BY <1>2, FileStepLocked DEF PublicationInv, FileInv
  <2> QED BY <1>1, <2>1 DEF Published, LockedPcs, PruningPcs
<1>3. CASE QuietStep(c) \/ TemporaryStep(c)
  <2>1. UNCHANGED <<snap, deps, man>>
    BY <1>3, NoFileStep
  <2>2. pc'[d] \in PruningPcs /\ d \notin failed' => d \notin failed
    BY <1>1 DEF PublicationNext, FailedNext, Pruning, PruningPcs
  <2> QED BY <1>1, <2>1, <2>2 DEF PublicationInv, Published
<1> QED BY <1>2, <1>3

LEMMA PublishedByItself ==
    ASSUME PublicationInv, NEW c \in Clients, QuietStep(c) \/ FileStep(c) \/ TemporaryStep(c),
           PublicationNext
    PROVE  Published(c)'
<1> USE DEF Goto, local, files, PruningPcs
<1>0. TypeOK /\ Published(c) /\ key[c] \in Keys /\ pc \in [Clients -> PcValues]
  BY DEF PublicationInv, FileInv, TypeOK
<1>1. c \in failed' <=> \/ c \in failed /\ pc'[c] \in PruningPcs
                        \/ pc[c] = "prune" /\ doomed'[c] # doomed[c]
  BY DEF PublicationNext, FailedNext, Pruning
<1>2. CASE LeanWrites(c)
  <2>1. [built |-> read[c], id |-> saves + 1] # None
    BY <1>0 DEF None, TypeOK
  <2>2. pc'[c] = "recheck" /\ tmp'[c].snap = [built |-> read[c], id |-> saves + 1]
    BY <1>0, <1>2 DEF LeanWrites, TypeOK
  <2> QED BY <2>1, <2>2 DEF Published
<1>3. CASE Recheck(c)
  <2>1. UNCHANGED <<tmp, key>> /\ pc[c] = "recheck"
    BY <1>3 DEF Recheck
  <2>2. \/ pc'[c] = "deps" /\ tmp[c].deps # None
        \/ pc'[c] = "cleanup"
    BY <1>0, <1>3 DEF Recheck
  <2> QED BY <1>0, <2>1, <2>2 DEF Published
<1>4. CASE ReplaceDeps(c)
  <2>1. /\ pc[c] = "deps" /\ pc'[c] = "snap" /\ UNCHANGED <<tmp, key>>
        /\ deps'[key[c]] = tmp[c].deps
    BY <1>0, <1>4 DEF ReplaceDeps, TypeOK
  <2> QED BY <1>0, <2>1 DEF Published
<1>5. CASE ReplaceSnapshot(c)
  <2>1. /\ pc[c] = "snap" /\ pc'[c] = "manifest" /\ UNCHANGED <<tmp, key, deps>>
        /\ snap'[key[c]] = tmp[c].snap
    BY <1>0, <1>5 DEF ReplaceSnapshot, TypeOK
  <2> QED BY <1>0, <2>1 DEF Published
<1>6. CASE WriteManifest(c)
  <2>1. /\ pc[c] = "manifest" /\ pc'[c] = "prune" /\ UNCHANGED <<tmp, key, deps, snap>>
        /\ man'[key[c]] = [snapshot |-> tmp[c].snap, deps |-> tmp[c].deps]
        /\ doomed'[c] = {k \in Keys \ {key[c]} : snap[k] # None}
    BY <1>0, <1>6 DEF WriteManifest, TypeOK
  <2> QED BY <1>0, <2>1 DEF Published
<1>7. ASSUME NEW k \in doomed[c], PruneSnapshot(c, k) PROVE Published(c)'
  <2>1. /\ pc[c] = "prune" /\ UNCHANGED <<tmp, key, deps, man>>
        /\ k \in Keys /\ k # key[c] /\ victim'[c] = k
    BY <1>0, <1>7 DEF PruneSnapshot, Unlink, TypeOK, Published
  <2>2. CASE snap' = [snap EXCEPT ![k] = None] /\ doomed' = doomed /\ pc'[c] = "pruneDeps"
    <3>1. \A j \in Keys : snap'[j] = IF j = k THEN None ELSE snap[j]
      BY <1>0, <2>2 DEF TypeOK
    <3>2. c \notin failed' => c \notin failed
      BY <1>1, <2>2
    <3> QED BY <1>0, <2>1, <2>2, <3>1, <3>2 DEF Published
  <2>3. CASE snap' = snap /\ doomed' = [doomed EXCEPT ![c] = @ \ {k}] /\ pc'[c] = "prune"
    <3>1. doomed'[c] = doomed[c] \ {k} /\ doomed'[c] # doomed[c]
      BY <1>0, <1>7, <2>3 DEF TypeOK
    <3>2. c \in failed'
      BY <1>1, <2>1, <3>1
    <3> QED BY <1>0, <2>1, <2>3, <3>1, <3>2 DEF Published
  <2> QED BY <1>0, <1>7, <2>2, <2>3 DEF PruneSnapshot, Unlink
<1>8. CASE PruneDeps(c)
  <2>1. /\ pc[c] = "pruneDeps" /\ UNCHANGED <<tmp, key, victim, snap, man>>
        /\ victim[c] # key[c] /\ snap[victim[c]] = None /\ victim[c] \in Keys
    BY <1>0, <1>8 DEF PruneDeps, Unlink, Published, TypeOK
  <2>2. /\ deps'[key[c]] = deps[key[c]]
        /\ doomed'[c] \in {doomed[c], doomed[c] \ {victim[c]}}
        /\ pc'[c] \in {"pruneManifest", "prune"}
    BY <1>0, <1>8, <2>1 DEF PruneDeps, Unlink, TypeOK
  <2>3. c \notin failed' => c \notin failed
    BY <1>1, <2>2
  <2> QED BY <1>0, <2>1, <2>2, <2>3 DEF Published
<1>9. CASE PruneManifest(c)
  <2>1. /\ pc[c] = "pruneManifest" /\ UNCHANGED <<tmp, key, victim, snap, deps>>
        /\ victim[c] # key[c] /\ snap[victim[c]] = None /\ victim[c] \in Keys
    BY <1>0, <1>9 DEF PruneManifest, Unlink, Published, TypeOK
  <2>2. /\ man'[key[c]] = man[key[c]]
        /\ doomed'[c] = doomed[c] \ {victim[c]} /\ pc'[c] = "prune"
    BY <1>0, <1>9, <2>1 DEF PruneManifest, Unlink, TypeOK
  <2>3. c \notin failed' => c \notin failed
    BY <1>1, <2>2
  <2> QED BY <1>0, <2>1, <2>2, <2>3 DEF Published
<1>10. CASE \/ Begin(c) \/ Acquire(c) \/ GiveUp(c) \/ TakeFingerprint(c) \/ FingerprintFails(c)
            \/ Select(c) \/ PrintCommand(c) \/ LoadEnds(c) \/ LeanReads(c) \/ LeanFails(c)
            \/ PublishFails(c) \/ PruneDone(c) \/ Crash(c) \/ Finish(c) \/ Restart(c)
  <2>1. pc'[c] \notin {"recheck", "deps", "snap", "manifest"} \cup PruningPcs
    BY <1>0, <1>10 DEF Begin, Acquire, GiveUp, TakeFingerprint, FingerprintFails, Select,
       PrintCommand, LoadEnds, LeanReads, LeanFails, PublishFails, PruneDone, Crash, Finish, Restart
  <2> QED BY <2>1 DEF Published
<1> QED BY <1>2, <1>3, <1>4, <1>5, <1>6, <1>7, <1>8, <1>9, <1>10
    DEF QuietStep, FileStep, TemporaryStep, Ends

LEMMA PublicationStep ==
    PublicationInv /\ [PublicationNext]_<<vars, history>> => PublicationInv'
<1> SUFFICES ASSUME PublicationInv, [PublicationNext]_<<vars, history>> PROVE PublicationInv'
  OBVIOUS
<1>1. FileInv'
  BY FileInvStep DEF PublicationInv, PublicationNext
<1>2. CASE Edit /\ PublicationNext
  <2>1. UNCHANGED <<pc, key, doomed, victim, tmp, snap, deps, man>>
    BY <1>2 DEF Edit, local, files
  <2>2. \A c \in Clients : pc'[c] \in PruningPcs /\ c \notin failed' => c \notin failed
    BY <1>2 DEF PublicationNext, FailedNext, Pruning, PruningPcs
  <2> QED BY <1>1, <2>1, <2>2 DEF PublicationInv, Published
<1>3. ASSUME NEW c \in Clients, QuietStep(c) \/ FileStep(c) \/ TemporaryStep(c), PublicationNext
      PROVE  PublicationInv'
  BY <1>1, <1>3, PublishedByOthers, PublishedByItself DEF PublicationInv
<1>4. CASE UNCHANGED <<vars, history>>
  <2>1. UNCHANGED <<pc, key, doomed, victim, tmp, snap, deps, man, failed>>
    BY <1>4 DEF vars, history, local, files
  <2> QED BY <1>1, <2>1 DEF PublicationInv, Published
<1> QED BY <1>2, <1>3, <1>4 DEF PublicationNext, Next, Step, QuietStep, FileStep, TemporaryStep, Ends

(* PublishesOne: whatever crashed, failed or ran before, a publication     *)
(* whose pruning could unlink what it found leaves exactly one snapshot,   *)
(* the intact one it published (publish_snapshot_pair).                    *)
THEOREM OneSnapshotIsLeft == PublicationSpec => PublishesOne
<1>1. PublicationInit => PublicationInv
  <2> SUFFICES ASSUME PublicationInit PROVE PublicationInv
    OBVIOUS
  <2>1. FileInv
    BY TypeInit, CacheAssumption DEF PublicationInit, Init, FileInv, Locked, LockedPcs, LoadsIntact
  <2> QED BY <2>1 DEF PublicationInit, Init, PublicationInv, Published, PruningPcs
<1>2. PublicationInv /\ [PublicationNext]_<<vars, history>> => PublicationInv'
  BY PublicationStep
<1>3. PublicationInv /\ [PublicationNext]_<<vars, history>> =>
        [\A c \in Clients \ failed :
           pc[c] = "prune" /\ pc'[c] = "cleanup" =>
              /\ Intact(key[c]) /\ snap[key[c]] = tmp[c].snap
              /\ \A k \in Keys \ {key[c]} : snap[k] = None]_vars
  <2> SUFFICES ASSUME PublicationInv, PublicationNext,
                      NEW c \in Clients \ failed, pc[c] = "prune", pc'[c] = "cleanup"
               PROVE  /\ Intact(key[c]) /\ snap[key[c]] = tmp[c].snap
                      /\ \A k \in Keys \ {key[c]} : snap[k] = None
    OBVIOUS
  <2>1. Published(c) /\ TypeOK
    BY DEF PublicationInv, FileInv
  <2>2. doomed[c] = {}
    <3> USE DEF TypeOK, Goto, local, files
    <3>1. ASSUME NEW d \in Clients, QuietStep(d) PROVE doomed[c] = {}
      BY <2>1, <3>1 DEF QuietStep, Begin, Acquire, TakeFingerprint, FingerprintFails, Select,
         PrintCommand, LoadEnds, LeanReads, LeanFails, Recheck, PublishFails, PruneDone, Restart
    <3>2. ASSUME NEW d \in Clients, FileStep(d) PROVE FALSE
      BY <2>1, <3>2 DEF FileStep, ReplaceDeps, ReplaceSnapshot, WriteManifest, PruneSnapshot,
         PruneDeps, PruneManifest, Unlink
    <3>3. ASSUME NEW d \in Clients, TemporaryStep(d) PROVE FALSE
      BY <2>1, <3>3 DEF TemporaryStep, LeanWrites, Ends, GiveUp, Finish, Crash, Gone
    <3>4. ~Edit
      BY DEF Edit
    <3> QED BY <3>1, <3>2, <3>3, <3>4
        DEF PublicationNext, Next, Step, QuietStep, FileStep, TemporaryStep, Ends
  <2> QED BY <2>1, <2>2 DEF Published, PruningPcs, Intact
<1> QED BY <1>1, <1>2, <1>3, PTL DEF PublicationSpec, PublishesOne
==============================================================================
