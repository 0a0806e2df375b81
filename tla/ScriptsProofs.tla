---------------------------- MODULE ScriptsProofs ----------------------------
(***************************************************************************)
(* Theorems about the scripts, for every choice of their constants: the    *)
(* writer of reviewer addresses, the measurement of a process tree, the    *)
(* self-tests of the gates, the orphan gate and the full build.            *)
(*                                                                         *)
(* A behaviour of Scripts starts every script in an initial state of its   *)
(* own and changes the variables of one of them by its next-state          *)
(* relation, so it is a behaviour of each (ScriptBehaves); an invariant of *)
(* a script is proved of its own specification and carried over.           *)
(***************************************************************************)
EXTENDS Scripts, FiniteSetTheorems, WellFoundedInduction, TLAPS

(* Whatever script runs, what the others see is their own initial state    *)
(* and their own steps.                                                    *)
LEMMA ScriptStarts ==
    Init => SelfTestInit /\ PlanInit /\ OrphanInit /\ MeasureInit /\ ReviewerInit
BY DEF Init, SelfTestRests, PlanRests, OrphanRests, MeasureRests, ReviewerRests

LEMMA ScriptSteps ==
    [Next]_scriptsVars => /\ [SelfTestNext]_selfTestVars /\ [PlanNext]_planVars
                          /\ [OrphanNext]_orphanVars /\ [MeasureNext]_measureVars
                          /\ [ReviewerNext]_reviewerVars
BY Zenon DEF Next, scriptsVars

LEMMA ScriptBehaves ==
    Spec => SelfTestSpec /\ PlanSpec /\ OrphanSpec /\ MeasureSpec /\ ReviewerSpec
BY ScriptStarts, ScriptSteps, PTL
   DEF Spec, SelfTestSpec, PlanSpec, OrphanSpec, MeasureSpec, ReviewerSpec

-----------------------------------------------------------------------------
(* Reviewer addresses                                                      *)

(* What the registry keeps is the normal form of what was typed.           *)
Kept == stored = Rejected \/ stored = Normalize(typed)

(* A label the domain check accepts is what IDNA makes of it, so encoding  *)
(* an accepted domain again changes nothing.                               *)
LEMMA EncodedTwice ==
    ASSUME NEW labels, \A i \in DOMAIN labels : WellFormed(Encoded(labels)[i])
    PROVE  Encoded(Encoded(labels)) = Encoded(labels)
<1>1. DOMAIN Encoded(labels) = DOMAIN labels
    BY DEF Encoded
<1>2. ASSUME NEW i \in DOMAIN labels PROVE Idna(Encoded(labels)[i]) = Encoded(labels)[i]
    BY DEF WellFormed, Idna
<1>. QED BY <1>1, <1>2 DEF Encoded

(* normalize_reviewer_attribution is idempotent, and what it returns is    *)
(* public.                                                                 *)
LEMMA NormalFormIsFixed ==
    ASSUME NEW a \in Addresses, Normalize(a) # Rejected
    PROVE  /\ Normalize(Normalize(a)) = Normalize(a)
           /\ Normalize(a).dots = 0 /\ DomainAccepted(Normalize(a).labels)
<1>. DEFINE b == [a EXCEPT !.labels = Encoded(a.labels), !.dots = 0]
<1>1. /\ a.ats = 1 /\ a.local \in {"a.b", "A.b"}
      /\ DomainAccepted(Encoded(a.labels))
      /\ Normalize(a) = b
    BY DEF Normalize
<1>2. /\ b.ats = 1 /\ b.local = a.local /\ b.labels = Encoded(a.labels) /\ b.dots = 0
      /\ b = [local |-> a.local, labels |-> Encoded(a.labels), dots |-> 0, ats |-> 1]
    BY <1>1 DEF Addresses
<1>3. DOMAIN Encoded(a.labels) = DOMAIN a.labels
    BY DEF Encoded
<1>4. \A i \in DOMAIN a.labels : WellFormed(Encoded(a.labels)[i])
    BY <1>1, <1>3 DEF DomainAccepted
<1>5. Encoded(b.labels) = b.labels
    BY <1>2, <1>4, EncodedTwice
<1>6. \A i \in DOMAIN b.labels : b.labels[i] \notin {"hidden", ""}
    BY <1>2, <1>3, <1>4 DEF WellFormed
<1>7. [b EXCEPT !.labels = Encoded(b.labels), !.dots = 0] = b
    BY <1>2, <1>5
<1>. HIDE DEF b
<1>8. /\ b.dots <= 1 /\ DomainAccepted(Encoded(b.labels))
      /\ b.ats = 1 /\ b.local \in {"a.b", "A.b"}
    BY <1>1, <1>2, <1>5
<1>9. Normalize(b) = [b EXCEPT !.labels = Encoded(b.labels), !.dots = 0]
    BY <1>6, <1>8, Zenon DEF Normalize
<1>. QED BY <1>1, <1>2, <1>7, <1>9

LEMMA KeptInvariant == ReviewerSpec => [](typed \in Addresses /\ Kept)
<1>1. ReviewerInit => typed \in Addresses /\ Kept
    BY DEF ReviewerInit, Kept
<1>2. (typed \in Addresses /\ Kept) /\ [ReviewerNext]_reviewerVars => (typed \in Addresses /\ Kept)'
    BY DEF Kept, ReviewerNext, WriteEntry, WriterDone, reviewerVars
<1>. QED BY <1>1, <1>2, PTL DEF ReviewerSpec

(* What the registry stores of an address is its own normal form and names *)
(* a public host, for every bound on the length of a domain: what          *)
(* load_registry refuses is never written.                                 *)
THEOREM StoredAddressesAreCanonical == Spec => []StoredInv
<1>1. typed \in Addresses /\ Kept => StoredInv
    BY NormalFormIsFixed DEF Kept, StoredInv, StoredIsCanonical, StoredIsPublic, DomainAccepted
<1>. QED BY <1>1, ScriptBehaves, KeptInvariant, PTL

-----------------------------------------------------------------------------
(* The measurement of a process tree                                       *)

(* Before the command is started there is no process; once the descendants *)
(* were listed, what runs is on the list or is known not to be on it.      *)
Measured ==
    /\ MeasureTypeOK
    /\ stage \in {"idle", "wait", "spawn"} => started = {}
    /\ stage = "terminate" => alive \subseteq listed \cup stray
    /\ CleanupIsThorough

LEMMA ChildrenAreAlive == ASSUME NEW p PROVE Children(p) \subseteq alive
BY DEF Children

LEMMA MeasuredInvariant == MeasureSpec => []Measured
<1>. USE MeasureAssumption DEF Measured, MeasureTypeOK, CleanupIsThorough
<1>1. MeasureInit => Measured
    BY DEF MeasureInit
<1>2. Measured /\ [MeasureNext]_measureVars => Measured'
  <2>. SUFFICES ASSUME Measured, [MeasureNext]_measureVars PROVE Measured'
      OBVIOUS
  <2>1. CASE Begin
      BY <2>1 DEF Begin, Exit, family
  <2>2. CASE AcquireLease
      BY <2>2 DEF AcquireLease, family
  <2>3. CASE NotAcquired
      BY <2>3 DEF NotAcquired, Exit, family
  <2>4. CASE Spawn
      BY <2>4 DEF Spawn
  <2>5. CASE SpawnFails
      BY <2>5 DEF SpawnFails, Exit, family
  <2>6. CASE TakeHold
      BY <2>6 DEF TakeHold, family
  <2>7. CASE HoldFails
      BY <2>7 DEF HoldFails, Exit, family
  <2>8. CASE Finish
      BY <2>8 DEF Finish, Exit, family
  <2>9. CASE Interrupt
      BY <2>9 DEF Interrupt, Exit, family
  <2>10. CASE List
      BY <2>10, ChildrenAreAlive DEF List, Descendants, family
  <2>11. CASE Terminate
      BY <2>11 DEF Terminate, Orphaned
  <2>12. CASE KillListed
      BY <2>12 DEF KillListed, Killed, Exit, Orphaned
  <2>13. ASSUME NEW p \in Pids, NEW q \in Pids, Fork(p, q) PROVE Measured'
    <3>1. /\ p \in alive /\ q \notin started
          /\ started' = started \cup {q} /\ alive' = alive \cup {q}
          /\ parent' = [parent EXCEPT ![q] = p]
          /\ stray' = IF stage \in {"terminate", "done"} \/ p \in stray THEN stray \cup {q} ELSE stray
          /\ UNCHANGED <<lock, stage, result, held, victims, listed>>
        BY <2>13 DEF Fork
    <3>2. stray \subseteq stray' /\ stray' \subseteq started'
        BY <3>1
    <3>. QED BY <3>1, <3>2
  <2>14. ASSUME NEW p \in Pids, End(p) PROVE Measured'
      BY <2>14 DEF End, Orphaned
  <2>15. CASE Launcher
      BY <2>15 DEF Launcher, family
  <2>16. CASE UNCHANGED measureVars
      BY <2>16 DEF measureVars, family
  <2>. QED BY <2>1, <2>2, <2>3, <2>4, <2>5, <2>6, <2>7, <2>8, <2>9, <2>10, <2>11, <2>12,
              <2>13, <2>14, <2>15, <2>16 DEF MeasureNext, Measure
<1>. QED BY <1>1, <1>2, PTL DEF MeasureSpec

(* An aborted measurement that had hold of its command leaves nothing      *)
(* running that was found below it and may be ended, for every tree,       *)
(* whichever processes ignore SIGTERM, whatever they start or end          *)
(* meanwhile and wherever it was interrupted.                              *)
THEOREM AbortedMeasurementCleansUp == Spec => []CleanupInv
<1>1. Measured => CleanupInv
    BY DEF Measured, CleanupInv
<1>. QED BY <1>1, ScriptBehaves, MeasuredInvariant, PTL

-----------------------------------------------------------------------------
(* Self-tests: types                                                       *)

SelfTypes ==
    /\ SelfTestTypeOK
    /\ regime \in Regimes /\ at \in [Runs -> Nat]

LEMMA ControlOfRun ==
    ASSUME SelfTypes, NEW r \in Runs
    PROVE  /\ Plan[r] \in Seq(Controls) /\ Len(Plan[r]) \in Nat
           /\ at[r] \in 1 .. Len(Plan[r])
           /\ Ctl(r) \in Controls /\ Mine(r) \in Files
<1>1. Plan[r] \in Seq(Controls)
    BY SelfTestAssumption DEF SelfTypes, Plan
<1>2. at[r] \in DOMAIN Plan[r] /\ DOMAIN Plan[r] = 1 .. Len(Plan[r])
    BY <1>1 DEF SelfTypes, SelfTestTypeOK
<1>3. Ctl(r) \in Controls
    BY <1>1, <1>2 DEF Ctl
<1>. QED BY <1>1, <1>2, <1>3 DEF Mine, Files

LEMMA SelfTypesStart == SelfTestInit => SelfTypes
<1>. SUFFICES ASSUME SelfTestInit PROVE SelfTypes
    OBVIOUS
<1>1. ASSUME NEW r \in Runs PROVE at[r] \in DOMAIN Plan[r]
  <2>1. Plan[r] \in Seq(Controls) \ {<<>>}
      BY SelfTestAssumption DEF SelfTestInit, Plan
  <2>. QED BY <2>1 DEF SelfTestInit
<1>. QED BY <1>1, SelfTestAssumption DEF SelfTestInit, SelfTypes, SelfTestTypeOK, Pcs, Ended, Plan

(* The control is over: what becomes of the position and the verdict.      *)
LEMMA ConcludeTypes ==
    ASSUME SelfTypes, NEW r \in Runs, NEW passed \in BOOLEAN, Conclude(r, passed)
    PROVE  /\ ok' \in [Runs -> BOOLEAN] /\ at' \in [Runs -> Nat]
           /\ place' \in [Runs -> Pcs]
           /\ \A s \in Runs : at'[s] \in DOMAIN Plan[s]
           /\ \A s \in Runs \ {r} : ok'[s] = ok[s] /\ at'[s] = at[s] /\ place'[s] = place[s]
           /\ ok'[r] = (ok[r] /\ passed)
           /\ \/ at[r] < Len(Plan[r]) /\ at'[r] = at[r] + 1 /\ place'[r] = "plant"
              \/ /\ at[r] = Len(Plan[r]) /\ at'[r] = at[r]
                 /\ place'[r] = IF ok[r] /\ passed THEN "passed" ELSE "failed"
<1>0. /\ ok \in [Runs -> BOOLEAN] /\ at \in [Runs -> Nat] /\ place \in [Runs -> Pcs]
      /\ \A s \in Runs : at[s] \in DOMAIN Plan[s]
    BY DEF SelfTypes, SelfTestTypeOK
<1>a. /\ Len(Plan[r]) \in Nat /\ at[r] \in 1 .. Len(Plan[r])
      /\ DOMAIN Plan[r] = 1 .. Len(Plan[r])
    BY ControlOfRun
<1>1. ok' = [ok EXCEPT ![r] = ok[r] /\ passed]
    BY DEF Conclude
<1>2. /\ ok' \in [Runs -> BOOLEAN] /\ ok'[r] = (ok[r] /\ passed)
      /\ \A s \in Runs \ {r} : ok'[s] = ok[s]
    BY <1>0, <1>1, Zenon
<1>3. CASE at[r] < Len(Plan[r])
  <2>1. at' = [at EXCEPT ![r] = at[r] + 1] /\ place' = [place EXCEPT ![r] = "plant"]
      BY <1>3 DEF Conclude, Goto
  <2>. QED BY <1>0, <1>a, <1>2, <1>3, <2>1 DEF Pcs
<1>4. CASE ~(at[r] < Len(Plan[r]))
  <2>. DEFINE to == IF ok[r] /\ passed THEN "passed" ELSE "failed"
  <2>1. at' = at /\ place' = [place EXCEPT ![r] = to]
      BY <1>4 DEF Conclude, Goto
  <2>2. to \in Pcs
      BY DEF Pcs, Ended
  <2>. HIDE DEF to
  <2>3. /\ place' \in [Runs -> Pcs] /\ place'[r] = to
        /\ \A s \in Runs \ {r} : place'[s] = place[s]
      BY <1>0, <2>1, <2>2
  <2>4. at[r] = Len(Plan[r])
      BY <1>a, <1>4
  <2>. QED BY <1>0, <1>2, <2>1, <2>3, <2>4 DEF to
<1>. QED BY <1>3, <1>4

LEMMA SelfTypesStep == SelfTypes /\ [SelfTestNext]_selfTestVars => SelfTypes'
<1>. SUFFICES ASSUME SelfTypes, [SelfTestNext]_selfTestVars PROVE SelfTypes'
    OBVIOUS
<1>. USE DEF SelfTypes, SelfTestTypeOK, Plan
<1>g. ASSUME NEW r \in Runs, NEW to \in Pcs, Goto(r, to) PROVE place' \in [Runs -> Pcs]
    BY <1>g DEF Goto
<1>r. ASSUME NEW r \in Runs, Raise(r)
      PROVE  place' \in [Runs -> Pcs] /\ raising' \in [Runs -> BOOLEAN]
    BY <1>r DEF Raise, Goto, Cleanup, Pcs, Ended
<1>1. ASSUME NEW r \in Runs, Start(r) PROVE SelfTypes'
    BY <1>1 DEF Start, Goto, checkout, environment, locals, Pcs, Ended
<1>2. ASSUME NEW r \in Runs, Plant(r) PROVE SelfTypes'
  <2>1. Mine(r) \in Files
      BY ControlOfRun
  <2>2. /\ original' \in [Runs -> SUBSET (Files \cup {Own})]
        /\ copy' \in [Runs -> SUBSET Files] /\ red' \in [Runs -> BOOLEAN]
        /\ UNCHANGED <<staged, root, olean, regime, blind, noise, noises, kills, at, ok, saw>>
      BY <1>2 DEF Plant, environment
  <2>w. /\ Written(r) => planted' \subseteq Files /\ hollow' \subseteq Files
        /\ Emptied(r) => planted' \subseteq Files /\ hollow' \subseteq Files
      BY <2>1 DEF Written, Emptied
  <2>3. /\ planted' \subseteq Files /\ hollow' \subseteq Files
        /\ raising' \in [Runs -> BOOLEAN] /\ place' \in [Runs -> Pcs]
    <3>1. CASE Raise(r) /\ (Emptied(r) \/ UNCHANGED <<planted, hollow>>)
        BY <3>1, <1>r, <2>w
    <3>2. CASE /\ Written(r) /\ UNCHANGED raising
               /\ Goto(r, CASE Is(r, "built")     -> "root"
                            [] Is(r, "untracked") -> "check"
                            [] OTHER              -> "stage")
      <4>1. PICK to : to = CASE Is(r, "built")     -> "root"
                            [] Is(r, "untracked") -> "check"
                            [] OTHER              -> "stage"
          OBVIOUS
      <4>2. to \in Pcs
          BY <4>1, Zenon DEF Pcs
      <4>3. Goto(r, to)
          BY <3>2, <4>1
      <4>. QED BY <2>w, <3>2, <4>2, <4>3, <1>g
    <3>3. CASE Goto(r, "raised") /\ UNCHANGED <<planted, hollow, raising>>
        BY <3>3, <1>g DEF Pcs, Ended
    <3>. QED BY <1>2, <3>1, <3>2, <3>3 DEF Plant
  <2>. QED BY <2>2, <2>3
<1>3. ASSUME NEW r \in Runs, WriteRoot(r) PROVE SelfTypes'
  <2>1. Mine(r) \in Files /\ original[r] \subseteq Files \cup {Own}
      BY ControlOfRun
  <2>2. /\ root' \subseteq Files \cup {Own} /\ raising' \in [Runs -> BOOLEAN] /\ place' \in [Runs -> Pcs]
      BY <1>3, <1>g, <1>r, <2>1 DEF WriteRoot, Pcs
  <2>. QED BY <1>3, <2>2 DEF WriteRoot, environment
<1>4. ASSUME NEW r \in Runs, Stage(r) PROVE SelfTypes'
  <2>1. Mine(r) \in Files
      BY ControlOfRun
  <2>2. /\ "check" \in Pcs /\ "build" \in Pcs
      BY DEF Pcs
  <2>3. /\ staged' \subseteq Files /\ copy' \in [Runs -> SUBSET Files]
        /\ raising' \in [Runs -> BOOLEAN] /\ place' \in [Runs -> Pcs]
      BY <1>4, <1>g, <1>r, <2>1, <2>2 DEF Stage
  <2>. QED BY <1>4, <2>3 DEF Stage, environment
<1>b. Compiled \subseteq Files
    BY DEF Compiled
<1>5. ASSUME NEW r \in Runs, Build(r) PROVE SelfTypes'
  <2>1. "check" \in Pcs /\ Cleanup(r) \in Pcs
      BY DEF Pcs, Cleanup
  <2>. QED BY <1>5, <1>g, <1>b, <2>1 DEF Build, environment, locals
<1>6. ASSUME NEW r \in Runs, Check(r) PROVE SelfTypes'
  <2>1. Cleanup(r) \in Pcs /\ Ctl(r) \in Controls
      BY ControlOfRun DEF Pcs, Cleanup
  <2>2. place' \in [Runs -> Pcs] /\ raising' \in [Runs -> BOOLEAN]
      BY <1>6, <1>g, <1>r, <2>1, Zenon DEF Check
  <2>3. red' \in [Runs -> BOOLEAN]
    <3>1. PICK b : b = IF Is(r, "untracked") THEN GateGreen(r, staged) ELSE TurnedRed(r, Listed(r))
        OBVIOUS
    <3>2. b \in BOOLEAN
      <4>1. GateGreen(r, staged) \in BOOLEAN
          BY Zenon DEF GateGreen
      <4>2. TurnedRed(r, Listed(r)) \in BOOLEAN
          BY SMT DEF TurnedRed
      <4>3. CASE Is(r, "untracked")
          BY <3>1, <4>1, <4>3, Zenon
      <4>4. CASE ~Is(r, "untracked")
          BY <3>1, <4>2, <4>4, Zenon
      <4>. QED BY <4>3, <4>4
    <3>3. red' = [red EXCEPT ![r] = b] \/ red' = red
        BY <1>6, <3>1 DEF Check
    <3>. QED BY <3>2, <3>3
  <2>4. saw' \in [Runs -> SUBSET Controls]
      BY <1>6, <2>1 DEF Check
  <2>. QED BY <1>6, <2>2, <2>3, <2>4 DEF Check, environment, checkout
<1>7. ASSUME NEW r \in Runs, Unstage(r) PROVE SelfTypes'
  <2>1. staged' \subseteq Files /\ place' \in [Runs -> Pcs]
      BY <1>7, <1>g DEF Unstage, Pcs, Ended
  <2>. QED BY <1>7, <2>1 DEF Unstage, environment, locals
<1>8. ASSUME NEW r \in Runs, Restore(r) PROVE SelfTypes'
  <2>1. root' \subseteq Files \cup {Own} /\ place' \in [Runs -> Pcs]
      BY <1>8, <1>g DEF Restore, Pcs, Ended
  <2>. QED BY <1>8, <2>1 DEF Restore, environment, locals
<1>9. ASSUME NEW r \in Runs, Unlink(r) PROVE SelfTypes'
  <2>1. /\ planted' \subseteq Files /\ hollow' \subseteq Files
        /\ UNCHANGED <<staged, root, olean, regime, blind, noise, noises, kills,
                       original, copy, red, raising, saw>>
      BY <1>9 DEF Unlink, Removed, environment
  <2>2. CASE Conclude(r, red[r])
      BY <2>1, <2>2, ConcludeTypes
  <2>3. CASE UNCHANGED <<at, ok>> /\ \E to \in Pcs : Goto(r, to)
      BY <2>1, <2>3, <1>g
  <2>4. {"raised", "abandoned", "rebuild", "recheck"} \subseteq Pcs
      BY DEF Pcs, Ended
  <2>. QED BY <1>9, <2>2, <2>3, <2>4 DEF Unlink
<1>10. ASSUME NEW r \in Runs, Rebuild(r) PROVE SelfTypes'
  <2>1. /\ olean' \subseteq Files
        /\ UNCHANGED <<planted, hollow, staged, root, regime, blind, noise, noises, kills,
                       original, copy, red, raising, saw>>
      BY <1>10, <1>b DEF Rebuild, environment
  <2>2. CASE Conclude(r, FALSE)
      BY <2>1, <2>2, ConcludeTypes
  <2>3. CASE UNCHANGED <<at, ok>> /\ Goto(r, "recheck")
      BY <2>1, <2>3, <1>g DEF Pcs
  <2>. QED BY <1>10, <2>2, <2>3 DEF Rebuild
<1>11. ASSUME NEW r \in Runs, Recheck(r) PROVE SelfTypes'
  <2>1. UNCHANGED <<planted, hollow, staged, root, olean, regime, blind, noise, noises, kills,
                    original, copy, red, raising, saw>>
      BY <1>11 DEF Recheck, environment, checkout
  <2>2. (red[r] /\ GateGreen(r, staged)) \in BOOLEAN
      BY Zenon DEF GateGreen
  <2>3. CASE \E passed \in BOOLEAN : Conclude(r, passed)
      BY <2>1, <2>3, ConcludeTypes
  <2>4. CASE Goto(r, "raised") /\ UNCHANGED <<at, ok>>
      BY <2>1, <2>4, <1>g DEF Pcs, Ended
  <2>. QED BY <1>11, <2>2, <2>3, <2>4 DEF Recheck
<1>12. ASSUME NEW r \in Runs, KillRun(r) PROVE SelfTypes'
  <2>1. place' \in [Runs -> Pcs]
      BY <1>12, <1>g DEF KillRun, Pcs, Ended
  <2>2. kills' \in 0 .. regime.kills
      BY <1>12, SelfTestAssumption DEF KillRun
  <2>3. planted' \subseteq Files /\ hollow' \subseteq Files /\ root' \subseteq Files \cup {Own}
      BY <1>12, ControlOfRun DEF KillRun, Emptied
  <2>. QED BY <1>12, <2>1, <2>2, <2>3 DEF KillRun, locals
<1>13. CASE Develop
  <2>1. noise' \subseteq Gates
      BY <1>13 DEF Develop
  <2>2. noises' \in 0 .. regime.noise
      BY <1>13, SelfTestAssumption DEF Develop
  <2>. QED BY <1>13, <2>1, <2>2 DEF Develop, checkout, locals
<1>14. CASE UNCHANGED selfTestVars
    BY <1>14 DEF selfTestVars, checkout, environment, locals
<1>. QED BY <1>1, <1>2, <1>3, <1>4, <1>5, <1>6, <1>7, <1>8, <1>9, <1>10, <1>11, <1>12,
            <1>13, <1>14 DEF SelfTestNext, Step, SelfTestTerminated

(* A step of one run leaves the others where they are, and what surrounds  *)
(* the runs as it is.                                                      *)
OthersRest(r) ==
    /\ UNCHANGED <<regime, blind, noise, noises, kills>>
    /\ \A s \in Runs \ {r} :
          /\ place'[s] = place[s] /\ at'[s] = at[s] /\ original'[s] = original[s]
          /\ copy'[s] = copy[s] /\ red'[s] = red[s] /\ raising'[s] = raising[s]
          /\ ok'[s] = ok[s] /\ saw'[s] = saw[s]
    /\ saw[r] \subseteq saw'[r]

LEMMA StepOfOne == ASSUME SelfTypes, NEW r \in Runs, Step(r) PROVE OthersRest(r)
<1>. USE DEF OthersRest
<1>t. /\ place \in [Runs -> Pcs] /\ at \in [Runs -> Nat]
      /\ original \in [Runs -> SUBSET (Files \cup {Own})]
      /\ copy \in [Runs -> SUBSET Files]
      /\ red \in [Runs -> BOOLEAN] /\ raising \in [Runs -> BOOLEAN]
      /\ ok \in [Runs -> BOOLEAN] /\ saw \in [Runs -> SUBSET Controls]
    BY DEF SelfTypes, SelfTestTypeOK
<1>g. ASSUME NEW to, Goto(r, to) PROVE \A s \in Runs \ {r} : place'[s] = place[s]
    BY <1>g, <1>t DEF Goto
<1>r. ASSUME Raise(r)
      PROVE  \A s \in Runs \ {r} : place'[s] = place[s] /\ raising'[s] = raising[s]
    BY <1>r, <1>t, <1>g DEF Raise
<1>c. ASSUME NEW passed \in BOOLEAN, Conclude(r, passed)
      PROVE  \A s \in Runs \ {r} : place'[s] = place[s] /\ at'[s] = at[s] /\ ok'[s] = ok[s]
    BY <1>c, ConcludeTypes
<1>1. CASE Start(r)
    BY <1>1, <1>g DEF Start, environment, locals
<1>2. CASE Plant(r)
  <2>1. /\ UNCHANGED <<regime, blind, noise, noises, kills, at, ok, saw>>
        /\ \A s \in Runs \ {r} : /\ original'[s] = original[s] /\ copy'[s] = copy[s]
                                 /\ red'[s] = red[s]
      BY <1>2, <1>t DEF Plant, environment
  <2>2. \A s \in Runs \ {r} : place'[s] = place[s] /\ raising'[s] = raising[s]
      BY <1>2, <1>g, <1>r, Zenon DEF Plant
  <2>. QED BY <2>1, <2>2
<1>3. CASE WriteRoot(r)
  <2>1. \A s \in Runs \ {r} : place'[s] = place[s] /\ raising'[s] = raising[s]
      BY <1>3, <1>g, <1>r, Zenon DEF WriteRoot
  <2>. QED BY <1>3, <2>1 DEF WriteRoot, environment
<1>4. CASE Stage(r)
  <2>1. \A s \in Runs \ {r} : place'[s] = place[s] /\ raising'[s] = raising[s]
      BY <1>4, <1>g, <1>r DEF Stage
  <2>2. \A s \in Runs \ {r} : copy'[s] = copy[s]
      BY <1>4, <1>t DEF Stage
  <2>. QED BY <1>4, <2>1, <2>2 DEF Stage, environment
<1>5. CASE Build(r)
    BY <1>5, <1>g DEF Build, environment, locals
<1>6. CASE Check(r)
  <2>1. \A s \in Runs \ {r} : /\ red'[s] = red[s] /\ saw'[s] = saw[s]
                               /\ place'[s] = place[s] /\ raising'[s] = raising[s]
    <3>1. \A s \in Runs \ {r} : red'[s] = red[s] /\ saw'[s] = saw[s]
        BY <1>6, <1>t DEF Check
    <3>2. \A s \in Runs \ {r} : place'[s] = place[s] /\ raising'[s] = raising[s]
        BY <1>6, <1>g, <1>r, Zenon DEF Check
    <3>. QED BY <3>1, <3>2
  <2>2. saw[r] \subseteq saw'[r]
      BY <1>6, <1>t DEF Check
  <2>. QED BY <1>6, <2>1, <2>2 DEF Check, environment
<1>7. CASE Unstage(r)
    BY <1>7, <1>g DEF Unstage, environment, locals
<1>8. CASE Restore(r)
    BY <1>8, <1>g DEF Restore, environment, locals
<1>9. CASE Unlink(r)
  <2>1. UNCHANGED <<regime, blind, noise, noises, kills, original, copy, red, raising, saw>>
      BY <1>9 DEF Unlink, environment
  <2>2. \A s \in Runs \ {r} : place'[s] = place[s] /\ at'[s] = at[s] /\ ok'[s] = ok[s]
      BY <1>9, <1>t, <1>g, <1>c DEF Unlink
  <2>. QED BY <2>1, <2>2
<1>10. CASE Rebuild(r)
  <2>1. UNCHANGED <<regime, blind, noise, noises, kills, original, copy, red, raising, saw>>
      BY <1>10 DEF Rebuild, environment
  <2>2. \A s \in Runs \ {r} : place'[s] = place[s] /\ at'[s] = at[s] /\ ok'[s] = ok[s]
      BY <1>10, <1>g, <1>c DEF Rebuild
  <2>. QED BY <2>1, <2>2
<1>11. CASE Recheck(r)
  <2>1. (red[r] /\ GateGreen(r, staged)) \in BOOLEAN
      BY Zenon DEF GateGreen
  <2>2. UNCHANGED <<regime, blind, noise, noises, kills, original, copy, red, raising, saw>>
      BY <1>11 DEF Recheck, environment
  <2>3. \A s \in Runs \ {r} : place'[s] = place[s] /\ at'[s] = at[s] /\ ok'[s] = ok[s]
      BY <1>11, <1>g, <1>c, <2>1 DEF Recheck
  <2>. QED BY <2>2, <2>3
<1>. QED BY <1>1, <1>2, <1>3, <1>4, <1>5, <1>6, <1>7, <1>8, <1>9, <1>10, <1>11 DEF Step

-----------------------------------------------------------------------------
(* Self-tests: a pass is earned                                            *)

(* The gate of a planting control looked at a visible probe, and can see.  *)
Good(r, i) ==
    How[Plan[r][i]] # "untracked" =>
        Gate[Plan[r][i]] \notin blind /\ Plan[r][i] \in saw[r]

Tested == {"root", "stage", "build", "check", "unstage", "restore", "unlink", "rebuild", "recheck"}

(* The controls behind a run were good while its verdict stands, and so is *)
(* the one it is in once it has seen red.                                  *)
EarnedBy(r) ==
    /\ ok[r] => \A i \in DOMAIN Plan[r] : i < at[r] => Good(r, i)
    /\ place[r] \in Tested /\ red[r] => Good(r, at[r])
    /\ place[r] = "passed" => \A i \in DOMAIN Plan[r] : Good(r, i)

Earned == \A r \in Runs : EarnedBy(r)

LEMMA EarnedStart == SelfTestInit => Earned
<1>. SUFFICES ASSUME SelfTestInit, NEW r \in Runs PROVE EarnedBy(r)
    BY DEF Earned
<1>1. at[r] = 1 /\ DOMAIN Plan[r] = 1 .. Len(Plan[r]) /\ Len(Plan[r]) \in Nat
    BY SelfTypesStart, ControlOfRun DEF SelfTestInit
<1>2. place[r] = "idle"
    BY DEF SelfTestInit
<1>. QED BY <1>1, <1>2 DEF EarnedBy, Tested

(* What was good stays good.                                               *)
LEMMA GoodStays ==
    ASSUME NEW s, NEW i, UNCHANGED <<regime, blind>>, saw[s] \subseteq saw'[s], Good(s, i)
    PROVE  Good(s, i)'
BY DEF Good, Plan

(* A run whose position, verdict and what it saw are as before.            *)
LEMMA EarnedRests ==
    ASSUME NEW s \in Runs, EarnedBy(s), UNCHANGED <<regime, blind>>, saw[s] \subseteq saw'[s],
           at'[s] = at[s], ok'[s] = ok[s], place'[s] # "passed" \/ place[s] = "passed",
           place'[s] \in Tested /\ red'[s] => place[s] \in Tested /\ red[s]
    PROVE  EarnedBy(s)'
<1>1. \A i : Good(s, i) => Good(s, i)'
    BY GoodStays
<1>. QED BY <1>1 DEF EarnedBy, Plan

(* The end of a control: it counts as passed only if it was good.          *)
LEMMA EarnedConclude ==
    ASSUME SelfTypes, NEW r \in Runs, EarnedBy(r), NEW passed \in BOOLEAN, Conclude(r, passed),
           UNCHANGED <<regime, blind, saw, red>>, passed => Good(r, at[r])
    PROVE  EarnedBy(r)'
<1>1. /\ ok'[r] = (ok[r] /\ passed)
      /\ \/ at[r] < Len(Plan[r]) /\ at'[r] = at[r] + 1 /\ place'[r] = "plant"
         \/ /\ at[r] = Len(Plan[r]) /\ at'[r] = at[r]
            /\ place'[r] = IF ok[r] /\ passed THEN "passed" ELSE "failed"
    BY ConcludeTypes
<1>2. /\ at[r] \in 1 .. Len(Plan[r]) /\ Len(Plan[r]) \in Nat
      /\ DOMAIN Plan[r] = 1 .. Len(Plan[r])
    BY ControlOfRun
<1>3. \A i : Good(r, i) => Good(r, i)'
    BY GoodStays
<1>4. ok[r] /\ passed => \A i \in DOMAIN Plan[r] : i <= at[r] => Good(r, i)'
    BY <1>2, <1>3 DEF EarnedBy
<1>5. Plan' = Plan
    BY DEF Plan
<1>6. place'[r] \notin Tested
    BY <1>1 DEF Tested
<1>a. ok'[r] => ok[r] /\ passed
    BY <1>1, Zenon
<1>b. \A i \in DOMAIN Plan[r] : i < at'[r] => i <= at[r]
    BY <1>1, <1>2
<1>7. ok'[r] => \A i \in DOMAIN Plan[r] : i < at'[r] => Good(r, i)'
    BY <1>4, <1>a, <1>b
<1>8. place'[r] = "passed" => \A i \in DOMAIN Plan[r] : Good(r, i)'
    BY <1>1, <1>2, <1>4
<1>. QED BY <1>5, <1>6, <1>7, <1>8 DEF EarnedBy

LEMMA EarnedStep == SelfTypes /\ Earned /\ [SelfTestNext]_selfTestVars => Earned'
<1>. SUFFICES ASSUME SelfTypes, Earned, [SelfTestNext]_selfTestVars PROVE Earned'
    OBVIOUS
<1>1. ASSUME NEW r \in Runs, Step(r) PROVE Earned'
  <2>0. OthersRest(r)
      BY <1>1, StepOfOne
  <2>1. ASSUME NEW s \in Runs \ {r} PROVE EarnedBy(s)'
      BY <2>0, EarnedRests DEF OthersRest, Earned
  <2>t. /\ place \in [Runs -> Pcs] /\ red \in [Runs -> BOOLEAN] /\ EarnedBy(r)
        /\ ok \in [Runs -> BOOLEAN] /\ saw \in [Runs -> SUBSET Controls]
        /\ UNCHANGED <<regime, blind>> /\ saw[r] \subseteq saw'[r]
      BY <2>0 DEF SelfTypes, SelfTestTypeOK, Earned, OthersRest
  <2>g. ASSUME NEW to, Goto(r, to) PROVE place'[r] = to
      BY <2>g, <2>t DEF Goto
  <2>r. ASSUME Raise(r) PROVE place'[r] \in {"unstage", "unlink"}
      BY <2>r, <2>g DEF Raise, Cleanup
  <2>2. EarnedBy(r)'
    <3>1. CASE Start(r)
      <4>1. place'[r] = "plant" /\ UNCHANGED <<at, ok>>
          BY <3>1, <2>g DEF Start, locals
      <4>. QED BY <2>t, <4>1, EarnedRests DEF Tested
    <3>2. CASE Plant(r)
      <4>1. /\ red'[r] = FALSE /\ UNCHANGED <<at, ok>>
            /\ red' = [red EXCEPT ![r] = FALSE]
          BY <3>2, <2>t DEF Plant
      <4>2. place'[r] # "passed"
        <5>1. CASE Raise(r)
            BY <5>1, <2>r
        <5>3. CASE Goto(r, "raised")
            BY <5>3, <2>g
        <5>2. CASE Goto(r, CASE Is(r, "built")     -> "root"
                             [] Is(r, "untracked") -> "check"
                             [] OTHER              -> "stage")
          <6>1. PICK to : to = CASE Is(r, "built")     -> "root"
                                 [] Is(r, "untracked") -> "check"
                                 [] OTHER              -> "stage"
              OBVIOUS
          <6>2. to # "passed"
              BY <6>1, Zenon
          <6>. QED BY <5>2, <6>1, <6>2, <2>g
        <5>. QED BY <3>2, <5>1, <5>2, <5>3 DEF Plant
      <4>. QED BY <2>t, <4>1, <4>2, EarnedRests
    <3>3. CASE WriteRoot(r)
      <4>1. /\ place[r] = "root" /\ UNCHANGED <<at, ok, red>>
            /\ place'[r] \in {"stage", "unstage", "unlink"}
          BY <3>3, <2>g, <2>r DEF WriteRoot
      <4>. QED BY <2>t, <4>1, EarnedRests DEF Tested
    <3>4. CASE Stage(r)
      <4>1. /\ place[r] = "stage" /\ UNCHANGED <<at, ok, red>>
            /\ place'[r] \in {"build", "check", "unstage", "unlink"}
          BY <3>4, <2>g, <2>r DEF Stage
      <4>. QED BY <2>t, <4>1, EarnedRests DEF Tested
    <3>5. CASE Build(r)
      <4>1. /\ place[r] = "build" /\ UNCHANGED <<at, ok, red>>
            /\ place'[r] \in {"check", "unstage", "unlink"}
          BY <3>5, <2>g DEF Build, locals, Cleanup
      <4>. QED BY <2>t, <4>1, EarnedRests DEF Tested
    <3>6. CASE Check(r)
      <4>1. /\ UNCHANGED <<at, ok>> /\ place[r] = "check"
            /\ place'[r] \in {"unstage", "unlink"}
          BY <3>6, <2>g, <2>r DEF Check, Cleanup
      <4>2. \A i : Good(r, i) => Good(r, i)'
          BY <2>t, GoodStays
      <4>3. CASE UNCHANGED red
          BY <2>t, <4>1, <4>3, EarnedRests DEF Tested
      <4>4. CASE ~UNCHANGED red
        <5>0. /\ red' = [red EXCEPT ![r] = IF Is(r, "untracked") THEN GateGreen(r, staged)
                                          ELSE TurnedRed(r, Listed(r))]
              /\ saw' = [saw EXCEPT ![r] =
                            IF Mine(r) \in Visible(How[Ctl(r)], Listed(r))
                            THEN @ \cup {Ctl(r)} ELSE @]
            BY <3>6, <4>4 DEF Check
        <5>1. CASE Is(r, "untracked")
            BY <2>t, <4>1, <4>2, <5>1 DEF EarnedBy, Good, Is, Ctl, Plan
        <5>2. CASE ~Is(r, "untracked")
          <6>1. red'[r] <=> Mine(r) \in Reported(r, Listed(r))
              BY <2>t, <5>0, <5>2 DEF TurnedRed
          <6>2. Mine(r) \in Reported(r, Listed(r)) =>
                  /\ Gate[Ctl(r)] \notin blind
                  /\ Mine(r) \in Visible(How[Ctl(r)], Listed(r))
              BY Zenon DEF Reported
          <6>3. Mine(r) \in Visible(How[Ctl(r)], Listed(r)) => Ctl(r) \in saw'[r]
              BY <2>t, <5>0
          <6>4. red'[r] => Good(r, at[r])'
              BY <2>t, <4>1, <6>1, <6>2, <6>3 DEF Good, Ctl, Plan
          <6>. QED BY <2>t, <4>1, <4>2, <6>4 DEF EarnedBy, Plan
        <5>. QED BY <5>1, <5>2
      <4>. QED BY <4>3, <4>4
    <3>7. CASE Unstage(r)
      <4>1. /\ place[r] = "unstage" /\ UNCHANGED <<at, ok, red>>
            /\ place'[r] \in {"restore", "unlink", "abandoned"}
          BY <3>7, <2>g DEF Unstage, locals
      <4>. QED BY <2>t, <4>1, EarnedRests DEF Tested
    <3>8. CASE Restore(r)
      <4>1. /\ place[r] = "restore" /\ UNCHANGED <<at, ok, red>>
            /\ place'[r] \in {"unlink", "abandoned"}
          BY <3>8, <2>g DEF Restore, locals
      <4>. QED BY <2>t, <4>1, EarnedRests DEF Tested
    <3>9. CASE Unlink(r)
      <4>1. place[r] = "unlink" /\ UNCHANGED <<red, saw>>
          BY <3>9 DEF Unlink
      <4>2. CASE Is(r, "untracked") /\ Conclude(r, red[r])
          BY <2>t, <4>1, <4>2, EarnedConclude DEF Good, Is, Ctl
      <4>3. CASE /\ UNCHANGED <<at, ok>> /\ place'[r] \in {"raised", "abandoned", "rebuild", "recheck"}
          BY <2>t, <4>1, <4>3, EarnedRests DEF Tested
      <4>. QED BY <3>9, <2>g, <4>2, <4>3 DEF Unlink
    <3>10. CASE Rebuild(r)
      <4>1. place[r] = "rebuild" /\ UNCHANGED <<red, saw>>
          BY <3>10 DEF Rebuild
      <4>2. CASE Conclude(r, FALSE)
          BY <2>t, <4>1, <4>2, EarnedConclude
      <4>3. CASE UNCHANGED <<at, ok>> /\ Goto(r, "recheck")
          BY <2>t, <2>g, <4>1, <4>3, EarnedRests DEF Tested
      <4>. QED BY <3>10, <4>2, <4>3 DEF Rebuild
    <3>11. CASE Recheck(r)
      <4>1. place[r] = "recheck" /\ UNCHANGED <<red, saw>>
          BY <3>11 DEF Recheck
      <4>2. (red[r] /\ GateGreen(r, staged)) \in BOOLEAN
          BY Zenon DEF GateGreen
      <4>3. red[r] => Good(r, at[r])
          BY <2>t, <4>1 DEF EarnedBy, Tested
      <4>4. CASE \E passed \in BOOLEAN : Conclude(r, passed) /\ (passed => red[r])
          BY <2>t, <4>1, <4>3, <4>4, EarnedConclude
      <4>5. CASE Goto(r, "raised") /\ UNCHANGED <<at, ok>>
          BY <2>t, <2>g, <4>1, <4>5, EarnedRests DEF Tested
      <4>. QED BY <3>11, <4>2, <4>4, <4>5 DEF Recheck
    <3>. QED BY <1>1, <3>1, <3>2, <3>3, <3>4, <3>5, <3>6, <3>7, <3>8, <3>9, <3>10, <3>11 DEF Step
  <2>. QED BY <2>1, <2>2 DEF Earned
<1>2. ASSUME NEW r \in Runs, KillRun(r) PROVE Earned'
  <2>1. /\ UNCHANGED <<regime, blind, at, red, ok, saw>>
        /\ \A s \in Runs : place'[s] = place[s] \/ place'[s] = "killed"
      BY <1>2 DEF KillRun, locals, Goto, SelfTypes, SelfTestTypeOK
  <2>2. ASSUME NEW s \in Runs PROVE EarnedBy(s)'
      BY <2>1, EarnedRests DEF Earned, Tested
  <2>. QED BY <2>2 DEF Earned
<1>3. CASE UNCHANGED <<regime, blind, place, at, red, ok, saw>>
  <2>1. ASSUME NEW s \in Runs PROVE EarnedBy(s)'
      BY <1>3, EarnedRests DEF Earned
  <2>. QED BY <2>1 DEF Earned
<1>. QED BY <1>1, <1>2, <1>3 DEF SelfTestNext, Develop, SelfTestTerminated, selfTestVars,
            checkout, environment, locals

LEMMA EarnedInvariant == SelfTestSpec => [](SelfTypes /\ Earned)
BY SelfTypesStart, SelfTypesStep, EarnedStart, EarnedStep, PTL DEF SelfTestSpec

(* A self-test that passes has shown of every gate it plants a defect for  *)
(* that it sees that defect, for every plan, however many invocations      *)
(* share the checkout, whatever fails or is killed and whatever else is    *)
(* red: no PASS without a gate that looked.                                *)
THEOREM PassesAreEarned == Spec => []PassIsEarned
<1>1. SelfTypes /\ Earned => PassIsEarned
    BY DEF Earned, EarnedBy, PassIsEarned, Good
<1>. QED BY <1>1, ScriptBehaves, EarnedInvariant, PTL

-----------------------------------------------------------------------------
(* Self-tests: the checkout                                                *)

(* Runs follow one another.                                                *)
InOrder == \A r, s \in Runs : s < r /\ place[r] # "idle" => place[s] \in Ended \ {"idle"}

(* What runs that broke off may have left; the umbrella has its own        *)
(* imports unless one of them was at work on it.                           *)
Left == {Mine(s) : s \in BrokenOff}

Wrecked == \E s \in BrokenOff : Is(s, "built")

Whole == Own \in root \/ Wrecked

Probes == planted \cup hollow \cup staged

(* How far the run that is active has come in its control.                 *)
Course(r) ==
    /\ Dirt \subseteq Left \cup {Mine(r)}
    /\ place[r] = "plant" => Dirt \subseteq Left
    /\ place[r] \in {"restore", "unlink", "rebuild", "recheck"} => Mine(r) \notin staged
    /\ place[r] \in {"rebuild", "recheck"} => Mine(r) \notin planted \cup hollow
    /\ ~Is(r, "built") \/ place[r] \in {"unlink", "rebuild", "recheck"} =>
            root \ {Own} \subseteq Left
    /\ Whole \/ (Is(r, "built") /\ place[r] \in {"unstage", "restore"})
    /\ Is(r, "built") /\ place[r] # "plant" =>
            original[r] \ {Own} \subseteq Left /\ (Own \in original[r] \/ Wrecked)
    /\ place[r] \in {"root", "build", "restore", "rebuild"} => Is(r, "built")
    /\ place[r] \in {"stage", "recheck"} => ~Is(r, "untracked")
    /\ place[r] = "unstage" => Indexed(Ctl(r))

(* The controls behind a run left nothing.                                 *)
CleanBehind(r) ==
    \A i \in DOMAIN Plan[r] :
        (place[r] \in {"passed", "failed"} \/ (i < at[r] /\ Probe[Plan[r][i]] # Mine(r))) =>
            Probe[Plan[r][i]] \notin Probes

Orderly ==
    /\ InOrder /\ \A r \in Runs : place[r] = "idle" => at[r] = 1
    /\ \A c \in Controls : ~Indexed(c) => Probe[c] \notin staged
    /\ \A r \in Runs : Active(r) => Course(r)
    /\ (\A r \in Runs : ~Active(r)) => Dirt \subseteq Left /\ Whole
    /\ \A r \in Runs : Latest(r) => CleanBehind(r)

LEMMA OneAtATime ==
    ASSUME InOrder, NEW r \in Runs, Active(r), NEW s \in Runs \ {r}
    PROVE  ~Active(s) /\ (r < s => place[s] = "idle")
<1>1. r \in Nat /\ s \in Nat
    BY SelfTestAssumption
<1>2. CASE s < r
    BY <1>1, <1>2 DEF InOrder, Active, Ended
<1>3. CASE r < s
    BY <1>1, <1>3 DEF InOrder, Active, Ended
<1>. QED BY <1>1, <1>2, <1>3

(* The places a step leads from and to.                                    *)
LEMMA StepPlaces ==
    ASSUME SelfTypes, NEW r \in Runs, Step(r)
    PROVE  /\ place[r] = "idle" \/ Active(r)
           /\ ~Start(r) => Active(r)
           /\ place'[r] \notin {"idle", "killed"}
           /\ place'[r] = "abandoned" => Unstage(r) \/ Restore(r) \/ Unlink(r)
<1>t. place \in [Runs -> Pcs]
    BY DEF SelfTypes, SelfTestTypeOK
<1>g. ASSUME NEW to, Goto(r, to) PROVE place'[r] = to
    BY <1>g, <1>t DEF Goto
<1>. DEFINE On == place'[r] \notin {"idle", "killed", "abandoned"}
<1>r. ASSUME Raise(r) PROVE On
    BY <1>r, <1>g DEF Raise, Cleanup
<1>c. ASSUME NEW passed \in BOOLEAN, Conclude(r, passed) PROVE On
    BY <1>c, ConcludeTypes
<1>. USE DEF Active, Ended
<1>1. CASE Start(r)
    BY <1>1, <1>g DEF Start
<1>2. CASE Plant(r)
  <2>1. CASE Raise(r)
      BY <1>2, <2>1, <1>r DEF Plant
  <2>2. CASE Goto(r, CASE Is(r, "built")     -> "root"
                       [] Is(r, "untracked") -> "check"
                       [] OTHER              -> "stage")
    <3>1. PICK to : to = CASE Is(r, "built")     -> "root"
                           [] Is(r, "untracked") -> "check"
                           [] OTHER              -> "stage"
        OBVIOUS
    <3>2. to \in {"root", "check", "stage"}
        BY <3>1, Zenon
    <3>. QED BY <1>2, <2>2, <3>1, <3>2, <1>g DEF Plant
  <2>3. CASE Goto(r, "raised")
      BY <1>2, <2>3, <1>g DEF Plant
  <2>. QED BY <1>2, <2>1, <2>2, <2>3 DEF Plant
<1>3. CASE WriteRoot(r)
    BY <1>3, <1>g, <1>r DEF WriteRoot
<1>4. CASE Stage(r)
    BY <1>4, <1>g, <1>r DEF Stage
<1>5. CASE Build(r)
    BY <1>5, <1>g DEF Build, Cleanup
<1>6. CASE Check(r)
    BY <1>6, <1>g, <1>r DEF Check, Cleanup
<1>7. CASE Unstage(r)
    BY <1>7, <1>g DEF Unstage
<1>8. CASE Restore(r)
    BY <1>8, <1>g DEF Restore
<1>9. CASE Unlink(r)
  <2>1. red[r] \in BOOLEAN
      BY DEF SelfTypes, SelfTestTypeOK
  <2>. QED BY <1>9, <2>1, <1>g, <1>c DEF Unlink
<1>10. CASE Rebuild(r)
    BY <1>10, <1>g, <1>c DEF Rebuild
<1>11. CASE Recheck(r)
  <2>1. (red[r] /\ GateGreen(r, staged)) \in BOOLEAN
      BY Zenon DEF GateGreen
  <2>. QED BY <1>11, <2>1, <1>c, <1>g DEF Recheck
<1>. QED BY <1>1, <1>2, <1>3, <1>4, <1>5, <1>6, <1>7, <1>8, <1>9, <1>10, <1>11 DEF Step

(* What a step of an active run leaves as it was.                          *)
LEMMA StepFrame ==
    ASSUME SelfTypes, InOrder, NEW r \in Runs, Active(r), Step(r)
    PROVE  /\ InOrder'
           /\ place'[r] # "abandoned" => Left' = Left /\ Wrecked' = Wrecked
           /\ place'[r] = "abandoned" => Left' = Left \cup {Mine(r)'} /\ (Wrecked => Wrecked')
           /\ place'[r] = "abandoned" /\ Is(r, "built")' => Wrecked'
           /\ \A s \in Runs \ {r} : ~Active(s)' /\ ~Latest(s)'
<1>1. OthersRest(r) /\ place'[r] \notin {"idle", "killed"}
    BY StepOfOne, StepPlaces
<1>2. \A s \in Runs \ {r} : ~Active(s) /\ (r < s => place[s] = "idle")
    BY OneAtATime
<1>3. \A s \in Runs : s \in Nat
    BY SelfTestAssumption
<1>4. InOrder'
  <2>. SUFFICES ASSUME NEW x \in Runs, NEW s \in Runs, s < x, place'[x] # "idle"
                PROVE  place'[s] \in Ended \ {"idle"}
      BY DEF InOrder, Ended
  <2>1. place[x] # "idle"
      BY <1>1 DEF OthersRest, Active, Ended
  <2>2. place[s] \in Ended \ {"idle"}
      BY <2>1 DEF InOrder
  <2>3. s # r
      BY <2>2 DEF Active
  <2>. QED BY <1>1, <2>2, <2>3 DEF OthersRest
<1>5. /\ place'[r] # "abandoned" => Left' = Left /\ Wrecked' = Wrecked
      /\ place'[r] = "abandoned" => Left' = Left \cup {Mine(r)'} /\ (Wrecked => Wrecked')
      /\ place'[r] = "abandoned" /\ Is(r, "built")' => Wrecked'
  <2>1. \A s \in Runs \ {r} : s \in BrokenOff <=> s \in BrokenOff'
      BY <1>1 DEF OthersRest, BrokenOff
  <2>2. r \notin BrokenOff /\ (r \in BrokenOff' <=> place'[r] = "abandoned")
      BY <1>1 DEF Active, Ended, BrokenOff
  <2>3. \A s \in Runs \ {r} : Mine(s)' = Mine(s) /\ Is(s, "built")' = Is(s, "built")
      BY <1>1 DEF OthersRest, Mine, Is, Ctl, Plan
  <2>4. BrokenOff \subseteq Runs /\ BrokenOff' \subseteq Runs
      BY DEF BrokenOff
  <2>. QED BY <2>1, <2>2, <2>3, <2>4 DEF Left, Wrecked
<1>6. ASSUME NEW s \in Runs \ {r} PROVE ~Active(s)' /\ ~Latest(s)'
  <2>1. place'[s] = place[s]
      BY <1>1 DEF OthersRest
  <2>2. ~Active(s)'
      BY <1>2, <2>1 DEF Active, Ended
  <2>3. r > s \/ place'[s] = "idle"
      BY <1>2, <1>3, <2>1
  <2>. QED BY <1>1, <2>2, <2>3 DEF Latest
<1>. QED BY <1>4, <1>5, <1>6

LEMMA OrderlyStart == SelfTestInit => Orderly
BY DEF SelfTestInit, Orderly, InOrder, Active, Ended, Latest, Dirt, Whole

(* While a run stays in its control it plants and lists nothing but its    *)
(* own probe.                                                              *)
LEMMA WithinControl ==
    ASSUME SelfTypes, NEW r \in Runs, CleanBehind(r), UNCHANGED <<regime, at>>,
           Active(r), place'[r] \notin {"passed", "failed"},
           Probes' \subseteq Probes \cup {Mine(r)}
    PROVE  Ctl(r)' = Ctl(r) /\ Mine(r)' = Mine(r) /\ CleanBehind(r)'
<1>1. Plan' = Plan
    BY DEF Plan
<1>2. Ctl(r)' = Ctl(r) /\ Mine(r)' = Mine(r)
    BY <1>1 DEF Ctl, Mine
<1>. QED BY <1>1, <1>2 DEF CleanBehind

(* A control ends with its probe neither on disk nor in the index.         *)
LEMMA AfterControl ==
    ASSUME SelfTypes, NEW r \in Runs, CleanBehind(r), UNCHANGED regime,
           NEW passed \in BOOLEAN, Conclude(r, passed), Left' = Left,
           Wrecked' = Wrecked, Whole', Mine(r) \notin Probes', Probes' \subseteq Probes,
           Dirt' \subseteq Left
    PROVE  (Active(r)' => Course(r)') /\ CleanBehind(r)'
<1>1. /\ \/ at[r] < Len(Plan[r]) /\ at'[r] = at[r] + 1 /\ place'[r] = "plant"
         \/ /\ at[r] = Len(Plan[r]) /\ at'[r] = at[r]
            /\ place'[r] \in {"passed", "failed"}
    BY ConcludeTypes
<1>2. /\ at[r] \in 1 .. Len(Plan[r]) /\ Len(Plan[r]) \in Nat
      /\ DOMAIN Plan[r] = 1 .. Len(Plan[r])
    BY ControlOfRun
<1>3. Plan' = Plan
    BY DEF Plan
<1>4. ASSUME NEW i \in DOMAIN Plan[r], i <= at[r] PROVE Probe[Plan[r][i]] \notin Probes'
  <2>1. CASE Probe[Plan[r][i]] = Mine(r)
      BY <2>1
  <2>2. CASE Probe[Plan[r][i]] # Mine(r)
    <3>1. i < at[r]
        BY <1>2, <1>4, <2>2 DEF Mine, Ctl
    <3>. QED BY <2>2, <3>1 DEF CleanBehind
  <2>. QED BY <2>1, <2>2
<1>5. CleanBehind(r)'
  <2>. SUFFICES ASSUME NEW i \in DOMAIN Plan[r], place'[r] \in {"passed", "failed"} \/ i < at'[r]
                PROVE  Probe[Plan[r][i]] \notin Probes'
      BY <1>3 DEF CleanBehind
  <2>1. i <= at[r]
      BY <1>1, <1>2
  <2>. QED BY <1>4, <2>1
<1>6. Active(r)' => Course(r)'
    BY <1>1 DEF Active, Ended, Course, Dirt
<1>. QED BY <1>5, <1>6

LEMMA OrderlyStepOfActive ==
    ASSUME SelfTypes, Alone, Orderly, NEW r \in Runs, Active(r), Step(r)
    PROVE  Orderly'
<1>1. /\ InOrder' /\ \A s \in Runs \ {r} : ~Active(s)' /\ ~Latest(s)'
      /\ place'[r] # "abandoned" => Left' = Left /\ Wrecked' = Wrecked
      /\ place'[r] = "abandoned" => Left' = Left \cup {Mine(r)'} /\ (Wrecked => Wrecked')
      /\ place'[r] = "abandoned" /\ Is(r, "built")' => Wrecked'
    BY StepFrame DEF Orderly
<1>2. /\ Course(r) /\ UNCHANGED regime
      /\ CleanBehind(r)
  <2>1. \A s \in Runs : s \in Nat
      BY SelfTestAssumption
  <2>2. Latest(r)
      BY <2>1, OneAtATime DEF Orderly, Latest, Active, Ended
  <2>. QED BY <2>2, StepOfOne DEF Orderly, OthersRest
<1>t. /\ place \in [Runs -> Pcs] /\ original \in [Runs -> SUBSET (Files \cup {Own})]
      /\ red[r] \in BOOLEAN /\ raising[r] \in BOOLEAN
    BY DEF SelfTypes, SelfTestTypeOK
<1>k. /\ How[Ctl(r)] \in Kinds /\ Ctl(r) \in Controls /\ Mine(r) # Own
      /\ Indexed(Ctl(r)) <=> Is(r, "staged") \/ Is(r, "built")
    BY ControlOfRun, SelfTestAssumption DEF Indexed, Is
<1>g. ASSUME NEW to, Goto(r, to) PROVE place'[r] = to
    BY <1>g, <1>t DEF Goto
<1>r. ASSUME Raise(r) PROVE place'[r] = Cleanup(r)
    BY <1>r, <1>g DEF Raise
<1>f. ~Fails("git") /\ ~Fails("gittimeout")
    BY DEF Alone, Fails
<1>n. ~Indexed(Ctl(r)) => Mine(r) \notin staged
    BY <1>k DEF Orderly, Mine
<1>. DEFINE Onward ==
        /\ \A c \in Controls : ~Indexed(c) => Probe[c] \notin staged'
        /\ Active(r)' => Course(r)'
        /\ ~Active(r)' => Dirt' \subseteq Left' /\ Whole'
        /\ CleanBehind(r)'
<1>0. \A s \in Runs : place'[s] = "idle" => at'[s] = 1
    BY StepOfOne, StepPlaces DEF Orderly, OthersRest
<1>. SUFFICES Onward
    BY <1>0, <1>1 DEF Orderly
<1>s. ASSUME staged' \subseteq staged
      PROVE  \A c \in Controls : ~Indexed(c) => Probe[c] \notin staged'
    BY <1>s DEF Orderly
<1>a. ASSUME place'[r] \in Tested \cup {"plant"} PROVE Active(r)'
    BY <1>a DEF Active, Ended, Tested
<1>b. ASSUME place'[r] = "abandoned", UNCHANGED <<planted, hollow, staged, at>>,
             root' \in {root, {}}, root' # root => Is(r, "built")
      PROVE  Onward
  <2>1. Ctl(r)' = Ctl(r) /\ Mine(r)' = Mine(r) /\ CleanBehind(r)'
      BY <1>2, <1>b, WithinControl DEF Probes
  <2>2. Dirt' \subseteq Dirt
      BY <1>b DEF Dirt
  <2>3. Dirt' \subseteq Left'
      BY <1>1, <1>2, <1>b, <2>1, <2>2 DEF Course
  <2>4. Whole'
      BY <1>1, <1>2, <1>b, <2>1 DEF Course, Whole, Is
  <2>. QED BY <1>b, <1>s, <2>1, <2>3, <2>4 DEF Active, Ended
<1>. HIDE DEF Kinds
<1>3. CASE Plant(r)
  <2>1. /\ UNCHANGED <<staged, root, at>> /\ place[r] = "plant"
        /\ Is(r, "built") => original'[r] = root
      BY <1>3, <1>t DEF Plant
  <2>2. /\ planted' \cup hollow' \subseteq planted \cup hollow \cup {Mine(r)}
        /\ place'[r] \in {"root", "check", "stage"} \cup {"unstage", "unlink"}
        /\ place'[r] = "root" => Is(r, "built")
        /\ place'[r] = "stage" => ~Is(r, "untracked")
        /\ place'[r] = "unstage" => Indexed(Ctl(r))
        /\ place'[r] = "unlink" => ~Indexed(Ctl(r))
    <3>1. CASE Raise(r) /\ (Emptied(r) \/ UNCHANGED <<planted, hollow>>)
      <4>1. place'[r] = IF Indexed(Ctl(r)) THEN "unstage" ELSE "unlink"
          BY <3>1, <1>r DEF Cleanup
      <4>. QED BY <3>1, <4>1, <1>k DEF Emptied
    <3>2. CASE /\ Written(r)
               /\ Goto(r, CASE Is(r, "built")     -> "root"
                            [] Is(r, "untracked") -> "check"
                            [] OTHER              -> "stage")
      <4>1. PICK to : to = CASE Is(r, "built")     -> "root"
                             [] Is(r, "untracked") -> "check"
                             [] OTHER              -> "stage"
          OBVIOUS
      <4>2. place'[r] = to
          BY <3>2, <4>1, <1>g
      <4>3. \/ to = "root" /\ Is(r, "built")
            \/ to = "check"
            \/ to = "stage" /\ ~Is(r, "untracked")
        <5>1. CASE Is(r, "built")
          <6>1. ~Is(r, "untracked")
              BY <5>1 DEF Is
          <6>. QED BY <4>1, <5>1, <6>1
        <5>2. CASE ~Is(r, "built")
            BY <4>1, <5>2
        <5>. QED BY <5>1, <5>2
      <4>. QED BY <3>2, <4>2, <4>3 DEF Written
    <3>. QED BY <1>3, <1>f, <3>1, <3>2 DEF Plant
  <2>3. Ctl(r)' = Ctl(r) /\ Mine(r)' = Mine(r) /\ CleanBehind(r)'
      BY <1>2, <2>1, <2>2, WithinControl DEF Probes
  <2>4. Dirt \subseteq Left
      BY <1>2, <2>1 DEF Course
  <2>6. Dirt' \subseteq Left \cup {Mine(r)} /\ Left' = Left /\ Wrecked' = Wrecked
      BY <1>1, <2>1, <2>2, <2>4 DEF Dirt
  <2>7. root \ {Own} \subseteq Left /\ Whole
      BY <1>2, <2>1, <2>4 DEF Dirt, Course
  <2>8. Mine(r)' \notin staged' \/ Indexed(Ctl(r))
      BY <1>n, <2>1, <2>3
  <2>5. Course(r)'
      BY <1>k, <2>1, <2>2, <2>3, <2>6, <2>7, <2>8 DEF Course, Is, Whole
  <2>. QED BY <2>1, <2>2, <2>3, <2>5, <1>s, <1>a DEF Tested
<1>4. CASE WriteRoot(r)
  <2>1. /\ UNCHANGED <<planted, hollow, staged, at, original>> /\ place[r] = "root"
        /\ Is(r, "built") /\ Indexed(Ctl(r))
        /\ \/ root' = original[r] \cup {Mine(r)} /\ place'[r] = "stage"
           \/ root' \in {root, {}} /\ place'[r] = "unstage"
      BY <1>2, <1>4, <1>g, <1>r, <1>k DEF WriteRoot, Course, Cleanup
  <2>2. Ctl(r)' = Ctl(r) /\ Mine(r)' = Mine(r) /\ CleanBehind(r)'
      BY <1>2, <2>1, WithinControl DEF Probes
  <2>3. Course(r)'
      BY <1>1, <1>2, <2>1, <2>2 DEF Course, Dirt, Is, Whole
  <2>. QED BY <2>1, <2>2, <2>3, <1>s, <1>a DEF Tested
<1>5. CASE Stage(r)
  <2>1. /\ UNCHANGED <<planted, hollow, root, at, original>> /\ place[r] = "stage"
        /\ ~Is(r, "untracked")
        /\ \/ Is(r, "throwaway") /\ staged' = staged
           \/ ~Is(r, "throwaway") /\ staged' = staged \cup {Mine(r)}
        /\ place'[r] = IF Is(r, "built") THEN "build" ELSE "check"
      BY <1>2, <1>5, <1>g, <1>f DEF Stage, Course
  <2>2. Ctl(r)' = Ctl(r) /\ Mine(r)' = Mine(r) /\ CleanBehind(r)'
      BY <1>2, <2>1, WithinControl DEF Probes
  <2>3. Course(r)'
      BY <1>1, <1>2, <2>1, <2>2 DEF Course, Dirt, Is, Whole
  <2>4. ASSUME NEW c \in Controls, ~Indexed(c) PROVE Probe[c] \notin staged'
    <3>1. CASE Is(r, "throwaway")
        BY <2>1, <2>4, <3>1 DEF Orderly, Is
    <3>2. CASE ~Is(r, "throwaway")
      <4>1. Indexed(Ctl(r))
          BY <1>k, <2>1, <3>2 DEF Kinds, Indexed, Is
      <4>2. Probe[c] # Mine(r)
          BY <1>k, <2>4, <4>1, SelfTestAssumption DEF Mine
      <4>. QED BY <2>1, <2>4, <4>2 DEF Orderly
    <3>. QED BY <3>1, <3>2
  <2>. QED BY <2>1, <2>2, <2>3, <2>4, <1>a DEF Tested
<1>6. CASE Build(r)
  <2>1. /\ UNCHANGED <<planted, hollow, staged, root, at, original>> /\ place[r] = "build"
        /\ Is(r, "built") /\ Indexed(Ctl(r))
        /\ place'[r] \in {"check", "unstage"}
      BY <1>2, <1>6, <1>g, <1>k DEF Build, Course, Cleanup, locals
  <2>2. Ctl(r)' = Ctl(r) /\ Mine(r)' = Mine(r) /\ CleanBehind(r)'
      BY <1>2, <2>1, WithinControl DEF Probes
  <2>3. Course(r)'
      BY <1>1, <1>2, <2>1, <2>2 DEF Course, Dirt, Is, Whole
  <2>. QED BY <2>1, <2>2, <2>3, <1>s, <1>a DEF Tested
<1>7. CASE Check(r)
  <2>1. /\ UNCHANGED <<planted, hollow, staged, root, at, original>> /\ place[r] = "check"
        /\ place'[r] = IF Indexed(Ctl(r)) THEN "unstage" ELSE "unlink"
      BY <1>2, <1>7, <1>g, <1>r DEF Check, Cleanup, checkout
  <2>2. Ctl(r)' = Ctl(r) /\ Mine(r)' = Mine(r) /\ CleanBehind(r)'
      BY <1>2, <2>1, WithinControl DEF Probes
  <2>3. Course(r)'
      BY <1>1, <1>2, <1>k, <1>n, <2>1, <2>2 DEF Course, Dirt, Is, Whole
  <2>. QED BY <2>1, <2>2, <2>3, <1>s, <1>a DEF Tested
<1>8. CASE Unstage(r)
  <2>1. /\ UNCHANGED <<planted, hollow, root, at, original>> /\ place[r] = "unstage"
        /\ staged' = staged \ {Mine(r)}
        /\ place'[r] = IF Is(r, "built") THEN "restore" ELSE "unlink"
      BY <1>2, <1>8, <1>g, <1>f DEF Unstage, locals
  <2>2. Ctl(r)' = Ctl(r) /\ Mine(r)' = Mine(r) /\ CleanBehind(r)'
      BY <1>2, <2>1, WithinControl DEF Probes
  <2>3. Course(r)'
      BY <1>1, <1>2, <2>1, <2>2 DEF Course, Dirt, Is, Whole
  <2>. QED BY <2>1, <2>2, <2>3, <1>s, <1>a DEF Tested
<1>9. CASE Restore(r)
  <2>1. UNCHANGED <<planted, hollow, staged, at, original>> /\ place[r] = "restore"
      BY <1>9 DEF Restore, locals
  <2>4. CASE root' = original[r] /\ place'[r] = "unlink"
    <3>2. Ctl(r)' = Ctl(r) /\ Mine(r)' = Mine(r) /\ CleanBehind(r)'
        BY <1>2, <2>1, <2>4, WithinControl DEF Probes
    <3>3. Course(r)'
        BY <1>1, <1>2, <2>1, <2>4, <3>2 DEF Course, Dirt, Is, Whole
    <3>. QED BY <2>1, <2>4, <3>2, <3>3, <1>s, <1>a DEF Tested
  <2>5. CASE root' \in {root, {}} /\ place'[r] = "abandoned"
      BY <1>2, <1>b, <2>1, <2>5 DEF Course
  <2>. QED BY <1>9, <1>g, <2>4, <2>5 DEF Restore
<1>10. CASE Unlink(r)
  <2>1. UNCHANGED <<staged, root, original>> /\ place[r] = "unlink"
      BY <1>10 DEF Unlink
  <2>5. CASE place'[r] = "abandoned" /\ UNCHANGED <<planted, hollow, at>>
      BY <1>b, <2>1, <2>5
  <2>6. ASSUME Removed(r)
        PROVE  Mine(r) \notin Probes' /\ Probes' \subseteq Probes /\ Dirt' \subseteq Left /\ Whole
      BY <1>2, <2>1, <2>6 DEF Course, Dirt, Removed, Probes
  <2>3. CASE Removed(r) /\ Conclude(r, red[r])
    <3>1. place'[r] # "abandoned"
        BY <1>t, <2>3, ConcludeTypes
    <3>2. Left' = Left /\ Wrecked' = Wrecked /\ Whole'
        BY <1>1, <2>1, <2>3, <2>6, <3>1 DEF Whole
    <3>3. (Active(r)' => Course(r)') /\ CleanBehind(r)'
        BY <1>2, <1>t, <2>3, <2>6, <3>2, AfterControl
    <3>. QED BY <2>1, <2>3, <2>6, <3>2, <3>3, <1>s
  <2>4. CASE /\ Removed(r) /\ UNCHANGED at
             /\ \/ place'[r] = "raised"
                \/ /\ place'[r] = IF Is(r, "built") THEN "rebuild" ELSE "recheck"
                   /\ ~Is(r, "untracked")
    <3>1. Left' = Left /\ Wrecked' = Wrecked /\ Whole'
        BY <1>1, <2>1, <2>4, <2>6 DEF Whole
    <3>2. Ctl(r)' = Ctl(r) /\ Mine(r)' = Mine(r) /\ CleanBehind(r)'
        BY <1>2, <2>4, <2>6, WithinControl
    <3>4. /\ Mine(r) \notin staged' \cup planted' \cup hollow'
          /\ root' \ {Own} \subseteq Left
        BY <2>4, <2>6 DEF Probes, Dirt
    <3>3. Active(r)' => Course(r)'
        BY <1>2, <2>1, <2>4, <2>6, <3>1, <3>2, <3>4 DEF Course, Is, Active, Ended
    <3>. QED BY <2>1, <2>4, <2>6, <3>1, <3>2, <3>3, <1>s
  <2>. QED BY <1>10, <1>g, <2>3, <2>4, <2>5 DEF Unlink
<1>11. CASE Rebuild(r)
  <2>1. UNCHANGED <<planted, hollow, staged, root, original>> /\ place[r] = "rebuild"
      BY <1>11 DEF Rebuild
  <2>2. Mine(r) \notin Probes' /\ Probes' \subseteq Probes /\ Dirt' \subseteq Left /\ Whole
      BY <1>2, <2>1 DEF Course, Dirt, Probes
  <2>3. CASE Conclude(r, FALSE)
    <3>1. place'[r] # "abandoned"
        BY <2>3, ConcludeTypes
    <3>2. Left' = Left /\ Wrecked' = Wrecked /\ Whole'
        BY <1>1, <2>1, <2>2, <3>1 DEF Whole
    <3>3. (Active(r)' => Course(r)') /\ CleanBehind(r)'
        BY <1>2, <2>2, <2>3, <3>2, AfterControl
    <3>. QED BY <2>1, <2>2, <3>2, <3>3, <1>s
  <2>4. CASE UNCHANGED at /\ place'[r] = "recheck"
    <3>1. Ctl(r)' = Ctl(r) /\ Mine(r)' = Mine(r) /\ CleanBehind(r)'
        BY <1>2, <2>1, <2>4, WithinControl DEF Probes
    <3>2. Course(r)'
        BY <1>1, <1>2, <2>1, <2>2, <2>4, <3>1 DEF Course, Dirt, Is, Whole
    <3>. QED BY <2>1, <2>4, <3>1, <3>2, <1>s, <1>a DEF Tested
  <2>. QED BY <1>11, <1>g, <2>3, <2>4 DEF Rebuild
<1>12. CASE Recheck(r)
  <2>1. UNCHANGED <<planted, hollow, staged, root, original>> /\ place[r] = "recheck"
      BY <1>12 DEF Recheck, checkout
  <2>2. Mine(r) \notin Probes' /\ Probes' \subseteq Probes /\ Dirt' \subseteq Left /\ Whole
      BY <1>2, <2>1 DEF Course, Dirt, Probes
  <2>3. \E passed \in BOOLEAN : Conclude(r, passed)
    <3>1. (red[r] /\ GateGreen(r, staged)) \in BOOLEAN
        BY Zenon DEF GateGreen
    <3>2. ~GateFails(r) \/ Indexed(Ctl(r))
        BY <1>f DEF GateFails
    <3>. QED BY <1>12, <3>1, <3>2 DEF Recheck
  <2>4. PICK passed \in BOOLEAN : Conclude(r, passed)
      BY <2>3
  <2>5. place'[r] # "abandoned"
      BY <2>4, ConcludeTypes
  <2>6. Left' = Left /\ Wrecked' = Wrecked /\ Whole'
      BY <1>1, <2>1, <2>2, <2>5 DEF Whole
  <2>7. (Active(r)' => Course(r)') /\ CleanBehind(r)'
      BY <1>2, <2>2, <2>4, <2>6, AfterControl
  <2>. QED BY <2>1, <2>2, <2>6, <2>7, <1>s
<1>13. ~Start(r)
    BY DEF Start, Active, Ended
<1>. QED BY <1>3, <1>4, <1>5, <1>6, <1>7, <1>8, <1>9, <1>10, <1>11, <1>12, <1>13 DEF Step

(* A run starts in a checkout where nobody is at work.                     *)
LEMMA OrderlyStartOfRun ==
    ASSUME SelfTypes, Alone, Orderly, NEW r \in Runs, Start(r)
    PROVE  Orderly'
<1>1. /\ UNCHANGED <<planted, hollow, staged, root, regime, at>>
      /\ place[r] = "idle" /\ place' = [place EXCEPT ![r] = "plant"]
      /\ \A s \in Runs : ~Active(s) /\ (s < r => place[s] # "idle")
    BY DEF Start, Alone, checkout, environment, Goto
<1>2. /\ place'[r] = "plant" /\ \A s \in Runs \ {r} : place'[s] = place[s]
      /\ \A s \in Runs : s \in Nat
    BY <1>1, SelfTestAssumption DEF SelfTypes, SelfTestTypeOK
<1>3. Plan' = Plan /\ \A s : Mine(s)' = Mine(s) /\ Ctl(s)' = Ctl(s)
    BY <1>1 DEF Plan, Mine, Ctl
<1>4. Left' = Left /\ Dirt' = Dirt /\ Probes' = Probes /\ Whole' = Whole
  <2>1. BrokenOff' = BrokenOff
      BY <1>1, <1>2 DEF BrokenOff
  <2>. QED BY <1>1, <1>3, <2>1 DEF Left, Dirt, Probes, Whole, Wrecked, Is
<1>5. InOrder'
  <2>. SUFFICES ASSUME NEW x \in Runs, NEW s \in Runs, s < x, place'[x] # "idle"
                PROVE  place'[s] \in Ended \ {"idle"}
      BY DEF InOrder, Ended
  <2>1. s # r /\ place[s] # "idle"
    <3>1. CASE x = r
        BY <1>1, <1>2, <3>1
    <3>2. CASE x # r
      <4>1. place[s] \in Ended \ {"idle"}
          BY <1>2, <3>2 DEF InOrder, Orderly
      <4>. QED BY <1>1, <4>1
    <3>. QED BY <3>1, <3>2
  <2>. QED BY <1>1, <1>2, <2>1 DEF Active
<1>6. Dirt \subseteq Left /\ Whole
    BY <1>1 DEF Orderly
<1>7. ASSUME NEW s \in Runs, Active(s)' PROVE Course(s)'
  <2>1. s = r
      BY <1>1, <1>2, <1>7 DEF Active, Ended
  <2>. QED BY <1>2, <1>4, <1>6, <2>1 DEF Course, Dirt
<1>8. ASSUME NEW s \in Runs, Latest(s)' PROVE CleanBehind(s)'
  <2>0. s \in Nat /\ r \in Nat
      BY <1>2
  <2>1. CASE s = r
    <3>1. at'[r] = 1 /\ place'[r] = "plant"
        BY <1>1, <1>2 DEF Orderly
    <3>2. DOMAIN Plan[r] = 1 .. Len(Plan[r]) /\ Len(Plan[r]) \in Nat
        BY ControlOfRun
    <3>. QED BY <1>3, <2>1, <3>1, <3>2 DEF CleanBehind
  <2>2. CASE s # r
    <3>1. ~(r > s)
        BY <1>2, <1>8, <2>2 DEF Latest
    <3>2. s > r /\ place[s] # "idle"
        BY <1>2, <1>8, <2>0, <2>2, <3>1 DEF Latest
    <3>. QED BY <1>1, <3>2 DEF Orderly, InOrder, Ended
  <2>. QED BY <2>1, <2>2
<1>. QED BY <1>1, <1>2, <1>4, <1>5, <1>6, <1>7, <1>8 DEF Orderly

(* A run that is killed leaves at most its own probe.                      *)
LEMMA OrderlyKill ==
    ASSUME SelfTypes, Orderly, NEW r \in Runs, KillRun(r)
    PROVE  Orderly'
<1>1. /\ UNCHANGED <<staged, regime, at>>
      /\ Active(r) /\ place' = [place EXCEPT ![r] = "killed"]
      /\ planted' \cup hollow' \subseteq planted \cup hollow \cup {Mine(r)}
      /\ root' = root \/ (root' = {} /\ place[r] \in {"root", "restore"})
    BY DEF KillRun, Emptied, locals, Goto
<1>2. /\ place'[r] = "killed" /\ \A s \in Runs \ {r} : place'[s] = place[s]
      /\ \A s \in Runs : place[s] = "idle" <=> place'[s] = "idle"
    BY <1>1 DEF SelfTypes, SelfTestTypeOK, Active, Ended
<1>3. Plan' = Plan /\ \A s : Mine(s)' = Mine(s) /\ Ctl(s)' = Ctl(s)
    BY <1>1 DEF Plan, Mine, Ctl
<1>4. \A s \in Runs : ~Active(s)'
    BY <1>1, <1>2, OneAtATime DEF Orderly, Active, Ended
<1>8. Course(r) /\ BrokenOff' = BrokenOff \cup {r}
    BY <1>1, <1>2 DEF Orderly, BrokenOff, Active, Ended
<1>5. Dirt' \subseteq Left'
  <2>1. Dirt' \subseteq Dirt \cup {Mine(r)}
      BY <1>1 DEF Dirt
  <2>2. Left' = Left \cup {Mine(r)}
      BY <1>3, <1>8 DEF Left
  <2>. QED BY <1>8, <2>1, <2>2 DEF Course
<1>9. Whole'
  <2>1. Wrecked' <=> Wrecked \/ Is(r, "built")
      BY <1>3, <1>8 DEF Wrecked, Is
  <2>. QED BY <1>1, <1>8, <2>1 DEF Course, Whole
<1>6. InOrder'
  <2>. SUFFICES ASSUME NEW x \in Runs, NEW s \in Runs, s < x, place'[x] # "idle"
                PROVE  place'[s] \in Ended \ {"idle"}
      BY DEF InOrder, Ended
  <2>1. place[s] \in Ended \ {"idle"}
      BY <1>2 DEF InOrder, Orderly
  <2>. QED BY <1>2, <2>1 DEF Ended
<1>7. ASSUME NEW s \in Runs, Latest(s)' PROVE CleanBehind(s)'
  <2>1. Latest(s)
      BY <1>2, <1>7 DEF Latest
  <2>2. place'[s] \in {"passed", "failed"} => place[s] \in {"passed", "failed"}
      BY <1>2
  <2>3. s = r
    <3>1. r \in Nat /\ s \in Nat
        BY SelfTestAssumption
    <3>2. ~(r < s)
        BY <1>1, <2>1, OneAtATime DEF Orderly, Latest
    <3>3. ~(r > s)
        BY <1>1, <2>1 DEF Latest, Active, Ended
    <3>. QED BY <3>1, <3>2, <3>3
  <2>4. Probes' \subseteq Probes \cup {Mine(r)}
      BY <1>1 DEF Probes
  <2>5. CleanBehind(r)
      BY <2>1, <2>3 DEF Orderly
  <2>. QED BY <1>1, <1>2, <2>3, <2>4, <2>5, WithinControl
<1>. QED BY <1>1, <1>2, <1>4, <1>5, <1>6, <1>7, <1>9 DEF Orderly

LEMMA OrderlyStep ==
    SelfTypes /\ (Alone => Orderly) /\ [SelfTestNext]_selfTestVars => (Alone => Orderly)'
<1>. SUFFICES ASSUME SelfTypes, Alone => Orderly, [SelfTestNext]_selfTestVars, Alone'
              PROVE  Orderly'
    OBVIOUS
<1>0. Alone /\ Orderly
  <2>1. UNCHANGED regime
      BY StepOfOne DEF SelfTestNext, OthersRest, KillRun, Develop, SelfTestTerminated,
         selfTestVars, environment
  <2>. QED BY <2>1 DEF Alone
<1>1. ASSUME NEW r \in Runs, Step(r) PROVE Orderly'
    BY <1>0, <1>1, StepPlaces, OrderlyStepOfActive, OrderlyStartOfRun
<1>2. ASSUME NEW r \in Runs, KillRun(r) PROVE Orderly'
    BY <1>0, <1>2, OrderlyKill
<1>3. CASE UNCHANGED <<planted, hollow, staged, root, regime, place, at, original>>
  <2>1. /\ Plan' = Plan /\ Left' = Left /\ Dirt' = Dirt /\ Probes' = Probes
        /\ (Whole' <=> Whole) /\ (Wrecked' <=> Wrecked)
        /\ \A s : Mine(s)' = Mine(s) /\ Ctl(s)' = Ctl(s)
      BY <1>3 DEF Plan, Left, BrokenOff, Dirt, Probes, Whole, Wrecked, Is, Mine, Ctl
  <2>2. \A s \in Runs : (Course(s)' <=> Course(s)) /\ (CleanBehind(s)' <=> CleanBehind(s))
      BY <1>3, <2>1 DEF Course, CleanBehind, Is
  <2>. QED BY <1>0, <1>3, <2>1, <2>2 DEF Orderly, InOrder, Active, Latest
<1>. QED BY <1>1, <1>2, <1>3 DEF SelfTestNext, Develop, SelfTestTerminated, selfTestVars,
            checkout, environment, locals

-----------------------------------------------------------------------------
(* Self-tests: gates that work                                             *)

(* Every gate detects and answers, nobody developed.                       *)
Healthy == blind = {} /\ noises = 0 /\ ~Fails("timeout")

(* No earlier run broke off.                                               *)
Undisturbed(r) == \A s \in BrokenOff : ~(s < r)

(* The probe is where the gate looks, the gate is red, and green after.    *)
Sound(r) ==
    /\ ok[r] /\ place[r] # "failed"
    /\ place[r] \in {"root", "stage", "build", "check"} => Mine(r) \in planted
    /\ place[r] \in {"stage", "build"} /\ Is(r, "built") => root = {Own, Mine(r)}
    /\ place[r] = "check" /\ Is(r, "staged") => Mine(r) \in staged
    /\ place[r] = "check" /\ Is(r, "built") => Mine(r) \in olean
    /\ place[r] = "check" /\ Is(r, "throwaway") => Mine(r) \in copy[r]
    /\ place[r] \in {"unstage", "restore", "unlink"} => raising[r] \/ red[r]
    /\ place[r] \in {"rebuild", "recheck"} => red[r]
    /\ place[r] = "recheck" /\ Is(r, "built") => olean = {}

Clear ==
    /\ noises = 0 => noise = {}
    /\ Healthy => \A r \in Runs : Undisturbed(r) => Sound(r)

LEMMA ClearStart == SelfTestInit => Clear
BY DEF SelfTestInit, Clear, Sound

(* A run that is active comes after all that broke off.                    *)
LEMMA NothingLeft ==
    ASSUME InOrder, NEW r \in Runs, Active(r), Undisturbed(r)
    PROVE  BrokenOff = {} /\ Left = {} /\ ~Wrecked
<1>1. ASSUME NEW s \in BrokenOff PROVE FALSE
  <2>1. s \in Runs \ {r} /\ place[s] # "idle"
      BY <1>1 DEF BrokenOff, Active, Ended
  <2>2. r \in Nat /\ s \in Nat
      BY <2>1, SelfTestAssumption
  <2>3. ~(r < s)
      BY <2>1, OneAtATime
  <2>. QED BY <1>1, <2>1, <2>2, <2>3 DEF Undisturbed
<1>. QED BY <1>1 DEF Left, Wrecked

(* A gate that works sees what is planted in a clean checkout.             *)
LEMMA RedWhenPlanted ==
    ASSUME SelfTypes, NEW r \in Runs, Sound(r), Course(r), place[r] = "check",
           blind = {}, noise = {}, Left = {}, ~Wrecked,
           ~Indexed(Ctl(r)) => Mine(r) \notin staged
    PROVE  IF Is(r, "untracked") THEN GateGreen(r, staged) ELSE TurnedRed(r, Listed(r))
<1>1. /\ Ctl(r) \in Controls /\ How[Ctl(r)] \in Kinds /\ Mine(r) \in Reports[Gate[Ctl(r)]]
      /\ Mine(r) # Own
    BY ControlOfRun, SelfTestAssumption DEF Mine
<1>2. /\ planted \cup staged \subseteq {Mine(r)} /\ Mine(r) \in planted
      /\ ~Is(r, "built") => root = {Own}
    BY DEF Course, Dirt, Sound, Whole
<1>3. CASE Is(r, "staged")
    BY <1>1, <1>2, <1>3 DEF Is, Sound, TurnedRed, Reported, Visible, Listed
<1>4. CASE Is(r, "built")
    BY <1>1, <1>2, <1>4 DEF Is, Sound, TurnedRed, Reported, Visible, Listed
<1>5. CASE Is(r, "throwaway")
    BY <1>1, <1>2, <1>5 DEF Is, Sound, TurnedRed, Reported, Visible, Listed
<1>6. CASE Is(r, "untracked")
  <2>1. staged = {} /\ Own \in root
      BY <1>2, <1>6 DEF Is, Indexed
  <2>2. Visible(How[Ctl(r)], staged) = {}
      BY <2>1, <1>6 DEF Visible, Is
  <2>. QED BY <2>1, <2>2, <1>6 DEF GateGreen, Reported
<1>. QED BY <1>1, <1>3, <1>4, <1>5, <1>6 DEF Kinds, Is

(* And is green again once that is gone.                                   *)
LEMMA GreenWhenReverted ==
    ASSUME SelfTypes, NEW r \in Runs, Sound(r), Course(r), place[r] = "recheck",
           noise = {}, Left = {}, ~Wrecked
    PROVE  GateGreen(r, staged)
<1>1. How[Ctl(r)] \in Kinds
    BY ControlOfRun, SelfTestAssumption
<1>2. staged = {} /\ (Is(r, "built") => olean = {}) /\ Own \in root
    BY DEF Course, Dirt, Sound, Whole
<1>3. Visible(How[Ctl(r)], staged) = {}
    BY <1>1, <1>2 DEF Visible, Is, Kinds
<1>. QED BY <1>2, <1>3 DEF GateGreen, Reported

LEMMA SoundStep ==
    ASSUME SelfTypes, Alone, Orderly, Clear, Healthy, NEW r \in Runs, Undisturbed(r),
           Active(r), Step(r)
    PROVE  Sound(r)'
<1>1. Left = {} /\ ~Wrecked /\ noise = {} /\ blind = {}
    BY NothingLeft DEF Clear, Healthy, Orderly
<1>2. Sound(r) /\ Course(r) /\ (~Indexed(Ctl(r)) => Mine(r) \notin staged)
    BY ControlOfRun DEF Clear, Orderly, Mine
<1>t. /\ place \in [Runs -> Pcs] /\ copy \in [Runs -> SUBSET Files]
      /\ red \in [Runs -> BOOLEAN] /\ raising \in [Runs -> BOOLEAN] /\ ok \in [Runs -> BOOLEAN]
    BY DEF SelfTypes, SelfTestTypeOK
<1>k. /\ How[Ctl(r)] \in Kinds
      /\ Indexed(Ctl(r)) <=> Is(r, "staged") \/ Is(r, "built")
    BY ControlOfRun, SelfTestAssumption DEF Indexed, Is
<1>g. ASSUME NEW to, Goto(r, to) PROVE place'[r] = to
    BY <1>g, <1>t DEF Goto
<1>f. ~Fails("git") /\ ~Fails("gittimeout") /\ ~Fails("timeout") /\ ~GateFails(r)
    BY DEF Alone, Fails, Healthy, GateFails
<1>m. ASSUME UNCHANGED <<regime, at>> PROVE Ctl(r)' = Ctl(r) /\ Mine(r)' = Mine(r)
    BY <1>m DEF Plan, Ctl, Mine
<1>u. UNCHANGED regime
    BY StepOfOne DEF OthersRest
<1>r. ASSUME Raise(r), UNCHANGED ok PROVE Sound(r)'
  <2>1. place'[r] \in {"unstage", "unlink"} /\ raising'[r] = TRUE
      BY <1>r, <1>t, <1>g DEF Raise, Cleanup
  <2>. QED BY <1>r, <1>2, <2>1 DEF Sound
<1>c. ASSUME NEW passed \in BOOLEAN, passed = TRUE, Conclude(r, passed) PROVE Sound(r)'
  <2>1. /\ ok'[r] = (ok[r] /\ passed)
        /\ \/ place'[r] = "plant"
           \/ place'[r] = IF ok[r] /\ passed THEN "passed" ELSE "failed"
      BY <1>c, ConcludeTypes
  <2>2. ok'[r] /\ place'[r] \in {"plant", "passed"}
      BY <1>c, <1>2, <2>1, Zenon DEF Sound
  <2>. QED BY <2>2 DEF Sound
<1>a. ASSUME place'[r] = "abandoned", UNCHANGED ok PROVE Sound(r)'
    BY <1>2, <1>a DEF Sound
<1>3. CASE Plant(r)
  <2>1. UNCHANGED <<ok, at>>
      BY <1>3 DEF Plant
  <2>2. CASE Raise(r)
      BY <1>r, <2>1, <2>2
  <2>3. CASE /\ Written(r)
             /\ Goto(r, CASE Is(r, "built")     -> "root"
                          [] Is(r, "untracked") -> "check"
                          [] OTHER              -> "stage")
    <3>1. PICK to : to = CASE Is(r, "built")     -> "root"
                           [] Is(r, "untracked") -> "check"
                           [] OTHER              -> "stage"
        OBVIOUS
    <3>2. \/ to = "root"
          \/ to = "check" /\ Is(r, "untracked")
          \/ to = "stage" /\ ~Is(r, "built")
      <4>1. CASE Is(r, "built")
        <5>1. ~Is(r, "untracked")
            BY <4>1 DEF Is
        <5>. QED BY <3>1, <4>1, <5>1
      <4>2. CASE ~Is(r, "built")
          BY <3>1, <4>2
      <4>. QED BY <4>1, <4>2
    <3>3. place'[r] = to
        BY <2>3, <3>1, <1>g
    <3>4. Ctl(r)' = Ctl(r) /\ Mine(r)' = Mine(r) /\ Mine(r) \in planted'
        BY <1>u, <1>m, <2>1, <2>3 DEF Written
    <3>. QED BY <1>2, <2>1, <3>2, <3>3, <3>4 DEF Sound, Is
  <2>. QED BY <1>3, <1>f, <2>2, <2>3 DEF Plant
<1>4. CASE WriteRoot(r)
  <2>1. UNCHANGED <<ok, at, planted>> /\ place[r] = "root"
      BY <1>4 DEF WriteRoot
  <2>2. CASE Raise(r)
      BY <1>r, <2>1, <2>2
  <2>3. CASE root' = original[r] \cup {Mine(r)} /\ Goto(r, "stage")
    <3>1. Ctl(r)' = Ctl(r) /\ Mine(r)' = Mine(r) /\ place'[r] = "stage"
        BY <1>u, <1>m, <1>g, <2>1, <2>3
    <3>2. root' = {Own, Mine(r)} /\ Mine(r) \in planted
        BY <1>1, <1>2, <2>1, <2>3 DEF Course, Sound
    <3>. QED BY <1>2, <2>1, <3>1, <3>2 DEF Sound
  <2>. QED BY <1>4, <2>2, <2>3 DEF WriteRoot
<1>5. CASE Stage(r)
  <2>1. /\ UNCHANGED <<ok, at, planted, root>> /\ place[r] = "stage"
        /\ place'[r] = IF Is(r, "built") THEN "build" ELSE "check"
        /\ Is(r, "throwaway") => copy'[r] = copy[r] \cup {Mine(r)}
        /\ ~Is(r, "throwaway") => staged' = staged \cup {Mine(r)}
      BY <1>5, <1>f, <1>g, <1>t DEF Stage
  <2>2. Ctl(r)' = Ctl(r) /\ Mine(r)' = Mine(r)
      BY <1>u, <1>m, <2>1
  <2>3. Is(r, "staged") => ~Is(r, "throwaway")
      BY DEF Is
  <2>. QED BY <1>2, <2>1, <2>2, <2>3 DEF Sound, Is
<1>6. CASE Build(r)
  <2>1. UNCHANGED <<ok, at, planted, root, copy, staged>> /\ place[r] = "build" /\ Is(r, "built")
      BY <1>2, <1>6 DEF Build, locals, Course
  <2>2. Builds /\ Mine(r) \in root \cap planted
      BY <1>2, <2>1 DEF Sound, Builds
  <2>3. Mine(r) \in olean' /\ place'[r] = "check"
      BY <1>6, <1>f, <1>g, <2>2 DEF Build, Compiled
  <2>4. Ctl(r)' = Ctl(r) /\ Mine(r)' = Mine(r)
      BY <1>u, <1>m, <2>1
  <2>. QED BY <1>2, <2>1, <2>3, <2>4 DEF Sound, Is
<1>7. CASE Check(r)
  <2>1. UNCHANGED <<ok, at>> /\ place[r] = "check" /\ place'[r] \in {"unstage", "unlink"}
      BY <1>7, <1>f, <1>g DEF Check, Cleanup
  <2>2. PICK b : b = IF Is(r, "untracked") THEN GateGreen(r, staged) ELSE TurnedRed(r, Listed(r))
      OBVIOUS
  <2>3. IF Is(r, "untracked") THEN GateGreen(r, staged) ELSE TurnedRed(r, Listed(r))
      BY <1>1, <1>2, <2>1, RedWhenPlanted
  <2>4. b
      BY <2>2, <2>3, Zenon
  <2>5. red'[r] = b
      BY <1>7, <1>f, <1>t, <2>2 DEF Check
  <2>6. red'[r]
      BY <2>4, <2>5, Zenon
  <2>. QED BY <1>2, <2>1, <2>6 DEF Sound
<1>8. CASE Unstage(r)
  <2>1. /\ UNCHANGED <<ok, red, raising>> /\ place[r] = "unstage"
        /\ place'[r] \in {"restore", "unlink"}
      BY <1>8, <1>f, <1>g DEF Unstage, locals
  <2>. QED BY <1>2, <2>1 DEF Sound
<1>9. CASE Restore(r)
  <2>1. /\ UNCHANGED <<ok, red, raising>> /\ place[r] = "restore"
        /\ place'[r] \in {"unlink", "abandoned"}
      BY <1>9, <1>g DEF Restore, locals
  <2>. QED BY <1>2, <1>a, <2>1 DEF Sound
<1>10. CASE Unlink(r)
  <2>1. UNCHANGED <<red, raising>> /\ place[r] = "unlink" /\ (raising[r] \/ red[r])
      BY <1>2, <1>10 DEF Unlink, Sound
  <2>0. CASE Goto(r, "abandoned") /\ UNCHANGED ok
      BY <1>a, <1>g, <2>0
  <2>2. CASE raising[r] /\ Goto(r, "raised") /\ UNCHANGED ok
    <3>1. place'[r] = "raised"
        BY <1>g, <2>2
    <3>. QED BY <1>2, <2>2, <3>1 DEF Sound
  <2>3. CASE ~raising[r] /\ Is(r, "untracked") /\ Conclude(r, red[r])
    <3>1. red[r] = TRUE
        BY <1>t, <2>1, <2>3
    <3>. QED BY <2>3, <3>1, <1>t, <1>c
  <2>4. CASE /\ ~raising[r] /\ ~Is(r, "untracked") /\ UNCHANGED <<ok, at>>
             /\ Goto(r, IF Is(r, "built") THEN "rebuild" ELSE "recheck")
    <3>1. place'[r] = IF Is(r, "built") THEN "rebuild" ELSE "recheck"
        BY <1>g, <2>4
    <3>2. Ctl(r)' = Ctl(r) /\ Mine(r)' = Mine(r)
        BY <1>u, <1>m, <2>4
    <3>. QED BY <1>2, <2>1, <2>4, <3>1, <3>2 DEF Sound, Is
  <2>. QED BY <1>10, <2>0, <2>2, <2>3, <2>4 DEF Unlink
<1>11. CASE Rebuild(r)
  <2>1. /\ place[r] = "rebuild" /\ UNCHANGED red
        /\ root = {Own} /\ Builds
      BY <1>1, <1>2, <1>11 DEF Rebuild, Course, Builds, Whole
  <2>2. Own \notin planted
      BY SelfTestAssumption DEF SelfTypes, SelfTestTypeOK
  <2>3. UNCHANGED <<ok, at>> /\ place'[r] = "recheck" /\ olean' = {}
      BY <1>11, <1>f, <1>g, <2>1, <2>2 DEF Rebuild, Compiled
  <2>. QED BY <1>2, <2>1, <2>3 DEF Sound
<1>12. CASE Recheck(r)
  <2>1. place[r] = "recheck" /\ Conclude(r, red[r] /\ GateGreen(r, staged))
      BY <1>12, <1>f DEF Recheck
  <2>2. GateGreen(r, staged) /\ red[r]
      BY <1>1, <1>2, <2>1, GreenWhenReverted DEF Sound
  <2>3. (red[r] /\ GateGreen(r, staged)) = TRUE
      BY <2>2
  <2>. QED BY <1>c, <2>1, <2>3
<1>13. ~Start(r)
    BY DEF Start, Active, Ended
<1>. QED BY <1>3, <1>4, <1>5, <1>6, <1>7, <1>8, <1>9, <1>10, <1>11, <1>12, <1>13 DEF Step

LEMMA ClearStep ==
    SelfTypes /\ (Alone => Orderly /\ Clear) /\ [SelfTestNext]_selfTestVars => (Alone => Clear)'
<1>. SUFFICES ASSUME SelfTypes, Alone => Orderly /\ Clear, [SelfTestNext]_selfTestVars, Alone'
              PROVE  Clear'
    OBVIOUS
<1>t. place \in [Runs -> Pcs] /\ noises \in Nat /\ \A s \in Runs : s \in Nat
    BY SelfTestAssumption DEF SelfTypes, SelfTestTypeOK
<1>u. UNCHANGED regime
    BY StepOfOne DEF SelfTestNext, OthersRest, KillRun, Develop, SelfTestTerminated,
       selfTestVars, environment
<1>0. Alone /\ Orderly /\ Clear
    BY <1>u DEF Alone
<1>1. ASSUME NEW r \in Runs, Step(r) PROVE Clear'
  <2>1. OthersRest(r) /\ place'[r] \notin {"idle", "killed"}
      BY <1>1, StepOfOne, StepPlaces
  <2>b. ASSUME NEW s \in Runs, Undisturbed(s)' PROVE Undisturbed(s)
    <3>1. r \notin BrokenOff
        BY <1>1, StepPlaces DEF BrokenOff, Active, Ended
    <3>2. BrokenOff \subseteq BrokenOff'
        BY <2>1, <3>1 DEF BrokenOff, OthersRest
    <3>. QED BY <2>b, <3>2 DEF Undisturbed
  <2>2. ASSUME Healthy, NEW s \in Runs \ {r}, Undisturbed(s)' PROVE Sound(s)'
    <3>1. ~Active(s) /\ Sound(s)
      <4>1. CASE Active(r)
          BY <1>0, <2>2, <2>b, <4>1, OneAtATime DEF Orderly, Clear
      <4>2. CASE ~Active(r)
          BY <1>0, <1>1, <2>2, <2>b, <4>2, StepPlaces DEF Start, Alone, Clear
      <4>. QED BY <4>1, <4>2
    <3>. QED BY <2>1, <3>1 DEF OthersRest, Active, Ended, Sound
  <2>3. ASSUME Healthy, Undisturbed(r)' PROVE Sound(r)'
    <3>1. CASE Active(r)
        BY <1>0, <1>1, <2>3, <2>b, <3>1, SoundStep
    <3>2. CASE ~Active(r)
      <4>1. Start(r)
          BY <1>1, <3>2, StepPlaces
      <4>2. place'[r] = "plant" /\ UNCHANGED ok
          BY <1>t, <4>1 DEF Start, Goto, locals
      <4>. QED BY <1>0, <2>3, <2>b, <4>2 DEF Clear, Sound
    <3>. QED BY <3>1, <3>2
  <2>4. Healthy' => Healthy
      BY <1>u, <2>1 DEF Healthy, OthersRest, Fails
  <2>. QED BY <1>0, <2>1, <2>2, <2>3, <2>4 DEF Clear, OthersRest
<1>2. ASSUME NEW r \in Runs, KillRun(r) PROVE Clear'
  <2>1. /\ UNCHANGED <<noise, noises, blind, at, ok>> /\ Active(r)
        /\ place'[r] = "killed" /\ \A s \in Runs \ {r} : place'[s] = place[s]
      BY <1>2, <1>t DEF KillRun, locals, Goto
  <2>2. ASSUME Healthy, NEW s \in Runs, Undisturbed(s)' PROVE Sound(s)'
    <3>1. BrokenOff \subseteq BrokenOff'
        BY <2>1 DEF BrokenOff, Active, Ended
    <3>2. Sound(s)
        BY <1>0, <2>2, <3>1 DEF Clear, Undisturbed
    <3>3. ~Active(s)'
        BY <1>0, <2>1, OneAtATime DEF Orderly, Active, Ended
    <3>. QED BY <2>1, <3>2, <3>3 DEF Sound, Active, Ended
  <2>3. Healthy' => Healthy
      BY <1>u, <2>1 DEF Healthy, Fails
  <2>. QED BY <1>0, <2>1, <2>2, <2>3 DEF Clear
<1>3. CASE Develop
  <2>1. noises' > 0
      BY <1>3, <1>t DEF Develop
  <2>. QED BY <2>1 DEF Clear, Healthy
<1>4. CASE UNCHANGED selfTestVars
  <2>1. UNCHANGED <<planted, staged, root, olean, regime, blind, noise, noises, place, at,
                    original, copy, red, raising, ok>>
      BY <1>4 DEF selfTestVars, checkout, environment, locals
  <2>2. \A s \in Runs : Sound(s) => Sound(s)'
      BY <2>1 DEF Sound, Is, Mine, Ctl, Plan
  <2>3. \A s \in Runs : Undisturbed(s)' => Undisturbed(s)
      BY <2>1 DEF Undisturbed, BrokenOff
  <2>. QED BY <1>0, <2>1, <2>2, <2>3 DEF Clear, Healthy, Fails
<1>. QED BY <1>1, <1>2, <1>3, <1>4 DEF SelfTestNext, SelfTestTerminated

LEMMA CheckoutInvariant == SelfTestSpec => [](SelfTypes /\ (Alone => Orderly /\ Clear))
<1>. DEFINE I == SelfTypes /\ (Alone => Orderly /\ Clear)
<1>1. SelfTestInit => I
    BY SelfTypesStart, OrderlyStart, ClearStart
<1>2. I /\ [SelfTestNext]_selfTestVars => I'
    BY SelfTypesStep, OrderlyStep, ClearStep
<1>. QED BY <1>1, <1>2, PTL DEF SelfTestSpec

(* For every plan of controls, every number of runs, kills and operations  *)
(* that fail, and every developer at work beside them: runs that follow    *)
(* one another leave the checkout as they found it unless they break off   *)
(* (are killed, or cannot write or remove a file in the finally clause);   *)
(* a control that was run to its end leaves nothing of its probe even      *)
(* after one that broke off; what lies about is the probe of a run that is *)
(* in it or broke off in it; and gates that work and answer in time pass.  *)
THEOREM SelfTestsLeaveTheCheckout == Spec => []CheckoutInv
<1>1. SelfTypes /\ (Alone => Orderly /\ Clear) => CheckoutInv
  <2>. SUFFICES ASSUME SelfTypes, Alone => Orderly /\ Clear PROVE CheckoutInv
      OBVIOUS
  <2>1. EndedIsClean
    <3>. SUFFICES ASSUME Alone, BrokenOff = {}, \A r \in Runs : ~Active(r)
                  PROVE  Dirt = {} /\ root = {Own}
        BY DEF EndedIsClean
    <3>1. Left = {} /\ ~Wrecked
        BY DEF Left, Wrecked
    <3>2. Dirt = {} /\ Own \in root
        BY <3>1 DEF Orderly, Whole
    <3>. QED BY <3>2 DEF Dirt
  <2>2. CompletedIsClean
      BY DEF CompletedIsClean, Orderly, CleanBehind, Probes
  <2>3. DirtIsAccounted
    <3>. DEFINE accountable == {r \in Runs : Active(r)} \cup BrokenOff
    <3>. SUFFICES ASSUME Alone
                  PROVE  /\ Dirt \subseteq {Mine(r) : r \in accountable}
                         /\ Own \in root \/ \E r \in accountable : Is(r, "built")
        BY DEF DirtIsAccounted
    <3>1. Dirt \subseteq Left \/ \E r \in Runs : Active(r) /\ Dirt \subseteq Left \cup {Mine(r)}
        BY DEF Orderly, Course
    <3>2. Dirt \subseteq {Mine(r) : r \in accountable}
        BY <3>1 DEF Left
    <3>3. Own \in root \/ Wrecked \/ \E r \in Runs : Active(r) /\ Is(r, "built")
        BY DEF Orderly, Course, Whole
    <3>4. Own \in root \/ \E r \in accountable : Is(r, "built")
        BY <3>3 DEF Wrecked
    <3>. QED BY <3>2, <3>4
  <2>4. WorkingGatesPass
    <3>. SUFFICES ASSUME Alone, ~Fails("timeout"), NEW r \in Runs, place[r] = "failed",
                         blind = {}, ~(noises > 0), \A s \in BrokenOff : ~(s < r)
                  PROVE  FALSE
        BY DEF WorkingGatesPass
    <3>1. noises \in Nat
        BY SelfTestAssumption DEF SelfTypes, SelfTestTypeOK
    <3>2. Healthy /\ Undisturbed(r)
        BY <3>1 DEF Healthy, Undisturbed
    <3>. QED BY <3>2 DEF Clear, Sound
  <2>. QED BY <2>1, <2>2, <2>3, <2>4 DEF CheckoutInv, SelfTypes
<1>. QED BY <1>1, ScriptBehaves, CheckoutInvariant, PTL

-----------------------------------------------------------------------------
(* The walk of the orphan gate                                             *)

(* The roots are those of the lakefile, and errors says what it must.      *)
Derived ==
    /\ roots = DerivedRoots
    /\ errors <=> DerivationErrors \/ MissingRoots(DerivedRoots)

(* Breadth first: a frontier is one layer, what it leads to the next, and  *)
(* nothing found is deeper.                                                *)
Layered ==
    /\ \A a, b \in frontier : depth[a] = depth[b]
    /\ \A a, b \in nxt : depth[a] = depth[b]
    /\ \A x \in DOMAIN depth, b \in nxt : depth[x] <= depth[b]
    /\ \A x \in DOMAIN depth \ nxt, b \in frontier : depth[x] <= depth[b]

(* Every file found lies at the end of a path of that length; every root   *)
(* was found, and whatever a file imports that was read.                   *)
Explored ==
    /\ \A m \in DOMAIN depth : Path(tree, depth[m], m) /\ m \in Reachable(tree)
    /\ \A m \in DeclaredModules : m \in DOMAIN depth /\ depth[m] = 0
    /\ \A m \in DOMAIN depth \ (frontier \cup nxt) : \A i \in tree[m] \cap tracked :
          i \in DOMAIN depth /\ depth[i] <= depth[m] + 1

Raised == code = 1 /\ orphans = {} /\ (files = {} \/ frontier # {})

Finished ==
    /\ pc = "ended" /\ frontier = {} /\ nxt = {}
    /\ orphans = {[module |-> m, owner |-> OwningLibrary(m)] : m \in files \ DOMAIN depth}
    /\ code = ResultExitCode(orphans, errors)

Walking == pc \in {"walk", "report"} \/ Finished

WalkTypes ==
    /\ OrphanTypeOK
    /\ lakefile \in Seq(Rows)
    /\ pc \in {"list", "roots", "walk", "report", "ended"}
    /\ Layered
    /\ edits = 0 => tree = index
    /\ pc = "list" => files = {}
    /\ pc \in {"list", "roots"} => DOMAIN depth = {} /\ errors = FALSE
    /\ pc # "list" => files = tracked \/ (pc = "ended" /\ Raised)
    /\ pc = "report" => frontier = {} /\ nxt = {}
    /\ pc # "ended" => orphans = {}
    /\ pc = "ended" => Raised \/ Finished

WalkOK ==
    /\ WalkTypes
    /\ Walking => files = tracked /\ Derived /\ (edits = 0 => Explored)

(* Every nonempty set of natural numbers has a least element.              *)
LEMMA LeastNat ==
    ASSUME NEW T \in SUBSET Nat, T # {}
    PROVE  \E n \in T : \A m \in T : n <= m
<1>. DEFINE Below == {p \in Nat \X Nat : p[1] < p[2]}
<1>1. IsWellFoundedOn(Below, Nat)
    BY NatLessThanWellFounded DEF OpToRel
<1>2. \A m, n \in Nat : m < n => <<m, n>> \in Below
    OBVIOUS
<1>. HIDE DEF Below
<1>3. PICK n \in T : \A m \in T : <<m, n>> \notin Below
    BY <1>1, WFMin
<1>4. \A m \in T : ~(m < n)
    BY <1>2, <1>3
<1>. QED BY <1>4

(* A bounded one has a greatest.                                           *)
LEMMA GreatestNat ==
    ASSUME NEW T \in SUBSET Nat, T # {}, NEW bound \in Nat, \A n \in T : n <= bound
    PROVE  \E n \in T : \A m \in T : m <= n
<1>. DEFINE D == {k \in Nat : \E n \in T : k = bound - n}
<1>0. \A n \in T : bound - n \in D
    OBVIOUS
<1>1. D \in SUBSET Nat /\ D # {}
    BY <1>0
<1>2. PICK k \in D : \A j \in D : k <= j
    BY <1>1, LeastNat
<1>3. PICK n \in T : k = bound - n
    BY <1>2
<1>4. ASSUME NEW m \in T PROVE m <= n
  <2>1. k <= bound - m
      BY <1>0, <1>2
  <2>. QED BY <1>3, <2>1
<1>. QED BY <1>4

(* What the lakefile says depends on nothing else.                         *)
LEMMA RootsStay ==
    ASSUME UNCHANGED lakefile
    PROVE  /\ DerivedRoots' = DerivedRoots /\ (DerivationErrors' <=> DerivationErrors)
<1>1. \A table : Tables(table)' = Tables(table)
    BY DEF Tables
<1>2. ASSUME NEW j, NEW key PROVE Value(j, key)' = Value(j, key)
  <2>1. Says(j, key)' = Says(j, key)
      BY DEF Says, Within
  <2>. QED BY <2>1 DEF Value
<1>3. LibRoots' = LibRoots
    BY <1>1, <1>2 DEF LibRoots
<1>4. ExeRoots' = ExeRoots
    BY <1>1, <1>2 DEF ExeRoots
<1>5. DerivedRoots' = DerivedRoots
    BY <1>3, <1>4 DEF DerivedRoots
<1>. QED BY <1>1, <1>2, <1>5 DEF DerivationErrors

LEMMA DeclaredStay ==
    ASSUME UNCHANGED <<lakefile, tracked>> PROVE DeclaredModules' = DeclaredModules
BY RootsStay DEF DeclaredModules

LEMMA PathsStay ==
    ASSUME UNCHANGED <<lakefile, tracked, tree>>
    PROVE  /\ \A n, m : Path(tree, n, m)' <=> Path(tree, n, m)
           /\ Reachable(tree)' = Reachable(tree)
BY DeclaredStay DEF Path, Reachable

LEMMA OwnersStay ==
    ASSUME UNCHANGED roots, NEW m PROVE OwningLibrary(m)' = OwningLibrary(m)
<1>1. LibraryPrefixes(m)' = LibraryPrefixes(m)
    BY DEF LibraryPrefixes
<1>. QED BY <1>1 DEF OwningLibrary

LEMMA WalkStart == OrphanInit => WalkOK
<1>. SUFFICES ASSUME OrphanInit PROVE WalkOK
    OBVIOUS
<1>1. depth \in [{} -> Nat] /\ DOMAIN depth = {}
    BY DEF OrphanInit
<1>. QED BY <1>1, OrphanAssumption DEF OrphanInit, WalkOK, WalkTypes, Layered, OrphanTypeOK, Walking, Finished

LEMMA WalkTypesStep == WalkTypes /\ [OrphanNext]_orphanVars => WalkTypes'
<1>. SUFFICES ASSUME WalkTypes, [OrphanNext]_orphanVars PROVE WalkTypes'
    OBVIOUS
<1>. USE DEF WalkTypes, OrphanTypeOK, Layered
<1>1. CASE ListTracked
    BY <1>1 DEF ListTracked, inputs, Raised
<1>2. CASE DeriveRoots
  <2>1. /\ frontier' \subseteq files /\ depth' = [m \in frontier' |-> 0]
        /\ UNCHANGED <<lakefile, index, tree, tracked, edits, files, nxt, orphans, code>>
        /\ pc = "roots" /\ pc' = "walk"
      BY <1>2 DEF DeriveRoots, inputs
  <2>2. depth' \in [frontier' -> Nat] /\ DOMAIN depth' = frontier'
      BY <2>1
  <2>3. nxt = {}
      BY <2>1
  <2>. QED BY <2>1, <2>2, <2>3
<1>3. ASSUME NEW m \in Names, ReadImports(m) PROVE WalkTypes'
  <2>1. /\ UNCHANGED <<lakefile, index, tree, tracked, edits, files, pc, orphans, code>>
        /\ pc = "walk" /\ m \in frontier /\ tree[m] # Gone
        /\ nxt' = nxt \cup Discovered(m) /\ frontier' = frontier \ {m}
        /\ depth' = [i \in DOMAIN depth \cup Discovered(m) |->
                       IF i \in DOMAIN depth THEN depth[i] ELSE DepthBelow(m)]
      BY <1>3 DEF ReadImports, inputs
  <2>2. DepthBelow(m) \in Nat
      BY <2>1 DEF DepthBelow
  <2>3. /\ DOMAIN depth' = DOMAIN depth \cup Discovered(m)
        /\ depth' \in [DOMAIN depth \cup Discovered(m) -> Nat]
      BY <2>1, <2>2
  <2>4. Discovered(m) \subseteq files /\ Discovered(m) \cap DOMAIN depth = {}
      BY DEF Discovered
  <2>5. /\ \A k \in DOMAIN depth : depth'[k] = depth[k]
        /\ \A k \in Discovered(m) : depth'[k] = depth[m] + 1
      BY <2>1, <2>4 DEF DepthBelow
  <2>6. \A k \in frontier : depth[k] = depth[m]
      BY <2>1
  <2>7. \A k \in nxt : depth[k] = depth[m] + 1
      BY <2>1
  <2>8. \A k \in DOMAIN depth \ nxt : depth[k] <= depth[m]
      BY <2>1
  <2>9. \A k \in DOMAIN depth' : IF k \in nxt' THEN depth'[k] = depth[m] + 1
                                                 ELSE depth'[k] <= depth[m]
      BY <2>1, <2>3, <2>5, <2>7, <2>8
  <2>10. \A k \in frontier' : k \in DOMAIN depth /\ depth'[k] = depth[m] /\ k \notin nxt'
      BY <2>1, <2>4, <2>5, <2>6, <2>7
  <2>11. frontier' \cup nxt' \subseteq DOMAIN depth' /\ DOMAIN depth' \subseteq files
      BY <2>1, <2>3, <2>4
  <2>12. depth[m] \in Nat /\ \A k \in DOMAIN depth' : depth'[k] \in Nat
      BY <2>1, <2>3
  <2>13. Layered'
    <3>1. \A a, b \in frontier' : depth'[a] = depth'[b]
        BY <2>10
    <3>2. \A a, b \in nxt' : depth'[a] = depth'[b]
        BY <2>9, <2>11
    <3>3. \A x \in DOMAIN depth', b \in nxt' : depth'[x] <= depth'[b]
      <4>. TAKE x \in DOMAIN depth', b \in nxt'
      <4>1. depth'[b] = depth[m] + 1
          BY <2>9, <2>11
      <4>2. depth'[x] <= depth[m] + 1
          BY <2>9, <2>12
      <4>. QED BY <4>1, <4>2
    <3>4. \A x \in DOMAIN depth' \ nxt', b \in frontier' : depth'[x] <= depth'[b]
        BY <2>9, <2>10, <2>11
    <3>. QED BY <3>1, <3>2, <3>3, <3>4
  <2>. QED BY <2>1, <2>3, <2>9, <2>10, <2>11, <2>12, <2>13
<1>4. ASSUME NEW m \in Names, ReadRaises(m) PROVE WalkTypes'
    BY <1>4 DEF ReadRaises, inputs, Raised
<1>5. CASE NextFrontier
    BY <1>5 DEF NextFrontier, inputs
<1>6. CASE Report
  <2>1. \A m : OwningLibrary(m)' = OwningLibrary(m)
      BY <1>6, OwnersStay DEF Report
  <2>2. /\ UNCHANGED <<lakefile, index, tree, tracked, edits, files, depth, frontier, nxt>>
        /\ pc = "report" /\ pc' = "ended" /\ code' = ResultExitCode(orphans', errors')
        /\ orphans' = {[module |-> m, owner |-> OwningLibrary(m)] : m \in files \ DOMAIN depth}
      BY <1>6 DEF Report, inputs
  <2>3. Finished'
      BY <2>1, <2>2 DEF Finished
  <2>. QED BY <2>2, <2>3 DEF ResultExitCode
<1>7. ASSUME NEW m \in Names, Edit(m) PROVE WalkTypes'
  <2>1. edits' \in 0 .. MaxEdits /\ edits' # 0
      BY <1>7, OrphanAssumption DEF Edit
  <2>2. tree' \in [Names -> SUBSET Names \cup {Gone}]
      BY <1>7 DEF Edit
  <2>. QED BY <1>7, <2>1, <2>2 DEF Edit
<1>8. CASE UNCHANGED orphanVars
  <2>1. UNCHANGED <<lakefile, index, tree, tracked, edits, pc, files, roots, errors, depth,
                    frontier, nxt, orphans, code>>
      BY <1>8 DEF orphanVars, inputs
  <2>2. Finished => Finished'
      BY <2>1, OwnersStay DEF Finished
  <2>. QED BY <2>1, <2>2 DEF Raised
<1>. QED BY <1>1, <1>2, <1>3, <1>4, <1>5, <1>6, <1>7, <1>8 DEF OrphanNext, OrphanTerminated

(* An import leads one step further.                                       *)
LEMMA PathExtends ==
    ASSUME NEW graph, NEW n \in Nat, NEW m, Path(graph, n, m),
           NEW i \in Names, i \in graph[m] \cap tracked
    PROVE  Path(graph, n + 1, i)
<1>1. PICK p \in [0 .. n -> Names] :
        /\ p[0] \in DeclaredModules /\ p[n] = m
        /\ \A k \in 1 .. n : p[k] \in graph[p[k - 1]] \cap tracked
    BY DEF Path
<1>. DEFINE q == [k \in 0 .. n + 1 |-> IF k = n + 1 THEN i ELSE p[k]]
<1>2. q \in [0 .. n + 1 -> Names] /\ q[n + 1] = i /\ \A k \in 0 .. n : q[k] = p[k]
    OBVIOUS
<1>. HIDE DEF q
<1>3. ASSUME NEW k \in 1 .. n + 1 PROVE q[k] \in graph[q[k - 1]] \cap tracked
    BY <1>1, <1>2, <1>3
<1>. QED BY <1>1, <1>2, <1>3 DEF Path

LEMMA ReachExtends ==
    ASSUME NEW graph, NEW m \in Reachable(graph), NEW i \in Names, i \in graph[m] \cap tracked
    PROVE  i \in Reachable(graph)
BY DEF Reachable

(* A set with the roots and what it imports has whatever can be reached.   *)
LEMMA ReachLeast ==
    ASSUME NEW graph, NEW set \in SUBSET Names, DeclaredModules \subseteq set,
           \A x \in set : graph[x] \cap tracked \subseteq set
    PROVE  Reachable(graph) \subseteq set
BY DEF Reachable

(* The whole of what a step of the walk must keep, for the steps that      *)
(* leave the lakefile, the trees and git's list alone.                     *)
LEMMA ExploredStays ==
    ASSUME Explored, UNCHANGED <<lakefile, tracked, tree, depth>>,
           (frontier \cup nxt)' = frontier \cup nxt
    PROVE  Explored'
<1>1. DeclaredModules' = DeclaredModules
    BY DeclaredStay
<1>2. ASSUME NEW m \in DOMAIN depth PROVE Path(tree, depth[m], m)'
  <2>1. Path(tree, depth[m], m)
      BY DEF Explored
  <2>. QED BY <2>1, <1>1 DEF Path
<1>3. Reachable(tree)' = Reachable(tree)
    BY PathsStay
<1>. QED BY <1>1, <1>2, <1>3 DEF Explored

LEMMA DerivedStays ==
    ASSUME Derived, UNCHANGED <<lakefile, files, roots, errors>> PROVE Derived'
<1>1. DerivedRoots' = DerivedRoots /\ (DerivationErrors' <=> DerivationErrors)
    BY RootsStay
<1>2. MissingRoots(DerivedRoots)' <=> MissingRoots(DerivedRoots)
    BY <1>1 DEF MissingRoots
<1>. QED BY <1>1, <1>2 DEF Derived

LEMMA ExploredStart ==
    ASSUME WalkTypes, DeriveRoots PROVE files' = tracked' /\ Derived' /\ (edits' = 0 => Explored')
<1>1. /\ UNCHANGED <<lakefile, index, tree, tracked, edits, files, nxt, orphans, code>>
      /\ pc = "roots" /\ roots' = DerivedRoots
      /\ errors' = (DerivationErrors \/ MissingRoots(DerivedRoots))
      /\ frontier' = {r.module : r \in DerivedRoots} \cap files
      /\ depth' = [m \in frontier' |-> 0]
    BY DEF DeriveRoots, inputs
<1>2. files = tracked /\ tracked \subseteq Names /\ DOMAIN depth = {} /\ nxt = {}
    BY <1>1 DEF WalkTypes, OrphanTypeOK
<1>3. DerivedRoots' = DerivedRoots /\ (DerivationErrors' <=> DerivationErrors)
    BY <1>1, RootsStay
<1>4. MissingRoots(DerivedRoots)' <=> MissingRoots(DerivedRoots)
    BY <1>1, <1>3 DEF MissingRoots
<1>5. Derived'
    BY <1>1, <1>3, <1>4 DEF Derived
<1>6. DeclaredModules' = frontier' /\ DOMAIN depth' = frontier' /\ frontier' \subseteq Names
    BY <1>1, <1>2, <1>3 DEF DeclaredModules
<1>7. ASSUME NEW m \in frontier' PROVE Path(tree, depth[m], m)' /\ m \in Reachable(tree)'
  <2>1. depth'[m] = 0
      BY <1>1
  <2>. DEFINE p == [i \in 0 .. 0 |-> m]
  <2>2. p \in [0 .. 0 -> Names] /\ p[0] = m /\ 1 .. 0 = {}
      BY <1>6
  <2>3. Path(tree, depth[m], m)'
      BY <1>6, <2>1, <2>2 DEF Path
  <2>. QED BY <1>6, <2>3 DEF Reachable
<1>8. \A m \in frontier' : depth'[m] = 0
    BY <1>1
<1>9. Explored'
    BY <1>2, <1>6, <1>7, <1>8 DEF Explored
<1>. QED BY <1>1, <1>2, <1>5, <1>9

(* Reading a file keeps the walk exact: what it discovers lies one import  *)
(* further, and what it imports besides is no deeper.                      *)
LEMMA ExploredReads ==
    ASSUME WalkTypes, files = tracked, edits = 0, Explored,
           NEW m \in Names, ReadImports(m)
    PROVE  Explored'
<1>. USE DEF WalkTypes, OrphanTypeOK
<1>1. /\ UNCHANGED <<lakefile, index, tree, tracked, edits, files, pc, orphans, code>>
      /\ pc = "walk" /\ m \in frontier
      /\ nxt' = nxt \cup Discovered(m) /\ frontier' = frontier \ {m}
      /\ depth' = [i \in DOMAIN depth \cup Discovered(m) |->
                     IF i \in DOMAIN depth THEN depth[i] ELSE DepthBelow(m)]
    BY DEF ReadImports, inputs
<1>2. m \in DOMAIN depth /\ depth[m] \in Nat /\ tree[m] \subseteq Names /\ tracked \subseteq Names
    BY <1>1
<1>3. /\ DOMAIN depth' = DOMAIN depth \cup Discovered(m)
      /\ Discovered(m) = (tree[m] \cap tracked) \ DOMAIN depth
      /\ \A k \in DOMAIN depth : depth'[k] = depth[k]
      /\ \A k \in Discovered(m) : depth'[k] = depth[m] + 1
    BY <1>1 DEF DepthBelow, Discovered
<1>4. DeclaredModules' = DeclaredModules /\ Reachable(tree)' = Reachable(tree)
    BY <1>1, DeclaredStay, PathsStay
<1>5. ASSUME NEW k \in DOMAIN depth' PROVE Path(tree, depth[k], k)' /\ k \in Reachable(tree)'
  <2>1. Path(tree, depth'[k], k) /\ k \in Reachable(tree)
    <3>1. CASE k \in DOMAIN depth
        BY <1>3, <3>1 DEF Explored
    <3>2. CASE k \in Discovered(m)
      <4>1. Path(tree, depth[m], m) /\ m \in Reachable(tree)
          BY <1>2 DEF Explored
      <4>2. k \in Names /\ k \in tree[m] \cap tracked
          BY <1>2, <1>3, <3>2
      <4>3. Path(tree, depth[m] + 1, k)
          BY <1>2, <4>1, <4>2, PathExtends
      <4>. QED BY <1>3, <3>2, <4>1, <4>2, <4>3, ReachExtends
    <3>. QED BY <1>3, <3>1, <3>2
  <2>. QED BY <1>1, <1>4, <2>1 DEF Path
<1>6. \A k \in DeclaredModules' : k \in DOMAIN depth' /\ depth'[k] = 0
    BY <1>3, <1>4 DEF Explored
<1>7. ASSUME NEW k \in DOMAIN depth' \ (frontier' \cup nxt'), NEW i \in tree'[k] \cap tracked'
      PROVE  i \in DOMAIN depth' /\ depth'[i] <= depth'[k] + 1
  <2>1. k \in DOMAIN depth /\ k \notin nxt
      BY <1>1, <1>3
  <2>2. CASE k = m
    <3>1. i \in DOMAIN depth'
        BY <1>1, <1>3, <2>2
    <3>2. depth'[i] <= depth[m] + 1
      <4>1. CASE i \in Discovered(m)
          BY <1>2, <1>3, <4>1
      <4>2. CASE i \in nxt
          BY <1>1, <1>2, <1>3, <4>2
      <4>3. CASE i \in DOMAIN depth \ nxt
        <5>1. depth[i] <= depth[m] /\ depth[i] \in Nat
            BY <1>1, <4>3 DEF Layered
        <5>. QED BY <1>2, <1>3, <4>3, <5>1
      <4>. QED BY <1>3, <3>1, <4>1, <4>2, <4>3
    <3>. QED BY <1>2, <1>3, <2>2, <3>1, <3>2
  <2>3. CASE k # m
    <3>1. k \notin frontier \cup nxt
        BY <1>1, <2>1, <2>3
    <3>2. i \in DOMAIN depth /\ depth[i] <= depth[k] + 1
        BY <1>1, <2>1, <3>1 DEF Explored
    <3>. QED BY <1>3, <2>1, <3>2
  <2>. QED BY <2>2, <2>3
<1>. QED BY <1>5, <1>6, <1>7 DEF Explored

LEMMA WalkStep == WalkOK /\ [OrphanNext]_orphanVars => WalkOK'
<1>. SUFFICES ASSUME WalkOK, [OrphanNext]_orphanVars PROVE WalkOK'
    OBVIOUS
<1>. DEFINE Goal == files = tracked /\ Derived /\ (edits = 0 => Explored)
<1>0. WalkTypes /\ WalkTypes'
    BY WalkTypesStep DEF WalkOK
<1>. SUFFICES ASSUME Walking' PROVE Goal'
    BY <1>0 DEF WalkOK
<1>a. Walking => Goal
    BY DEF WalkOK
<1>1. CASE ListTracked
  <2>1. pc' = "ended" /\ code' = 1 /\ errors' = FALSE /\ orphans' = {}
      BY <1>0, <1>1 DEF ListTracked, Walking, Finished, WalkTypes
  <2>2. code' = 0
      BY <2>1 DEF Walking, Finished, ResultExitCode
  <2>. QED BY <2>1, <2>2
<1>2. CASE DeriveRoots
    BY <1>0, <1>2, ExploredStart
<1>3. ASSUME NEW m \in Names, ReadImports(m) PROVE Goal'
  <2>1. UNCHANGED <<lakefile, tracked, edits, files, roots, errors>> /\ Goal
      BY <1>a, <1>3 DEF ReadImports, inputs, Walking
  <2>. QED BY <1>0, <1>3, <2>1, DerivedStays, ExploredReads
<1>4. ASSUME NEW m \in Names, ReadRaises(m) PROVE Goal'
    BY <1>4 DEF ReadRaises, Walking, Finished
<1>5. CASE NextFrontier
  <2>1. /\ UNCHANGED <<lakefile, tracked, tree, edits, files, roots, errors, depth>> /\ Goal
        /\ (frontier \cup nxt)' = frontier \cup nxt
      BY <1>a, <1>5 DEF NextFrontier, inputs, Walking
  <2>. QED BY <2>1, DerivedStays, ExploredStays
<1>6. CASE Report
  <2>1. /\ UNCHANGED <<lakefile, tracked, tree, edits, files, roots, errors, depth, frontier, nxt>>
        /\ Goal
      BY <1>a, <1>6 DEF Report, inputs, Walking
  <2>. QED BY <2>1, DerivedStays, ExploredStays
<1>7. ASSUME NEW m \in Names, Edit(m) PROVE Goal'
  <2>1. edits' # 0
      BY <1>0, <1>7 DEF Edit, WalkTypes, OrphanTypeOK
  <2>2. UNCHANGED <<lakefile, tracked, files, roots, errors>> /\ Goal
      BY <1>a, <1>7 DEF Edit, Walking, Finished
  <2>. QED BY <2>1, <2>2, DerivedStays
<1>8. CASE UNCHANGED orphanVars
  <2>1. UNCHANGED <<lakefile, index, tree, tracked, edits, pc, files, roots, errors, depth,
                    frontier, nxt, orphans, code>>
      BY <1>8 DEF orphanVars, inputs
  <2>2. Finished' => Finished
      BY <2>1, OwnersStay DEF Finished
  <2>3. Goal
      BY <1>a, <2>1, <2>2 DEF Walking
  <2>. QED BY <2>1, <2>3, DerivedStays, ExploredStays
<1>. QED BY <1>1, <1>2, <1>3, <1>4, <1>5, <1>6, <1>7, <1>8 DEF OrphanNext, OrphanTerminated

LEMMA WalkInvariant == OrphanSpec => []WalkOK
BY WalkStart, WalkStep, PTL DEF OrphanSpec

(* A walk that came to its end is exact.                                   *)
LEMMA WalkIsExact ==
    ASSUME WalkOK, edits = 0, Walking, frontier = {}, nxt = {}
    PROVE  /\ DOMAIN depth = Reachable(tree)
           /\ \A m \in DOMAIN depth : /\ Path(tree, depth[m], m)
                                      /\ \A n \in 0 .. depth[m] - 1 : ~Path(tree, n, m)
<1>. USE DEF WalkTypes, OrphanTypeOK
<1>1. WalkTypes /\ Explored /\ files = tracked /\ DOMAIN depth \in SUBSET Names
    BY DEF WalkOK
<1>2. \A x \in DOMAIN depth : \A i \in tree[x] \cap tracked :
         i \in DOMAIN depth /\ depth[i] <= depth[x] + 1
    BY <1>1 DEF Explored
<1>3. DOMAIN depth \subseteq Reachable(tree) /\ DeclaredModules \subseteq DOMAIN depth
    BY <1>1 DEF Explored
<1>4. DOMAIN depth = Reachable(tree)
  <2>1. \A x \in DOMAIN depth : tree[x] \cap tracked \subseteq DOMAIN depth
      BY <1>2
  <2>. HIDE DEF WalkTypes, OrphanTypeOK
  <2>2. Reachable(tree) \subseteq DOMAIN depth
      BY <1>1, <1>3, <2>1, ReachLeast
  <2>. QED BY <1>3, <2>2
<1>5. ASSUME NEW m \in DOMAIN depth, NEW n \in 0 .. depth[m] - 1, Path(tree, n, m)
      PROVE  FALSE
  <2>1. depth \in [DOMAIN depth -> Nat] /\ depth[m] \in Nat /\ n \in Nat /\ n < depth[m]
      BY <1>1
  <2>2. PICK p \in [0 .. n -> Names] :
          /\ p[0] \in DeclaredModules /\ p[n] = m
          /\ \A i \in 1 .. n : p[i] \in tree[p[i - 1]] \cap tracked
      BY <1>5 DEF Path
  <2>. DEFINE Late == {i \in 0 .. n : ~(p[i] \in DOMAIN depth /\ depth[p[i]] <= i)}
  <2>3. Late \in SUBSET Nat /\ n \in Late
      BY <2>1, <2>2
  <2>4. PICK i \in Late : \A k \in Late : i <= k
      BY <2>3, LeastNat
  <2>5. i # 0
      BY <1>1, <2>2 DEF Explored
  <2>6. i - 1 \in 0 .. n /\ i - 1 \notin Late /\ i \in 1 .. n /\ (i - 1) + 1 = i
      BY <2>1, <2>4, <2>5
  <2>7. p[i - 1] \in DOMAIN depth /\ depth[p[i - 1]] <= i - 1
      BY <2>6
  <2>8. p[i] \in DOMAIN depth /\ depth[p[i]] <= depth[p[i - 1]] + 1
      BY <1>2, <2>2, <2>6, <2>7
  <2>9. depth[p[i]] \in Nat /\ depth[p[i - 1]] \in Nat
      BY <2>1, <2>7, <2>8
  <2>10. i \notin Late
      BY <2>6, <2>7, <2>8, <2>9
  <2>. QED BY <2>4, <2>10
<1>. QED BY <1>1, <1>4, <1>5 DEF Explored

(* A module that has a library has a root that is one.                     *)
LEMMA OwnerIsARoot ==
    ASSUME NEW m \in Names, OwningLibrary(m) # <<>>, roots = DerivedRoots,
           \A r \in roots : r.module \in Seq(STRING)
    PROVE  \E r \in DerivedRoots : r.module = OwningLibrary(m)
<1>1. LibraryPrefixes(m) # {} /\ OwningLibrary(m) = Longest(LibraryPrefixes(m))
    BY DEF OwningLibrary
<1>2. \A p \in LibraryPrefixes(m) : p \in Seq(STRING) /\ Len(p) <= Len(m)
    BY DEF LibraryPrefixes, IsPrefix
<1>3. m \in Seq(STRING) /\ Len(m) \in Nat
    BY OrphanAssumption
<1>. DEFINE T == {n \in Nat : \E p \in LibraryPrefixes(m) : n = Len(p)}
<1>4. T \in SUBSET Nat /\ T # {} /\ \A n \in T : n <= Len(m)
    BY <1>1, <1>2
<1>5. PICK n \in T : \A k \in T : k <= n
    BY <1>3, <1>4, GreatestNat
<1>6. PICK p \in LibraryPrefixes(m) : n = Len(p)
    BY <1>5
<1>7. \A q \in LibraryPrefixes(m) : Len(q) <= Len(p)
    BY <1>2, <1>5, <1>6
<1>8. OwningLibrary(m) \in LibraryPrefixes(m)
    BY <1>1, <1>6, <1>7 DEF Longest
<1>. QED BY <1>8 DEF LibraryPrefixes

(* The rows the lakefile's tables take their values from.                  *)
LEMMA ValueIsOnARow ==
    ASSUME lakefile \in Seq(Rows), NEW j, NEW key, Value(j, key) # <<>>
    PROVE  /\ Value(j, key) \in Seq(Seq(STRING))
           /\ \E i \in DOMAIN lakefile : Within(i, j) /\ lakefile[i].values = Value(j, key)
<1>. DEFINE is == Says(j, key)
<1>1. is # {} /\ Value(j, key) = lakefile[LastRow(is)].values
    BY DEF Value
<1>2. is \in SUBSET Nat /\ Len(lakefile) \in Nat /\ \A i \in is : i <= Len(lakefile)
    BY DEF Says
<1>3. PICK i \in is : \A k \in is : k <= i
    BY <1>1, <1>2, GreatestNat
<1>4. LastRow(is) \in is
    BY <1>3 DEF LastRow
<1>5. LastRow(is) \in DOMAIN lakefile /\ Within(LastRow(is), j)
    BY <1>4 DEF Says
<1>6. lakefile[LastRow(is)] \in Rows
    BY <1>5
<1>. QED BY <1>1, <1>5, <1>6 DEF Rows

(* The roots of a lakefile are the names on its rows.                      *)
LEMMA RootsAreNames ==
    ASSUME lakefile \in Seq(Rows) PROVE \A r \in DerivedRoots : r.module \in Seq(STRING)
<1>1. ASSUME NEW j, NEW key, Value(j, key) # <<>>
      PROVE  Value(j, key)[1] \in Seq(STRING) /\ ToSet(Value(j, key)) \subseteq Seq(STRING)
    BY <1>1, ValueIsOnARow DEF ToSet
<1>2. \A j, key : Value(j, key) = <<>> => ToSet(Value(j, key)) = {}
    BY DEF ToSet
<1>3. \A r \in LibRoots : r.module \in Seq(STRING)
    BY <1>1, <1>2 DEF LibRoots
<1>4. \A r \in ExeRoots : r.module \in Seq(STRING)
    BY <1>1 DEF ExeRoots
<1>. QED BY <1>3, <1>4 DEF DerivedRoots

(* For every project, every lakefile and every edit beside the gate: the   *)
(* walk is breadth first at every step; in a tree that holds still it      *)
(* reaches exactly what the roots reach, each file at its distance from    *)
(* the nearest of them; and when orphans are all it complains of, adding   *)
(* the imports it asks for reaches every one that has a library.           *)
THEOREM OrphansAreWhatIsNotReached == Spec => []WalkInv
<1>1. WalkOK => WalkInv
  <2>. SUFFICES ASSUME WalkOK PROVE WalkInv
      OBVIOUS
  <2>0. WalkTypes /\ OrphanTypeOK
      BY DEF WalkOK, WalkTypes
  <2>1. WalkIsReachability
    <3>. SUFFICES ASSUME edits = 0, Walked PROVE Walking /\ frontier = {} /\ nxt = {}
        BY WalkIsExact DEF WalkIsReachability
    <3>. QED BY <2>0 DEF WalkTypes, Walked, Walking, Finished, Raised
  <2>2. FixSuffices
    <3>. SUFFICES ASSUME edits = 0, pc = "ended", ~errors,
                         NEW o \in orphans, o.owner # <<>>
                  PROVE  o.module \in Reachable(Fixed)
        BY DEF FixSuffices
    <3>1. Finished
        BY <2>0 DEF WalkTypes, Raised
    <3>2. files = tracked /\ Derived
        BY <3>1 DEF WalkOK, Walking
    <3>3. PICK m \in files : o = [module |-> m, owner |-> OwningLibrary(m)]
        BY <3>1 DEF Finished
    <3>4. m \in Names /\ m \in tracked
        BY <2>0, <3>2 DEF OrphanTypeOK
    <3>5. \A r \in roots : r.module \in Seq(STRING)
        BY <2>0, <3>2, RootsAreNames DEF Derived, WalkTypes
    <3>6. PICK r \in DerivedRoots : r.module = o.owner
        BY <3>2, <3>3, <3>4, <3>5, OwnerIsARoot DEF Derived
    <3>7. o.owner \in files
        BY <3>2, <3>6 DEF Derived, MissingRoots
    <3>8. o.owner \in DeclaredModules /\ o.owner \in Names
        BY <2>0, <3>2, <3>6, <3>7 DEF DeclaredModules, OrphanTypeOK
    <3>9. m \in Fixed[o.owner] \cap tracked
        BY <3>3, <3>4, <3>8 DEF Fixed
    <3>10. o.owner \in Reachable(Fixed)
        BY <3>8 DEF Reachable
    <3>. QED BY <3>3, <3>4, <3>9, <3>10, ReachExtends
  <2>. QED BY <2>0, <2>1, <2>2 DEF WalkInv
<1>. QED BY <1>1, WalkInvariant, ScriptBehaves, PTL

(* For every project and every lakefile: without edits, a green gate means *)
(* that every tracked file is built, and that every target of the lakefile *)
(* has a root that git lists.                                              *)
THEOREM GreenMeansBuilt == Spec => []GreenIsNotVacuous
<1>1. WalkOK => GreenIsNotVacuous
  <2>. SUFFICES ASSUME WalkOK, edits = 0, Green
                PROVE  /\ tracked \subseteq Reachable(index)
                       /\ \A j \in Tables("lean_lib") \cup Tables("lean_exe") :
                             \E i \in DOMAIN lakefile :
                                /\ Within(i, j) /\ lakefile[i].values # <<>>
                                /\ lakefile[i].values[1] \in tracked
      BY DEF GreenIsNotVacuous
  <2>1. WalkTypes
      BY DEF WalkOK
  <2>2. Finished
      BY <2>1 DEF WalkTypes, Raised, Green
  <2>3. orphans = {} /\ ~errors
      BY <2>2 DEF Finished, Green, ResultExitCode
  <2>4. files = tracked /\ Derived /\ tree = index
      BY <2>1, <2>2 DEF WalkOK, WalkTypes, Walking
  <2>5. tracked \subseteq Reachable(index)
    <3>1. files \subseteq DOMAIN depth
        BY <2>2, <2>3 DEF Finished
    <3>2. DOMAIN depth = Reachable(tree)
        BY <2>2, WalkIsExact DEF Walking, Finished
    <3>. QED BY <2>4, <3>1, <3>2
  <2>6. ~DerivationErrors /\ ~MissingRoots(DerivedRoots)
      BY <2>3, <2>4 DEF Derived
  <2>7. lakefile \in Seq(Rows)
      BY <2>1 DEF WalkTypes
  <2>8. ASSUME NEW j \in Tables("lean_lib")
        PROVE  \E i \in DOMAIN lakefile : /\ Within(i, j) /\ lakefile[i].values # <<>>
                                          /\ lakefile[i].values[1] \in tracked
    <3>1. Value(j, "roots") # <<>>
        BY <2>6 DEF DerivationErrors
    <3>2. PICK i \in DOMAIN lakefile : Within(i, j) /\ lakefile[i].values = Value(j, "roots")
        BY <2>7, <3>1, ValueIsOnARow
    <3>3. Value(j, "roots")[1] \in ToSet(Value(j, "roots"))
        BY <2>7, <3>1, ValueIsOnARow DEF ToSet
    <3>4. [module |-> Value(j, "roots")[1], kind |-> "lean_lib"] \in DerivedRoots
        BY <3>3 DEF DerivedRoots, LibRoots
    <3>5. Value(j, "roots")[1] \in files
        BY <2>6, <3>4 DEF MissingRoots
    <3>. QED BY <2>4, <3>1, <3>2, <3>5
  <2>9. ASSUME NEW j \in Tables("lean_exe")
        PROVE  \E i \in DOMAIN lakefile : /\ Within(i, j) /\ lakefile[i].values # <<>>
                                          /\ lakefile[i].values[1] \in tracked
    <3>1. Value(j, "root") # <<>>
        BY <2>6 DEF DerivationErrors
    <3>2. PICK i \in DOMAIN lakefile : Within(i, j) /\ lakefile[i].values = Value(j, "root")
        BY <2>7, <3>1, ValueIsOnARow
    <3>3. [module |-> Value(j, "root")[1], kind |-> "lean_exe"] \in DerivedRoots
        BY <3>1 DEF DerivedRoots, ExeRoots
    <3>4. Value(j, "root")[1] \in files
        BY <2>6, <3>3 DEF MissingRoots
    <3>. QED BY <2>4, <3>1, <3>2, <3>4
  <2>. QED BY <2>5, <2>8, <2>9
<1>. QED BY <1>1, WalkInvariant, ScriptBehaves, PTL

-----------------------------------------------------------------------------
(* The full build                                                          *)

Frames == [module : LocalModules, todo : SUBSET LocalModules]

(* What is visited is no longer being visited, and no module is visited    *)
(* within a visit of itself.                                               *)
PlanTypes ==
    /\ imports \in [LocalModules -> SUBSET LocalModules]
    /\ targets \in Configs /\ setting \in Settings
    /\ phase \in {"configure", "plan", "lease", "run", "ended"} /\ status \in 0 .. 3
    /\ t \in 1 .. Len(targets) + 1 /\ next \in Nat \ {0}
    /\ stack \in Seq(Frames)
    /\ \A i, j \in DOMAIN stack : stack[i].module = stack[j].module => i = j
    /\ visited \subseteq LocalModules /\ Visiting \cap visited = {}
    /\ ordered \in Seq(LocalModules) /\ modules \in Seq(LocalModules)
    /\ ToSet(ordered) \subseteq visited /\ visited \subseteq ToSet(ordered) \cup ToSet(modules)
    /\ IsInjective(ordered) /\ IsInjective(modules)
    /\ built \subseteq LocalModules /\ changes \in 0 .. MaxChanges
    /\ phase \in {"plan", "lease", "run"} => Accepts(targets) /\ ValidSetting(setting)
    /\ phase \in {"lease", "run"} => t = Len(targets) + 1
    /\ phase \in {"configure", "plan", "lease"} => next = 1 /\ wave = 0

LEMMA PlanStart == PlanInit => PlanTypes
<1>. SUFFICES ASSUME PlanInit PROVE PlanTypes
    OBVIOUS
<1>1. targets \in Seq(DOMAIN RootOf)
    BY BuildPlanAssumption DEF PlanInit
<1>2. t \in 1 .. Len(targets) + 1
    BY <1>1 DEF PlanInit
<1>. QED BY <1>2, BuildPlanAssumption
         DEF PlanInit, PlanTypes, Visiting, ToSet, IsInjective

(* What pushing a frame, replacing the last one and popping it leave.      *)
LEMMA Pushed ==
    ASSUME NEW S, NEW s \in Seq(S), NEW e \in S
    PROVE  /\ Append(s, e) \in Seq(S) /\ Len(Append(s, e)) = Len(s) + 1
           /\ \A i \in DOMAIN s : Append(s, e)[i] = s[i]
           /\ Append(s, e)[Len(s) + 1] = e
           /\ DOMAIN Append(s, e) = DOMAIN s \cup {Len(s) + 1}
           /\ ToSet(Append(s, e)) = ToSet(s) \cup {e}
BY DEF ToSet

LEMMA Popped ==
    ASSUME NEW S, NEW s \in Seq(S), s # <<>>
    PROVE  /\ Front(s) \in Seq(S) /\ Len(Front(s)) = Len(s) - 1
           /\ \A i \in DOMAIN Front(s) : i \in DOMAIN s /\ i # Len(s) /\ Front(s)[i] = s[i]
           /\ DOMAIN Front(s) = DOMAIN s \ {Len(s)}
           /\ Len(s) \in DOMAIN s /\ Last(s) = s[Len(s)] /\ Last(s) \in S
<1>1. Len(s) \in Nat /\ Len(s) >= 1 /\ s \in [1 .. Len(s) -> S]
    OBVIOUS
<1>2. Front(s) = SubSeq(s, 1, Len(s) - 1)
    BY DEF Front
<1>3. /\ Front(s) \in Seq(S) /\ Len(Front(s)) = Len(s) - 1
      /\ \A i \in 1 .. Len(s) - 1 : Front(s)[i] = s[i]
    BY <1>1, <1>2
<1>4. DOMAIN Front(s) = 1 .. Len(s) - 1
    BY <1>1, <1>3
<1>5. Len(s) \in DOMAIN s /\ Last(s) = s[Len(s)]
    BY <1>1 DEF Last
<1>. QED BY <1>1, <1>3, <1>4, <1>5

LEMMA Dequeued ==
    ASSUME NEW S, NEW s \in Seq(S), s # <<>>
    PROVE  /\ Tail(s) \in Seq(S) /\ Len(Tail(s)) = Len(s) - 1
           /\ \A i \in DOMAIN Tail(s) : i + 1 \in DOMAIN s /\ Tail(s)[i] = s[i + 1]
           /\ 1 \in DOMAIN s /\ Head(s) = s[1] /\ Head(s) \in S
           /\ ToSet(s) = {Head(s)} \cup ToSet(Tail(s))
<1>1. /\ Tail(s) \in Seq(S) /\ Len(Tail(s)) = Len(s) - 1
      /\ \A i \in DOMAIN Tail(s) : i + 1 \in DOMAIN s /\ Tail(s)[i] = s[i + 1]
      /\ 1 \in DOMAIN s /\ Head(s) = s[1] /\ Head(s) \in S
    OBVIOUS
<1>2. ASSUME NEW i \in DOMAIN s, i # 1 PROVE i - 1 \in DOMAIN Tail(s) /\ Tail(s)[i - 1] = s[i]
    BY <1>1, <1>2
<1>3. ASSUME NEW x \in ToSet(s), x # Head(s) PROVE x \in ToSet(Tail(s))
  <2>1. PICK i \in DOMAIN s : x = s[i]
      BY DEF ToSet
  <2>2. i - 1 \in DOMAIN Tail(s) /\ Tail(s)[i - 1] = x
      BY <1>1, <1>2, <1>3, <2>1
  <2>. QED BY <2>2 DEF ToSet
<1>4. {Head(s)} \cup ToSet(Tail(s)) \subseteq ToSet(s)
    BY <1>1 DEF ToSet
<1>. QED BY <1>1, <1>3, <1>4

(* A sequence without duplicates stays one when a new element is appended. *)
LEMMA InjectivePushed ==
    ASSUME NEW S, NEW s \in Seq(S), NEW e \in S, IsInjective(s), e \notin ToSet(s)
    PROVE  IsInjective(Append(s, e))
BY Pushed DEF IsInjective, ToSet

(* The callers of a visit: the import visited is no longer to visit.       *)
Callers(i) == [stack EXCEPT ![Len(stack)].todo = @ \ {i}]

LEMMA CallersStay ==
    ASSUME stack \in Seq(Frames), stack # <<>>, NEW i
    PROVE  /\ Callers(i) \in Seq(Frames) /\ Len(Callers(i)) = Len(stack)
           /\ DOMAIN Callers(i) = DOMAIN stack
           /\ \A k \in DOMAIN stack : Callers(i)[k].module = stack[k].module
           /\ \A k \in DOMAIN stack : k # Len(stack) => Callers(i)[k].todo = stack[k].todo
           /\ Callers(i)[Len(stack)].todo = stack[Len(stack)].todo \ {i}
<1>1. Len(stack) \in DOMAIN stack /\ stack \in [1 .. Len(stack) -> Frames]
    OBVIOUS
<1>2. [stack[Len(stack)] EXCEPT !.todo = @ \ {i}] \in Frames
    BY <1>1 DEF Frames
<1>. QED BY <1>1, <1>2 DEF Callers, Frames

(* A visit pushes a module that is not being visited, or nothing.          *)
LEMMA VisitTypes ==
    ASSUME NEW m \in LocalModules, NEW callers \in Seq(Frames), Visit(m, callers),
           imports \in [LocalModules -> SUBSET LocalModules],
           DOMAIN callers = DOMAIN stack,
           \A k \in DOMAIN stack : callers[k].module = stack[k].module,
           \A i, j \in DOMAIN stack : stack[i].module = stack[j].module => i = j,
           Visiting \cap visited = {}, visited' = visited
    PROVE  /\ stack' \in Seq(Frames)
           /\ \A i, j \in DOMAIN stack' : stack'[i].module = stack'[j].module => i = j
           /\ Visiting' \cap visited' = {}
<1>1. CASE stack' = callers
    BY <1>1 DEF Visiting
<1>2. CASE /\ m \notin visited /\ m \notin Visiting
           /\ stack' = Append(callers, Frame(m))
  <2>1. Frame(m) \in Frames /\ Frame(m).module = m
      BY DEF Frame, Frames
  <2>2. /\ stack' \in Seq(Frames) /\ DOMAIN stack' = DOMAIN callers \cup {Len(callers) + 1}
        /\ \A k \in DOMAIN stack : stack'[k].module = stack[k].module
        /\ stack'[Len(callers) + 1].module = m
      BY <1>2, <2>1, Pushed
  <2>. QED BY <1>2, <2>2 DEF Visiting
<1>. QED BY <1>1, <1>2 DEF Visit

LEMMA PlanTypesStep == PlanTypes /\ [PlanNext]_planVars => PlanTypes'
<1>. SUFFICES ASSUME PlanTypes, [PlanNext]_planVars PROVE PlanTypes'
    OBVIOUS
<1>. USE DEF PlanTypes
<1>a. targets \in Seq(DOMAIN RootOf) /\ Len(targets) \in Nat
    BY BuildPlanAssumption
<1>1. CASE Configure
    BY <1>1 DEF Configure, plan, Stop, Visiting
<1>2. CASE VisitTarget
  <2>1. /\ targets[t] \in LocalModules /\ stack = <<>> /\ Visit(targets[t], stack)
        /\ phase = "plan"
        /\ UNCHANGED <<imports, targets, setting, t, visited, ordered, modules, next, built,
                       wave, changes>>
      BY <1>2 DEF VisitTarget, Closed
  <2>2. /\ stack' \in Seq(Frames)
        /\ \A i, j \in DOMAIN stack' : stack'[i].module = stack'[j].module => i = j
        /\ Visiting' \cap visited' = {}
      BY <2>1, VisitTypes
  <2>3. UNCHANGED <<phase, status>> \/ (phase' = "ended" /\ status' = 2)
      BY <2>1 DEF Visit, Stop
  <2>. QED BY <2>1, <2>2, <2>3
<1>3. ASSUME NEW i \in LocalModules, VisitImport(i) PROVE PlanTypes'
  <2>1. /\ stack # <<>> /\ Visit(i, Callers(i)) /\ phase = "plan"
        /\ UNCHANGED <<imports, targets, setting, t, visited, ordered, modules, next, built,
                       wave, changes>>
      BY <1>3 DEF VisitImport, Callers
  <2>2. /\ Callers(i) \in Seq(Frames) /\ DOMAIN Callers(i) = DOMAIN stack
        /\ \A k \in DOMAIN stack : Callers(i)[k].module = stack[k].module
      BY <2>1, CallersStay
  <2>3. /\ stack' \in Seq(Frames)
        /\ \A k, j \in DOMAIN stack' : stack'[k].module = stack'[j].module => k = j
        /\ Visiting' \cap visited' = {}
      BY <2>1, <2>2, VisitTypes
  <2>4. UNCHANGED <<phase, status>> \/ (phase' = "ended" /\ status' = 2)
      BY <2>1 DEF Visit, Stop
  <2>. QED BY <2>1, <2>3, <2>4
<1>4. CASE Return
  <2>. DEFINE m == Last(stack).module
  <2>1. /\ stack # <<>> /\ visited' = visited \cup {m}
        /\ ordered' = Append(ordered, m) /\ stack' = Front(stack)
        /\ UNCHANGED <<imports, targets, setting, phase, status, t, modules, next, built,
                       wave, changes>>
      BY <1>4 DEF Return
  <2>2. /\ stack' \in Seq(Frames) /\ DOMAIN stack' = DOMAIN stack \ {Len(stack)}
        /\ \A i \in DOMAIN stack' : i \in DOMAIN stack /\ i # Len(stack) /\ stack'[i] = stack[i]
        /\ Len(stack) \in DOMAIN stack /\ m = stack[Len(stack)].module
      BY <2>1, Popped
  <2>3. m \in LocalModules /\ m \in Visiting
    <3>1. stack[Len(stack)] \in Frames
        BY <2>2
    <3>. QED BY <2>2, <3>1 DEF Frames, Visiting
  <2>4. m \notin visited /\ m \notin ToSet(ordered)
      BY <2>3
  <2>5. /\ ordered' \in Seq(LocalModules) /\ ToSet(ordered') = ToSet(ordered) \cup {m}
        /\ IsInjective(ordered')
      BY <2>1, <2>3, <2>4, Pushed, InjectivePushed
  <2>6. \A i \in DOMAIN stack' : stack'[i].module # m
      BY <2>2
  <2>7. Visiting' \cap visited' = {}
      BY <2>1, <2>2, <2>6 DEF Visiting
  <2>8. /\ ToSet(ordered)' \subseteq visited'
        /\ visited' \subseteq ToSet(ordered)' \cup ToSet(modules)'
        /\ IsInjective(ordered)'
      BY <2>1, <2>5
  <2>. QED BY <2>1, <2>2, <2>3, <2>5, <2>7, <2>8
<1>5. CASE Schedule
  <2>. DEFINE m == Head(ordered)
  <2>1. /\ ordered # <<>> /\ ordered' = Tail(ordered)
        /\ modules' = IF m \in ToSet(modules) THEN modules ELSE Append(modules, m)
        /\ UNCHANGED <<imports, targets, setting, stack, phase, status, t, visited, next,
                       built, wave, changes>>
      BY <1>5 DEF Schedule
  <2>2. /\ ordered' \in Seq(LocalModules) /\ m \in LocalModules
        /\ ToSet(ordered) = {m} \cup ToSet(ordered')
        /\ \A i \in DOMAIN ordered' : i + 1 \in DOMAIN ordered /\ ordered'[i] = ordered[i + 1]
      BY <2>1, Dequeued
  <2>3. IsInjective(ordered')
      BY <2>2 DEF IsInjective
  <2>4. /\ modules' \in Seq(LocalModules) /\ IsInjective(modules')
        /\ ToSet(modules') = ToSet(modules) \cup {m}
    <3>1. CASE m \in ToSet(modules)
        BY <2>1, <3>1
    <3>2. CASE m \notin ToSet(modules)
        BY <2>1, <2>2, <3>2, Pushed, InjectivePushed
    <3>. QED BY <3>1, <3>2
  <2>5. UNCHANGED Visiting
      BY <2>1 DEF Visiting
  <2>. QED BY <2>1, <2>2, <2>3, <2>4, <2>5
<1>6. CASE NextTarget
  <2>1. UNCHANGED Visiting /\ Visiting = {}
      BY <1>6 DEF NextTarget, Closed, Visiting
  <2>2. ordered' = <<>> /\ ToSet(ordered) = {}
      BY <1>6 DEF NextTarget, ToSet
  <2>. QED BY <1>6, <1>a, <2>1, <2>2 DEF NextTarget
<1>7. CASE PlanMade \/ TakeLease
    BY <1>7, <1>a DEF PlanMade, TakeLease, plan, Stop, Visiting
<1>8. CASE RunBuild
  <2>1. Closure(Asked) \subseteq LocalModules
      BY DEF Closure
  <2>. QED BY <1>8, <2>1 DEF RunBuild, plan, Stop, Visiting
<1>9. CASE ClosureCheck
    BY <1>9 DEF ClosureCheck, plan, Stop, Visiting
<1>10. ASSUME NEW m \in LocalModules, EditImports(m) PROVE PlanTypes'
  <2>1. imports' \in [LocalModules -> SUBSET LocalModules]
      BY <1>10 DEF EditImports
  <2>2. changes' \in 0 .. MaxChanges
      BY <1>10, BuildPlanAssumption DEF EditImports
  <2>. QED BY <1>10, <2>1, <2>2 DEF EditImports, plan, Visiting
<1>11. CASE UNCHANGED planVars
    BY <1>11 DEF planVars, plan, Visiting
<1>. QED BY <1>1, <1>2, <1>3, <1>4, <1>5, <1>6, <1>7, <1>8, <1>9, <1>10, <1>11
         DEF PlanNext, PlanTerminated

(* What is needed has what it imports, and nothing that need not be.       *)
LEMMA ClosureCloses ==
    ASSUME imports \in [LocalModules -> SUBSET LocalModules], NEW ms \in SUBSET LocalModules
    PROVE  /\ ms \subseteq Closure(ms) /\ Closure(ms) \subseteq LocalModules
           /\ \A x \in Closure(ms) : imports[x] \subseteq Closure(ms)
<1>1. ASSUME NEW x \in Closure(ms), NEW i \in imports[x] PROVE i \in Closure(ms)
  <2>1. x \in LocalModules /\ i \in LocalModules
      BY DEF Closure
  <2>2. ASSUME NEW set \in SUBSET LocalModules, ms \subseteq set,
               \A y \in set : imports[y] \subseteq set
        PROVE  i \in set
      BY <2>2 DEF Closure
  <2>. QED BY <2>1, <2>2 DEF Closure
<1>. QED BY <1>1 DEF Closure

LEMMA ClosureLeast ==
    ASSUME NEW ms, NEW set \in SUBSET LocalModules, ms \subseteq set,
           \A x \in set : imports[x] \subseteq set
    PROVE  Closure(ms) \subseteq set
BY DEF Closure

(* What the targets need, what each module needs below it, and what each   *)
(* root needs.                                                             *)
Wanted == Closure(LocalTargets)
Under == [m \in LocalModules |-> Closure(imports[m])]
Needed == [i \in DOMAIN targets |-> Closure({RootOf[targets[i]]})]

LEMMA ClosuresStay ==
    ASSUME UNCHANGED <<imports, targets>>
    PROVE  /\ UNCHANGED <<LocalTargets, Wanted, Under, Needed>>
           /\ Cyclic(LocalTargets)' <=> Cyclic(LocalTargets)
<1>1. LocalTargets' = LocalTargets
    BY DEF LocalTargets
<1>2. Wanted' = Wanted
    BY <1>1 DEF Wanted, Closure
<1>3. Under' = Under
    BY DEF Under, Closure
<1>4. Needed' = Needed
    BY DEF Needed, Closure
<1>5. Cyclic(LocalTargets)' <=> Cyclic(LocalTargets)
    BY <1>1 DEF Cyclic, Closure
<1>. QED BY <1>1, <1>2, <1>3, <1>4, <1>5

(* While a module is visited, what it imports was visited, is being        *)
(* visited in the next frame, or is still to visit; each frame is needed   *)
(* by those before it, and all is needed by a target.                      *)
DepthFirst ==
    /\ \A i \in DOMAIN stack :
          /\ imports[stack[i].module] \subseteq
                visited \cup stack[i].todo \cup {stack[j].module : j \in {i + 1} \cap DOMAIN stack}
          /\ stack[i].todo \subseteq imports[stack[i].module]
    /\ \A i, j \in DOMAIN stack : i < j => stack[j].module \in Under[stack[i].module]
    /\ \A m \in visited : imports[m] \subseteq visited
    /\ Visiting \cup visited \subseteq Wanted

(* A module is listed after what it imports, and the targets before this   *)
(* one are scheduled.                                                      *)
Scheduled ==
    /\ \A i \in DOMAIN ordered :
          imports[ordered[i]] \subseteq ToSet(modules) \cup {ordered[j] : j \in 1 .. i - 1}
    /\ \A i \in DOMAIN modules : imports[modules[i]] \subseteq {modules[j] : j \in 1 .. i - 1}
    /\ ToSet(modules) \subseteq Wanted
    /\ \A i \in 1 .. t - 1 : targets[i] \in LocalModules => targets[i] \in ToSet(modules)

(* The waves before this one built their modules, and the phases before    *)
(* this one what their roots need.                                         *)
Carried ==
    /\ wave \in Nat /\ wave <= Size
    /\ next <= Batches + 1 =>
          \A i \in DOMAIN modules : i <= (next - 1) * Size => modules[i] \in built
    /\ next > Batches => ToSet(modules) \subseteq built
    /\ \A i \in DOMAIN targets : Batches + i < next => Needed[i] \subseteq built

PlanOK ==
    /\ PlanTypes
    /\ changes = 0 =>
        /\ status # 3
        /\ phase = "configure" => stack = <<>> /\ visited = {} /\ ordered = <<>>
                                  /\ modules = <<>> /\ t = 1
        /\ phase = "plan" => DepthFirst
        /\ phase \in {"plan", "lease", "run"} => Scheduled
        /\ phase = "ended" /\ t <= Len(targets) /\ Accepts(targets) /\ ValidSetting(setting) =>
              Cyclic(LocalTargets)
        /\ phase = "run" => Carried

LEMMA UnderCloses ==
    ASSUME imports \in [LocalModules -> SUBSET LocalModules], NEW a \in LocalModules
    PROVE  /\ imports[a] \subseteq Under[a] /\ Under[a] \subseteq LocalModules
           /\ \A x \in Under[a] : imports[x] \subseteq Under[a]
<1>1. imports[a] \in SUBSET LocalModules
    OBVIOUS
<1>. QED BY <1>1, ClosureCloses DEF Under

LEMMA WantedCloses ==
    ASSUME imports \in [LocalModules -> SUBSET LocalModules]
    PROVE  /\ LocalTargets \subseteq Wanted /\ Wanted \subseteq LocalModules
           /\ \A x \in Wanted : imports[x] \subseteq Wanted
<1>1. LocalTargets \in SUBSET LocalModules
    BY DEF LocalTargets
<1>. QED BY <1>1, ClosureCloses DEF Wanted

(* A cycle below a target is a module that is needed below itself.         *)
LEMMA CyclicBelow ==
    ASSUME imports \in [LocalModules -> SUBSET LocalModules]
    PROVE  Cyclic(LocalTargets) <=> \E m \in Wanted : m \in Under[m]
BY WantedCloses DEF Cyclic, Wanted, Under

LEMMA TopFrame ==
    ASSUME PlanTypes, stack # <<>>
    PROVE  /\ Len(stack) \in Nat /\ DOMAIN stack = 1 .. Len(stack) /\ Len(stack) \in DOMAIN stack
           /\ Last(stack) = stack[Len(stack)] /\ stack[Len(stack)] \in Frames
           /\ DOMAIN Front(stack) = DOMAIN stack \ {Len(stack)}
           /\ \A i \in DOMAIN Front(stack) : Front(stack)[i] = stack[i]
<1>1. stack \in Seq(Frames)
    BY DEF PlanTypes
<1>2. Len(stack) \in Nat /\ DOMAIN stack = 1 .. Len(stack)
    BY <1>1
<1>3. /\ Front(stack) \in Seq(Frames) /\ Len(Front(stack)) = Len(stack) - 1
      /\ \A i \in DOMAIN Front(stack) : i \in DOMAIN stack /\ i # Len(stack) /\ Front(stack)[i] = stack[i]
      /\ DOMAIN Front(stack) = DOMAIN stack \ {Len(stack)}
      /\ Len(stack) \in DOMAIN stack /\ Last(stack) = stack[Len(stack)] /\ Last(stack) \in Frames
    BY <1>1, Popped
<1>. QED BY <1>2, <1>3

(* What the frame on top imports is needed by every frame.                 *)
LEMMA TopIsBelow ==
    ASSUME PlanTypes, DepthFirst, stack # <<>>, NEW i \in Last(stack).todo
    PROVE  /\ i \in imports[Last(stack).module] /\ i \in Wanted
           /\ \A k \in DOMAIN stack : i \in Under[stack[k].module]
<1>. DEFINE top == Len(stack)
<1>1. top \in DOMAIN stack /\ Last(stack) = stack[top] /\ stack[top] \in Frames
    BY TopFrame
<1>2. i \in imports[stack[top].module] /\ stack[top].module \in Visiting
    BY <1>1 DEF DepthFirst, Visiting
<1>3. i \in Wanted
    BY <1>2, WantedCloses DEF DepthFirst, PlanTypes
<1>4. ASSUME NEW k \in DOMAIN stack PROVE i \in Under[stack[k].module]
  <2>1. stack[k].module \in LocalModules
    <3>1. stack[k] \in Frames
        BY DEF PlanTypes
    <3>. QED BY <3>1 DEF Frames
  <2>2. CASE k = top
      BY <1>2, <2>1, <2>2, UnderCloses DEF PlanTypes
  <2>3. CASE k # top
    <3>1. k < top
        BY <1>1, <2>3 DEF PlanTypes
    <3>2. stack[top].module \in Under[stack[k].module]
        BY <1>1, <3>1 DEF DepthFirst
    <3>. QED BY <1>2, <2>1, <3>2, UnderCloses DEF PlanTypes
  <2>. QED BY <2>2, <2>3
<1>. QED BY <1>1, <1>2, <1>3, <1>4

(* A visit that goes on leaves the walk depth first.                       *)
LEMMA VisitDepthFirst ==
    ASSUME PlanTypes, DepthFirst, NEW m \in Wanted, NEW callers \in Seq(Frames),
           Visit(m, callers), phase = "plan", phase' = "plan",
           UNCHANGED <<imports, targets, visited>>,
           DOMAIN callers = DOMAIN stack, Len(callers) = Len(stack),
           \A k \in DOMAIN stack :
              /\ callers[k].module = stack[k].module
              /\ k # Len(stack) => callers[k].todo = stack[k].todo
              /\ k = Len(stack) => callers[k].todo = stack[k].todo \ {m}
              /\ m \in Under[stack[k].module]
    PROVE  DepthFirst'
<1>1. UNCHANGED <<LocalTargets, Wanted, Under>>
    BY ClosuresStay
<1>2. m \in LocalModules /\ imports[m] \subseteq LocalModules
    BY WantedCloses DEF PlanTypes
<1>3. CASE stack' = callers /\ m \in visited
  <2>1. ASSUME NEW k \in DOMAIN stack
        PROVE  /\ imports[stack[k].module] \subseteq
                     visited \cup callers[k].todo
                       \cup {callers[j].module : j \in {k + 1} \cap DOMAIN stack}
               /\ callers[k].todo \subseteq imports[stack[k].module]
    <3>1. {callers[j].module : j \in {k + 1} \cap DOMAIN stack}
            = {stack[j].module : j \in {k + 1} \cap DOMAIN stack}
        OBVIOUS
    <3>. QED BY <1>3, <3>1 DEF DepthFirst
  <2>2. Visiting' = Visiting
      BY <1>3 DEF Visiting
  <2>. QED BY <1>1, <1>3, <2>1, <2>2 DEF DepthFirst
<1>4. CASE stack' = Append(callers, Frame(m)) /\ m \notin visited
  <2>. DEFINE n == Len(stack) + 1
  <2>1. /\ Frame(m) \in Frames /\ Frame(m).module = m /\ Frame(m).todo = imports[m]
        /\ Len(stack) \in Nat /\ DOMAIN stack = 1 .. Len(stack)
      BY <1>2 DEF Frame, Frames, PlanTypes
  <2>2. /\ DOMAIN stack' = DOMAIN stack \cup {n} /\ n \notin DOMAIN stack
        /\ \A k \in DOMAIN stack : stack'[k] = callers[k]
        /\ stack'[n].module = m /\ stack'[n].todo = imports[m]
      BY <1>4, <2>1, Pushed
  <2>3. ASSUME NEW k \in DOMAIN stack'
        PROVE  /\ imports[stack'[k].module] \subseteq
                     visited \cup stack'[k].todo
                       \cup {stack'[j].module : j \in {k + 1} \cap DOMAIN stack'}
               /\ stack'[k].todo \subseteq imports[stack'[k].module]
    <3>1. CASE k = n
        BY <2>2, <3>1
    <3>2. CASE k = Len(stack) /\ k \in DOMAIN stack
      <4>1. {k + 1} \cap DOMAIN stack = {} /\ {k + 1} \cap DOMAIN stack' = {n}
          BY <2>1, <2>2, <3>2
      <4>2. {stack'[j].module : j \in {k + 1} \cap DOMAIN stack'} = {m}
          BY <2>2, <4>1
      <4>3. imports[stack[k].module] \subseteq visited \cup stack[k].todo
          BY <3>2, <4>1 DEF DepthFirst
      <4>4. stack'[k].todo = stack[k].todo \ {m} /\ stack'[k].module = stack[k].module
          BY <2>2, <3>2
      <4>. QED BY <3>2, <4>2, <4>3, <4>4 DEF DepthFirst
    <3>3. CASE k # Len(stack) /\ k \in DOMAIN stack
      <4>1. {k + 1} \cap DOMAIN stack' = {k + 1} \cap DOMAIN stack
          BY <2>1, <2>2, <3>3
      <4>2. {stack'[j].module : j \in {k + 1} \cap DOMAIN stack'}
              = {stack[j].module : j \in {k + 1} \cap DOMAIN stack}
          BY <2>2, <4>1
      <4>3. stack'[k].todo = stack[k].todo /\ stack'[k].module = stack[k].module
          BY <2>2, <3>3
      <4>. QED BY <3>3, <4>2, <4>3 DEF DepthFirst
    <3>. QED BY <2>2, <3>1, <3>2, <3>3
  <2>4. ASSUME NEW i \in DOMAIN stack', NEW j \in DOMAIN stack', i < j
        PROVE  stack'[j].module \in Under[stack'[i].module]
    <3>1. i \in DOMAIN stack
        BY <2>1, <2>2, <2>4
    <3>2. CASE j = n
        BY <2>2, <3>1, <3>2
    <3>3. CASE j \in DOMAIN stack
        BY <2>2, <2>4, <3>1, <3>3 DEF DepthFirst
    <3>. QED BY <2>2, <3>2, <3>3
  <2>5. Visiting' = Visiting \cup {m}
    <3>1. \A k \in DOMAIN stack : stack'[k].module = stack[k].module
        BY <2>2
    <3>. QED BY <2>2, <3>1 DEF Visiting
  <2>. QED BY <1>1, <2>3, <2>4, <2>5 DEF DepthFirst
<1>5. phase' = "ended" => FALSE
    OBVIOUS
<1>. QED BY <1>3, <1>4, <1>5 DEF Visit, Stop

(* A module that is left has all its imports behind it.                    *)
LEMMA ReturnDepthFirst ==
    ASSUME PlanTypes, DepthFirst, Return
    PROVE  /\ DepthFirst' /\ imports[Last(stack).module] \subseteq visited
           /\ Last(stack).module \in LocalModules
<1>. DEFINE top == Len(stack)
            m == Last(stack).module
<1>1. /\ stack # <<>> /\ Last(stack).todo = {} /\ visited' = visited \cup {m}
      /\ stack' = Front(stack) /\ UNCHANGED <<imports, targets>>
    BY DEF Return
<1>2. /\ DOMAIN stack' = DOMAIN stack \ {top} /\ Last(stack) = stack[top]
      /\ \A i \in DOMAIN stack' : i \in DOMAIN stack /\ i # top /\ stack'[i] = stack[i]
      /\ top \in DOMAIN stack /\ top \in Nat /\ DOMAIN stack = 1 .. top
      /\ Last(stack) \in Frames
    BY <1>1, TopFrame
<1>3. UNCHANGED <<LocalTargets, Wanted, Under>>
    BY <1>1, ClosuresStay
<1>4. imports[m] \subseteq visited
  <2>1. {top + 1} \cap DOMAIN stack = {}
      BY <1>2
  <2>. QED BY <1>1, <1>2, <2>1 DEF DepthFirst
<1>5. ASSUME NEW k \in DOMAIN stack'
      PROVE  imports[stack'[k].module] \subseteq
                visited' \cup stack'[k].todo
                  \cup {stack'[j].module : j \in {k + 1} \cap DOMAIN stack'}
  <2>1. {stack[j].module : j \in {k + 1} \cap DOMAIN stack}
          \subseteq {m} \cup {stack'[j].module : j \in {k + 1} \cap DOMAIN stack'}
      BY <1>2
  <2>. QED BY <1>1, <1>2, <2>1 DEF DepthFirst
<1>6. Visiting' \cup visited' \subseteq Visiting \cup visited
    BY <1>1, <1>2 DEF Visiting
<1>7. m \in LocalModules
    BY <1>2 DEF Frames
<1>. QED BY <1>1, <1>2, <1>3, <1>4, <1>5, <1>6, <1>7 DEF DepthFirst

(* How many waves there are, and how many modules fit in them.             *)
LEMMA WaveCount ==
    ASSUME PlanTypes, ValidSetting(setting)
    PROVE  /\ Size \in Nat /\ Size >= 1 /\ Batches \in Nat
           /\ Batches * Size >= Len(modules)
<1>1. Size \in Nat /\ Size >= 1
  <2>1. setting # None => setting \in Int /\ setting >= 1
      BY BuildPlanAssumption DEF ValidSetting, IntegerSettings
  <2>2. Memory \div 18 \in Int
      BY BuildPlanAssumption
  <2>. QED BY <2>1, <2>2 DEF Size, NormalizationBatchSize, Smaller,
                             MAX_AUTOMATIC_NORMALIZATION_BATCH_SIZE
<1>2. Len(modules) \in Nat
    BY DEF PlanTypes
<1>3. ASSUME NEW n \in Nat, NEW s \in Nat, s >= 1
      PROVE  (n + s - 1) \div s \in Nat /\ ((n + s - 1) \div s) * s >= n
    BY <1>3, Z3
<1>. QED BY <1>1, <1>2, <1>3 DEF Batches

(* A wave compiles its own modules and no other, and with those before it  *)
(* all up to its last.                                                     *)
LEMMA WaveBuilds ==
    ASSUME PlanTypes, ValidSetting(setting), Scheduled, next <= Batches,
           \A i \in DOMAIN modules : i <= (next - 1) * Size => modules[i] \in built
    PROVE  /\ \A i \in DOMAIN modules : i <= next * Size =>
                 modules[i] \in built \cup Closure(Batch(next))
           /\ Cardinality(Closure(Batch(next)) \ built) \in Nat
           /\ Cardinality(Closure(Batch(next)) \ built) <= Size
<1>1. /\ Size \in Nat /\ Size >= 1 /\ next \in Nat \ {0}
      /\ modules \in Seq(LocalModules) /\ Len(modules) \in Nat
      /\ DOMAIN modules = 1 .. Len(modules)
      /\ \A i \in DOMAIN modules : modules[i] \in LocalModules
    BY WaveCount DEF PlanTypes
<1>2. PICK a \in Nat, b \in Nat : a = (next - 1) * Size /\ b = next * Size /\ b = a + Size
  <2>1. (next - 1) * Size \in Nat /\ next * Size \in Nat
      BY <1>1
  <2>2. next * Size = (next - 1) * Size + Size
      BY <1>1
  <2>. QED BY <2>1, <2>2
<1>. DEFINE last == Smaller(b, Len(modules))
            B == Batch(next)
            P == {modules[i] : i \in {j \in DOMAIN modules : j <= b}}
<1>3. last \in Nat /\ last <= b /\ last <= Len(modules)
    BY <1>1, <1>2 DEF Smaller
<1>4. B = {modules[k] : k \in a + 1 .. last}
    BY <1>2 DEF Batch
<1>5. \A i \in DOMAIN modules : i <= b => i <= last
    BY <1>1, <1>2 DEF Smaller
<1>6. B \subseteq LocalModules /\ B \subseteq P
    BY <1>1, <1>2, <1>3, <1>4
<1>. HIDE DEF last, B
<1>7. Closure(B) \subseteq P
  <2>1. ASSUME NEW i \in DOMAIN modules, i <= b PROVE imports[modules[i]] \subseteq P
    <3>1. imports[modules[i]] \subseteq {modules[j] : j \in 1 .. i - 1}
        BY DEF Scheduled
    <3>2. \A j \in 1 .. i - 1 : j \in DOMAIN modules /\ j <= b
        BY <1>1, <1>2, <2>1
    <3>. QED BY <3>1, <3>2
  <2>2. P \subseteq LocalModules
      BY <1>1
  <2>. QED BY <1>6, <2>1, <2>2, ClosureLeast
<1>8. B \subseteq Closure(B)
    BY <1>6, ClosureCloses DEF PlanTypes
<1>9. \A i \in DOMAIN modules : i <= b => modules[i] \in built \cup Closure(B)
  <2>. SUFFICES ASSUME NEW i \in DOMAIN modules, i <= b PROVE modules[i] \in built \cup Closure(B)
      OBVIOUS
  <2>1. CASE i <= a
      BY <1>2, <2>1
  <2>2. CASE i > a
    <3>1. i \in a + 1 .. last
        BY <1>1, <1>2, <1>3, <1>5, <2>2
    <3>. QED BY <1>4, <1>8, <3>1
  <2>. QED BY <1>1, <1>2, <2>1, <2>2
<1>10. Closure(B) \ built \subseteq B
  <2>. SUFFICES ASSUME NEW x \in Closure(B), x \notin built PROVE x \in B
      OBVIOUS
  <2>1. PICK i \in DOMAIN modules : i <= b /\ x = modules[i]
      BY <1>7
  <2>2. ~(i <= a)
      BY <1>2, <2>1
  <2>3. i \in a + 1 .. last
      BY <1>1, <1>2, <1>3, <1>5, <2>1, <2>2
  <2>. QED BY <1>4, <2>1, <2>3
<1>11. IsFiniteSet(B) /\ Cardinality(B) <= Size
  <2>. DEFINE I == a + 1 .. last
              f == [k \in I |-> modules[k]]
  <2>1. IsFiniteSet(I) /\ Cardinality(I) <= Size
    <3>. last \in Int /\ a + 1 \in Int
        BY <1>2, <1>3
    <3>1. IsFiniteSet(I) /\ Cardinality(I) = IF a + 1 > last THEN 0 ELSE last - (a + 1) + 1
        BY FS_Interval
    <3>. QED BY <1>1, <1>2, <1>3, <3>1
  <2>2. f \in Surjection(I, B)
      BY <1>4 DEF Surjection
  <2>3. IsFiniteSet(B) /\ Cardinality(B) <= Cardinality(I)
      BY <2>1, <2>2, FS_Surjection
  <2>4. Cardinality(B) \in Nat /\ Cardinality(I) \in Nat
      BY <2>1, <2>3, FS_CardinalityType
  <2>. QED BY <1>1, <2>1, <2>3, <2>4
<1>12. Cardinality(Closure(B) \ built) \in Nat /\ Cardinality(Closure(B) \ built) <= Size
  <2>1. IsFiniteSet(Closure(B) \ built) /\ Cardinality(Closure(B) \ built) <= Cardinality(B)
      BY <1>10, <1>11, FS_Subset
  <2>2. Cardinality(B) \in Nat /\ Cardinality(Closure(B) \ built) \in Nat
      BY <1>11, <2>1, FS_CardinalityType
  <2>. QED BY <1>1, <1>11, <2>1, <2>2
<1>. QED BY <1>2, <1>9, <1>12 DEF B

(* The steps of the plan that leave the walk alone, and those that do not. *)
LEMMA VisitsKeepPlan ==
    ASSUME PlanOK, PlanTypes', changes = 0, VisitTarget \/ \E i \in LocalModules : VisitImport(i)
    PROVE  /\ phase' = "plan" => DepthFirst' /\ Scheduled'
           /\ phase' # "plan" => phase' = "ended" /\ status' = 2 /\ Cyclic(LocalTargets)'
           /\ status' # 3
<1>1. /\ phase = "plan"
      /\ UNCHANGED <<imports, targets, t, visited, ordered, modules>>
      /\ PlanTypes /\ DepthFirst /\ Scheduled /\ status # 3
  <2>1. phase = "plan" /\ UNCHANGED <<imports, targets, t, visited, ordered, modules>>
      BY DEF VisitTarget, VisitImport
  <2>2. PlanTypes /\ DepthFirst /\ Scheduled /\ status # 3
      BY <2>1 DEF PlanOK
  <2>. QED BY <2>1, <2>2
<1>2. /\ UNCHANGED <<LocalTargets, Wanted, Under>>
      /\ Cyclic(LocalTargets)' <=> Cyclic(LocalTargets)
    BY <1>1, ClosuresStay
<1>3. Scheduled'
    BY <1>1, <1>2 DEF Scheduled
<1>. SUFFICES /\ phase' = "plan" => DepthFirst'
              /\ phase' # "plan" => phase' = "ended" /\ status' = 2 /\ Cyclic(LocalTargets)
              /\ status' # 3
    BY <1>2, <1>3
<1>4. CASE VisitTarget
  <2>1. /\ targets[t] \in LocalModules /\ targets[t] \notin visited /\ stack = <<>>
        /\ Visit(targets[t], stack)
      BY <1>4 DEF VisitTarget, Closed
  <2>2. targets[t] \in Wanted
    <3>1. targets \in Seq(DOMAIN RootOf) /\ t \in 1 .. Len(targets)
        BY <1>1, <1>4, BuildPlanAssumption DEF VisitTarget, PlanTypes
    <3>2. targets[t] \in LocalTargets
        BY <2>1, <3>1 DEF LocalTargets
    <3>. QED BY <1>1, <3>2, WantedCloses DEF PlanTypes
  <2>3. phase' = "plan" /\ status' = status
    <3>1. Visiting = {}
        BY <2>1 DEF Visiting
    <3>. QED BY <1>1, <2>1, <3>1 DEF Visit
  <2>4. stack \in Seq(Frames) /\ DOMAIN stack = {}
      BY <1>1, <2>1 DEF PlanTypes
  <2>5. DepthFirst'
      BY <1>1, <2>1, <2>2, <2>3, <2>4, VisitDepthFirst
  <2>. QED BY <1>1, <2>3, <2>5
<1>5. ASSUME NEW i \in LocalModules, VisitImport(i)
      PROVE  /\ phase' = "plan" => DepthFirst'
             /\ phase' # "plan" => phase' = "ended" /\ status' = 2 /\ Cyclic(LocalTargets)
             /\ status' # 3
  <2>1. stack # <<>> /\ i \in Last(stack).todo /\ Visit(i, Callers(i))
      BY <1>5 DEF VisitImport, Callers
  <2>2. /\ i \in imports[Last(stack).module] /\ i \in Wanted
        /\ \A k \in DOMAIN stack : i \in Under[stack[k].module]
      BY <1>1, <2>1, TopIsBelow
  <2>3. /\ Callers(i) \in Seq(Frames) /\ Len(Callers(i)) = Len(stack)
        /\ DOMAIN Callers(i) = DOMAIN stack
        /\ \A k \in DOMAIN stack :
              /\ Callers(i)[k].module = stack[k].module
              /\ k # Len(stack) => Callers(i)[k].todo = stack[k].todo
              /\ k = Len(stack) => Callers(i)[k].todo = stack[k].todo \ {i}
      BY <1>1, <2>1, CallersStay DEF PlanTypes
  <2>4. phase' = "plan" => DepthFirst'
      BY <1>1, <2>1, <2>2, <2>3, VisitDepthFirst
  <2>5. ASSUME phase' # "plan" PROVE phase' = "ended" /\ status' = 2 /\ Cyclic(LocalTargets)
    <3>1. i \in Visiting /\ phase' = "ended" /\ status' = 2
        BY <1>1, <2>1, <2>5 DEF Visit, Stop
    <3>2. PICK k \in DOMAIN stack : stack[k].module = i
        BY <3>1 DEF Visiting
    <3>3. i \in Under[i]
        BY <2>2, <3>2
    <3>. QED BY <1>1, <2>2, <3>1, <3>3, CyclicBelow DEF PlanTypes
  <2>6. status' # 3
      BY <1>1, <2>1 DEF Visit, Stop
  <2>. QED BY <2>4, <2>5, <2>6
<1>. QED BY <1>4, <1>5

LEMMA ReturnKeepsPlan ==
    ASSUME PlanOK, changes = 0, Return PROVE DepthFirst' /\ Scheduled'
<1>. DEFINE m == Last(stack).module
<1>1. /\ ordered' = Append(ordered, m) /\ phase = "plan"
      /\ UNCHANGED <<imports, targets, t, modules>>
    BY DEF Return
<1>2. PlanTypes /\ DepthFirst /\ Scheduled
    BY <1>1 DEF PlanOK
<1>3. DepthFirst' /\ imports[m] \subseteq visited /\ m \in LocalModules
    BY <1>2, ReturnDepthFirst
<1>4. UNCHANGED Wanted
    BY <1>1, ClosuresStay
<1>. HIDE DEF m
<1>5. /\ ordered \in Seq(LocalModules) /\ visited \subseteq ToSet(ordered) \cup ToSet(modules)
      /\ Len(ordered) \in Nat /\ DOMAIN ordered = 1 .. Len(ordered)
    BY <1>2 DEF PlanTypes
<1>6. /\ DOMAIN ordered' = DOMAIN ordered \cup {Len(ordered) + 1}
      /\ \A i \in DOMAIN ordered : ordered'[i] = ordered[i]
      /\ ordered'[Len(ordered) + 1] = m
    BY <1>1, <1>3, <1>5, Pushed
<1>7. ASSUME NEW i \in DOMAIN ordered'
      PROVE  imports[ordered'[i]] \subseteq ToSet(modules) \cup {ordered'[j] : j \in 1 .. i - 1}
  <2>1. {ordered[j] : j \in 1 .. i - 1} = {ordered'[j] : j \in 1 .. i - 1}
    <3>1. \A j \in 1 .. i - 1 : j \in DOMAIN ordered
        BY <1>5, <1>6
    <3>. QED BY <1>6, <3>1
  <2>2. CASE i \in DOMAIN ordered
      BY <1>2, <1>6, <2>1, <2>2 DEF Scheduled
  <2>3. CASE i = Len(ordered) + 1
    <3>1. 1 .. i - 1 = DOMAIN ordered
        BY <1>5, <2>3
    <3>2. ToSet(ordered) = {ordered[j] : j \in 1 .. i - 1}
        BY <3>1 DEF ToSet
    <3>. QED BY <1>3, <1>5, <1>6, <2>1, <2>3, <3>2
  <2>. QED BY <1>6, <2>2, <2>3
<1>. QED BY <1>1, <1>2, <1>3, <1>4, <1>7 DEF Scheduled

LEMMA ScheduleKeepsPlan ==
    ASSUME PlanOK, changes = 0, Schedule PROVE DepthFirst' /\ Scheduled'
<1>. DEFINE m == Head(ordered)
            n == Len(modules) + 1
<1>1. /\ ordered # <<>> /\ ordered' = Tail(ordered) /\ phase = "plan"
      /\ modules' = IF m \in ToSet(modules) THEN modules ELSE Append(modules, m)
      /\ UNCHANGED <<imports, targets, t, stack, visited>>
    BY DEF Schedule
<1>2. PlanTypes /\ DepthFirst /\ Scheduled
    BY <1>1 DEF PlanOK
<1>3. UNCHANGED <<Wanted, Under, Visiting>>
    BY <1>1, ClosuresStay DEF Visiting
<1>4. DepthFirst'
    BY <1>1, <1>2, <1>3 DEF DepthFirst
<1>5. /\ ordered \in Seq(LocalModules) /\ modules \in Seq(LocalModules)
      /\ ToSet(ordered) \subseteq visited
      /\ Len(modules) \in Nat /\ DOMAIN modules = 1 .. Len(modules)
    BY <1>2 DEF PlanTypes
<1>6. /\ \A i \in DOMAIN ordered' : i + 1 \in DOMAIN ordered /\ ordered'[i] = ordered[i + 1]
      /\ 1 \in DOMAIN ordered /\ m = ordered[1] /\ m \in LocalModules
      /\ ToSet(ordered) = {m} \cup ToSet(ordered')
      /\ ordered' \in Seq(LocalModules)
    BY <1>1, <1>5, Dequeued
<1>7. imports[m] \subseteq ToSet(modules) /\ m \in Wanted
  <2>1. 1 .. 1 - 1 = {}
      OBVIOUS
  <2>2. imports[m] \subseteq ToSet(modules)
      BY <1>2, <1>6, <2>1 DEF Scheduled
  <2>. QED BY <1>2, <1>5, <1>6, <2>2 DEF DepthFirst
<1>. HIDE DEF m
<1>8. /\ ToSet(modules') = ToSet(modules) \cup {m}
      /\ \A i \in DOMAIN modules : i \in DOMAIN modules' /\ modules'[i] = modules[i]
      /\ \A i \in DOMAIN modules' : i \in DOMAIN modules \/ (i = n /\ modules'[i] = m)
    BY <1>1, <1>5, <1>6, Pushed
<1>9. ASSUME NEW i \in DOMAIN ordered'
      PROVE  imports[ordered'[i]] \subseteq ToSet(modules') \cup {ordered'[j] : j \in 1 .. i - 1}
  <2>1. imports[ordered'[i]] \subseteq ToSet(modules) \cup {ordered[j] : j \in 1 .. i}
    <3>1. i + 1 - 1 = i /\ i \in Nat
        BY <1>6
    <3>. QED BY <1>2, <1>6, <3>1 DEF Scheduled
  <2>2. ASSUME NEW j \in 1 .. i PROVE ordered[j] \in {m} \cup {ordered'[k] : k \in 1 .. i - 1}
    <3>1. CASE j = 1
        BY <1>6, <3>1
    <3>2. CASE j # 1
      <4>1. j - 1 \in 1 .. i - 1 /\ j - 1 \in DOMAIN ordered' /\ (j - 1) + 1 = j
          BY <1>6, <2>2, <3>2
      <4>. QED BY <1>6, <4>1
    <3>. QED BY <3>1, <3>2
  <2>. QED BY <1>8, <2>1, <2>2
<1>10. ASSUME NEW i \in DOMAIN modules'
       PROVE  imports[modules'[i]] \subseteq {modules'[j] : j \in 1 .. i - 1}
  <2>1. CASE i \in DOMAIN modules
    <3>1. \A j \in 1 .. i - 1 : j \in DOMAIN modules
        BY <1>5, <2>1
    <3>2. {modules[j] : j \in 1 .. i - 1} = {modules'[j] : j \in 1 .. i - 1}
        BY <1>8, <3>1
    <3>. QED BY <1>2, <1>8, <2>1, <3>2 DEF Scheduled
  <2>2. CASE i = n /\ modules'[i] = m
    <3>1. 1 .. i - 1 = DOMAIN modules
        BY <1>5, <2>2
    <3>2. ToSet(modules) \subseteq {modules'[j] : j \in 1 .. i - 1}
        BY <1>8, <3>1 DEF ToSet
    <3>. QED BY <1>7, <2>2, <3>2
  <2>. QED BY <1>8, <2>1, <2>2
<1>. QED BY <1>1, <1>2, <1>3, <1>4, <1>7, <1>8, <1>9, <1>10 DEF Scheduled

LEMMA NextTargetKeepsPlan ==
    ASSUME PlanOK, changes = 0, NextTarget PROVE DepthFirst' /\ Scheduled'
<1>1. /\ phase = "plan" /\ ordered = <<>> /\ stack = <<>> /\ visited' = {} /\ t' = t + 1
      /\ targets[t] \in LocalModules => targets[t] \in visited
      /\ UNCHANGED <<imports, targets, stack, ordered, modules>>
    BY DEF NextTarget, Closed
<1>2. PlanTypes /\ Scheduled
    BY <1>1 DEF PlanOK
<1>3. UNCHANGED Wanted
    BY <1>1, ClosuresStay
<1>4. DepthFirst'
    BY <1>1 DEF DepthFirst, Visiting
<1>5. ToSet(ordered) = {} /\ visited \subseteq ToSet(modules)
    BY <1>1, <1>2 DEF ToSet, PlanTypes
<1>6. \A i \in 1 .. t' - 1 : i \in 1 .. t - 1 \/ i = t
    BY <1>1, <1>2 DEF PlanTypes
<1>. QED BY <1>1, <1>2, <1>3, <1>4, <1>5, <1>6 DEF Scheduled

(* A build carries the plan out: each command leaves what it asked for     *)
(* built.                                                                  *)
LEMMA BuildKeepsPlan ==
    ASSUME PlanOK, changes = 0, RunBuild, phase' = "run" PROVE Carried'
<1>1. /\ phase = "run" /\ UNCHANGED <<imports, targets, setting, modules>>
      /\ next <= Commands /\ next' = next + 1 /\ built' = built \cup Closure(Asked)
      /\ wave' = IF next <= Batches THEN Cardinality(Closure(Asked) \ built) ELSE 0
    BY DEF RunBuild, plan, Stop
<1>2. PlanTypes /\ Scheduled /\ Carried /\ ValidSetting(setting)
    BY <1>1 DEF PlanOK, PlanTypes
<1>3. /\ Size \in Nat /\ Size >= 1 /\ Batches \in Nat /\ Batches * Size >= Len(modules)
      /\ next \in Nat \ {0} /\ Len(modules) \in Nat /\ DOMAIN modules = 1 .. Len(modules)
    BY <1>2, WaveCount DEF PlanTypes
<1>4. UNCHANGED <<Needed, Batches, Size>>
    BY <1>1, ClosuresStay DEF Batches, Size
<1>5. CASE next <= Batches
  <2>1. Asked = Batch(next)
      BY <1>5 DEF Asked
  <2>2. /\ \A i \in DOMAIN modules : i <= next * Size => modules[i] \in built'
        /\ wave' \in Nat /\ wave' <= Size
      BY <1>1, <1>2, <1>3, <1>5, <2>1, WaveBuilds DEF Carried
  <2>3. next' > Batches => ToSet(modules) \subseteq built'
    <3>. SUFFICES ASSUME next' > Batches, NEW i \in DOMAIN modules PROVE modules[i] \in built'
        BY DEF ToSet
    <3>1. next = Batches
        BY <1>1, <1>3, <1>5
    <3>2. i <= next * Size
        BY <1>3, <3>1
    <3>. QED BY <2>2, <3>2
  <2>4. \A i \in DOMAIN targets : ~(Batches + i < next')
      BY <1>1, <1>2, <1>3, <1>5, BuildPlanAssumption DEF PlanTypes
  <2>5. next' - 1 = next
      BY <1>1, <1>3
  <2>. QED BY <1>1, <1>4, <2>2, <2>3, <2>4, <2>5 DEF Carried
<1>6. CASE next > Batches
  <2>1. Asked = {RootOf[targets[next - Batches]]}
      BY <1>3, <1>6 DEF Asked
  <2>2. targets \in Seq(DOMAIN RootOf)
      BY <1>2, BuildPlanAssumption DEF PlanTypes
  <2>3. next - Batches \in DOMAIN targets
      BY <1>1, <1>3, <1>6, <2>2 DEF Commands
  <2>4. Needed[next - Batches] \subseteq built'
      BY <1>1, <2>1, <2>3 DEF Needed
  <2>5. \A i \in DOMAIN targets : Batches + i < next' => Batches + i < next \/ i = next - Batches
      BY <1>1, <1>3, <2>2
  <2>6. \A i \in DOMAIN targets : Batches + i < next' => Needed[i] \subseteq built'
      BY <1>1, <1>2, <2>4, <2>5 DEF Carried
  <2>7. wave' = 0 /\ ToSet(modules) \subseteq built' /\ ~(next' <= Batches + 1)
      BY <1>1, <1>2, <1>3, <1>6 DEF Carried
  <2>. QED BY <1>1, <1>3, <1>4, <2>6, <2>7 DEF Carried
<1>. QED BY <1>3, <1>5, <1>6

(* When every command has run, nothing is left to build.                   *)
LEMMA NothingIsLeft ==
    ASSUME PlanOK, changes = 0, ClosureCheck PROVE phase' = "ended" /\ status' = 0
<1>1. phase = "run" /\ next > Commands /\ phase' = "ended"
    BY DEF ClosureCheck, Stop
<1>2. PlanTypes /\ Carried /\ ValidSetting(setting)
    BY <1>1 DEF PlanOK, PlanTypes
<1>3. targets \in Seq(DOMAIN RootOf) /\ \A i \in DOMAIN targets : RootOf[targets[i]] \in LocalModules
    BY <1>2, BuildPlanAssumption DEF PlanTypes
<1>4. Batches \in Nat /\ next \in Nat
    BY <1>2, WaveCount DEF PlanTypes
<1>5. ASSUME NEW i \in DOMAIN targets PROVE Needed[i] \subseteq built
  <2>1. Batches + i < next
      BY <1>1, <1>3, <1>4 DEF Commands
  <2>. QED BY <1>2, <2>1 DEF Carried
<1>6. ASSUME NEW i \in DOMAIN targets
      PROVE  /\ RootOf[targets[i]] \in Needed[i] /\ Needed[i] \subseteq LocalModules
             /\ \A x \in Needed[i] : imports[x] \subseteq Needed[i]
  <2>1. {RootOf[targets[i]]} \in SUBSET LocalModules
      BY <1>3
  <2>. QED BY <1>2, <2>1, ClosureCloses DEF Needed, PlanTypes
<1>. DEFINE U == UNION {Needed[i] : i \in DOMAIN targets}
<1>7. U \subseteq LocalModules /\ Roots \subseteq U /\ \A x \in U : imports[x] \subseteq U
    BY <1>6 DEF Roots
<1>8. Closure(Roots) \subseteq U
    BY <1>7, ClosureLeast
<1>9. U \subseteq built
    BY <1>5
<1>. QED BY <1>8, <1>9 DEF ClosureCheck, Stop

LEMMA PlanStep == PlanOK /\ [PlanNext]_planVars => PlanOK'
<1>. SUFFICES ASSUME PlanOK, [PlanNext]_planVars PROVE PlanOK'
    OBVIOUS
<1>1. PlanTypes /\ PlanTypes'
    BY PlanTypesStep DEF PlanOK
<1>. SUFFICES ASSUME changes' = 0
              PROVE  /\ status' # 3
                     /\ phase' = "configure" => stack' = <<>> /\ visited' = {} /\ ordered' = <<>>
                                                /\ modules' = <<>> /\ t' = 1
                     /\ phase' = "plan" => DepthFirst'
                     /\ phase' \in {"plan", "lease", "run"} => Scheduled'
                     /\ phase' = "ended" /\ t' <= Len(targets') /\ Accepts(targets')
                          /\ ValidSetting(setting') => Cyclic(LocalTargets)'
                     /\ phase' = "run" => Carried'
    BY <1>1 DEF PlanOK
<1>2. CASE Configure
  <2>1. /\ phase = "configure" /\ changes = 0
        /\ UNCHANGED <<targets, setting, t, stack, visited, ordered, modules>>
        /\ IF Accepts(targets) /\ ValidSetting(setting) THEN phase' = "plan" /\ status' = status
                                                        ELSE phase' = "ended" /\ status' = 2
      BY <1>2 DEF Configure, Stop, plan
  <2>2. /\ stack' = <<>> /\ visited' = {} /\ ordered' = <<>> /\ modules' = <<>> /\ t' = 1
        /\ status # 3
      BY <2>1 DEF PlanOK
  <2>3. DepthFirst' /\ Scheduled'
      BY <2>2 DEF DepthFirst, Scheduled, Visiting, ToSet
  <2>. QED BY <2>1, <2>2, <2>3
<1>3. CASE VisitTarget \/ \E i \in LocalModules : VisitImport(i)
  <2>1. changes = 0
      BY <1>3 DEF VisitTarget, VisitImport
  <2>. QED BY <1>1, <1>3, <2>1, VisitsKeepPlan
<1>4. CASE Return \/ Schedule \/ NextTarget
  <2>1. changes = 0 /\ phase = "plan" /\ phase' = "plan" /\ status' = status
      BY <1>4 DEF Return, Schedule, NextTarget
  <2>2. DepthFirst' /\ Scheduled'
      BY <1>4, <2>1, ReturnKeepsPlan, ScheduleKeepsPlan, NextTargetKeepsPlan
  <2>3. status # 3
      BY <2>1 DEF PlanOK
  <2>. QED BY <2>1, <2>2, <2>3
<1>5. ASSUME UNCHANGED <<imports, plan, changes>>
      PROVE  /\ Scheduled => Scheduled'
             /\ Cyclic(LocalTargets)' <=> Cyclic(LocalTargets)
             /\ UNCHANGED <<targets, setting, t, stack, visited, ordered, modules>>
  <2>1. UNCHANGED <<targets, setting, t, stack, visited, ordered, modules>>
      BY <1>5 DEF plan
  <2>2. UNCHANGED Wanted /\ (Cyclic(LocalTargets)' <=> Cyclic(LocalTargets))
      BY <1>5, <2>1, ClosuresStay
  <2>3. Scheduled => Scheduled'
      BY <1>5, <2>1, <2>2 DEF Scheduled
  <2>. QED BY <2>1, <2>2, <2>3
<1>6. CASE PlanMade
  <2>1. /\ UNCHANGED <<imports, plan, status, changes>> /\ phase = "plan" /\ phase' = "lease"
      BY <1>6 DEF PlanMade
  <2>. QED BY <1>5, <2>1 DEF PlanOK
<1>7. CASE TakeLease
  <2>1. /\ UNCHANGED <<imports, plan, next, built, wave, changes>> /\ phase = "lease"
        /\ (phase' = "run" /\ status' = status) \/ (phase' = "ended" /\ status' = 2)
      BY <1>7 DEF TakeLease, Stop
  <2>2. /\ next' = 1 /\ wave' = 0 /\ t' = Len(targets') + 1 /\ ValidSetting(setting')
        /\ status # 3 /\ Scheduled /\ targets' \in Seq(DOMAIN RootOf)
      BY <1>1, <1>5, <2>1, BuildPlanAssumption DEF PlanOK, PlanTypes
  <2>3. phase' = "run" => Carried'
    <3>1. /\ Size' \in Nat /\ Size' >= 1 /\ Batches' \in Nat /\ Batches' * Size' >= Len(modules')
          /\ modules' \in Seq(LocalModules)
      <4>1. UNCHANGED <<setting, modules>> /\ UNCHANGED Size
          BY <1>5, <2>1 DEF Size
      <4>2. UNCHANGED Batches
          BY <4>1 DEF Batches
      <4>. QED BY <1>1, <2>2, <4>1, <4>2, WaveCount DEF PlanTypes
    <3>2. next' > Batches' => modules' = <<>>
        BY <2>2, <3>1
    <3>3. next' > Batches' => ToSet(modules') = {}
        BY <3>2 DEF ToSet
    <3>4. \A i \in DOMAIN modules' : ~(i <= (next' - 1) * Size')
        BY <2>2, <3>1
    <3>5. \A i \in DOMAIN targets' : ~(Batches' + i < next')
        BY <2>2, <3>1
    <3>. QED BY <2>2, <3>1, <3>3, <3>4, <3>5 DEF Carried
  <2>4. t' <= Len(targets') => FALSE
      BY <2>2
  <2>. QED BY <1>5, <2>1, <2>2, <2>3, <2>4
<1>8. CASE RunBuild
  <2>1. /\ UNCHANGED <<imports, plan, changes>> /\ phase = "run"
        /\ (phase' = "run" /\ status' = status) \/ (phase' = "ended" /\ status' = 1)
      BY <1>8 DEF RunBuild, Stop
  <2>2. t' = Len(targets') + 1 /\ Len(targets') \in Nat /\ status # 3 /\ Scheduled
      BY <1>1, <1>5, <2>1, BuildPlanAssumption DEF PlanOK, PlanTypes
  <2>3. t' <= Len(targets') => FALSE
      BY <2>2
  <2>. QED BY <1>5, <1>8, <2>1, <2>2, <2>3, BuildKeepsPlan
<1>9. CASE ClosureCheck
  <2>1. UNCHANGED <<imports, plan, changes>> /\ phase = "run"
      BY <1>9 DEF ClosureCheck
  <2>2. t' = Len(targets') + 1 /\ Len(targets') \in Nat
      BY <1>1, <1>5, <2>1, BuildPlanAssumption DEF PlanOK, PlanTypes
  <2>3. t' <= Len(targets') => FALSE
      BY <2>2
  <2>. QED BY <1>9, <2>1, <2>3, NothingIsLeft
<1>10. ASSUME NEW m \in LocalModules, EditImports(m) PROVE FALSE
    BY <1>1, <1>10 DEF EditImports, PlanTypes
<1>11. CASE UNCHANGED planVars
  <2>1. UNCHANGED <<imports, plan, phase, status, next, built, wave, changes>>
      BY <1>11 DEF planVars
  <2>2. UNCHANGED <<targets, setting, t, stack, visited, ordered, modules>>
      BY <2>1 DEF plan
  <2>3. UNCHANGED <<LocalTargets, Wanted, Under, Needed, Visiting, Batches, Size>>
      BY <2>1, <2>2, ClosuresStay DEF Visiting, Batches, Size
  <2>4. DepthFirst => DepthFirst'
      BY <2>1, <2>2, <2>3 DEF DepthFirst
  <2>5. Carried => Carried'
      BY <2>1, <2>2, <2>3 DEF Carried
  <2>. QED BY <1>5, <2>1, <2>2, <2>4, <2>5 DEF PlanOK
<1>. QED BY <1>2, <1>3, <1>4, <1>6, <1>7, <1>8, <1>9, <1>10, <1>11 DEF PlanNext, PlanTerminated

(* The walk nests no deeper than there are modules.                        *)
LEMMA StackIsBounded == PlanTypes => Len(stack) <= Cardinality(LocalModules)
<1>. SUFFICES ASSUME PlanTypes PROVE Len(stack) <= Cardinality(LocalModules)
    OBVIOUS
<1>. DEFINE n == Len(stack)
            f == [i \in 1 .. n |-> stack[i].module]
<1>1. n \in Nat /\ DOMAIN stack = 1 .. n /\ \A i \in 1 .. n : stack[i] \in Frames
    BY DEF PlanTypes
<1>2. f \in [1 .. n -> LocalModules]
    BY <1>1 DEF Frames
<1>3. \A i, j \in 1 .. n : f[i] = f[j] => i = j
    BY <1>1 DEF PlanTypes
<1>4. f \in Injection(1 .. n, LocalModules)
    BY <1>2, <1>3 DEF Injection, IsInjective
<1>5. Cardinality(1 .. n) <= Cardinality(LocalModules)
    BY <1>4, FS_Injection, BuildPlanAssumption
<1>6. Cardinality(1 .. n) = n
    BY <1>1, FS_Interval
<1>. QED BY <1>5, <1>6

(* A plan in order has whatever the targets need, and no cycle.            *)
LEMMA OrderedPlan ==
    ASSUME PlanTypes, Scheduled, t = Len(targets) + 1
    PROVE  ToSet(modules) = Wanted /\ ~Cyclic(LocalTargets)
<1>1. /\ modules \in Seq(LocalModules) /\ DOMAIN modules = 1 .. Len(modules)
      /\ imports \in [LocalModules -> SUBSET LocalModules] /\ IsInjective(modules)
      /\ targets \in Seq(DOMAIN RootOf)
    BY BuildPlanAssumption DEF PlanTypes
<1>. DEFINE Before(i) == {modules[j] : j \in 1 .. i - 1}
<1>2. ASSUME NEW i \in DOMAIN modules
      PROVE  /\ Before(i) \in SUBSET LocalModules /\ Before(i) \subseteq ToSet(modules)
             /\ \A x \in Before(i) : imports[x] \subseteq Before(i)
  <2>1. \A j \in 1 .. i - 1 : j \in DOMAIN modules /\ 1 .. j - 1 \subseteq 1 .. i - 1
      BY <1>1
  <2>2. \A j \in 1 .. i - 1 : imports[modules[j]] \subseteq Before(j) /\ Before(j) \subseteq Before(i)
      BY <2>1 DEF Scheduled
  <2>3. Before(i) \subseteq ToSet(modules) /\ ToSet(modules) \subseteq LocalModules
      BY <1>1, <2>1 DEF ToSet
  <2>4. \A x \in Before(i) : imports[x] \subseteq Before(i)
      BY <2>2
  <2>. QED BY <2>3, <2>4
<1>3. \A i \in DOMAIN modules : imports[modules[i]] \subseteq Before(i)
    BY DEF Scheduled
<1>. HIDE DEF Before
<1>4. Wanted \subseteq ToSet(modules)
  <2>1. ToSet(modules) \in SUBSET LocalModules
      BY <1>1 DEF ToSet
  <2>2. \A x \in ToSet(modules) : imports[x] \subseteq ToSet(modules)
      BY <1>2, <1>3 DEF ToSet
  <2>3. LocalTargets \subseteq ToSet(modules)
    <3>1. \A i \in DOMAIN targets : i \in 1 .. t - 1
        BY <1>1
    <3>. QED BY <3>1 DEF LocalTargets, Scheduled
  <2>. QED BY <2>1, <2>2, <2>3, ClosureLeast DEF Wanted
<1>5. ASSUME NEW m \in Wanted, m \in Under[m] PROVE FALSE
  <2>1. PICK i \in DOMAIN modules : m = modules[i]
      BY <1>4 DEF ToSet
  <2>2. m \in LocalModules
      BY <1>1, <2>1
  <2>3. Closure(imports[m]) \subseteq Before(i)
      BY <1>2, <1>3, <2>1, ClosureLeast
  <2>4. m \in Before(i)
      BY <1>5, <2>2, <2>3 DEF Under
  <2>5. PICK j \in 1 .. i - 1 : modules[j] = modules[i]
      BY <2>1, <2>4 DEF Before
  <2>6. j \in DOMAIN modules /\ j # i
      BY <1>1
  <2>. QED BY <1>1, <2>5, <2>6 DEF IsInjective
<1>. QED BY <1>1, <1>4, <1>5, CyclicBelow DEF Scheduled

LEMMA PlanInvariant == PlanSpec => []PlanOK
<1>1. PlanInit => PlanOK
  <2>. SUFFICES ASSUME PlanInit PROVE PlanOK
      OBVIOUS
  <2>. QED BY PlanStart DEF PlanInit, PlanOK
<1>. QED BY <1>1, PlanStep, PTL DEF PlanSpec

(* For every project, every list of targets, every batch size and every    *)
(* edit beside the build: the walk nests no deeper than there are modules; *)
(* and in a tree that holds still the plan is the closure of the targets,  *)
(* each module once and after all it imports, planning gives up exactly    *)
(* on a cycle, no wave compiles more than the batch size, and the waves    *)
(* and phases leave nothing to build.                                      *)
THEOREM PlansAreSound == Spec => []PlanInv
<1>1. PlanOK => PlanInv
  <2>. SUFFICES ASSUME PlanOK PROVE PlanInv
      OBVIOUS
  <2>1. PlanTypes
      BY DEF PlanOK
  <2>2. PlanTypeOK
    <3>1. Visiting \subseteq LocalModules
      <4>1. \A i \in DOMAIN stack : stack[i] \in Frames
          BY <2>1 DEF PlanTypes
      <4>. QED BY <4>1 DEF Visiting, Frames
    <3>. QED BY <2>1, <3>1, StackIsBounded DEF PlanTypes, PlanTypeOK
  <2>3. changes = 0 /\ phase \in {"lease", "run"} =>
           /\ ToSet(modules) = Wanted /\ ~Cyclic(LocalTargets)
           /\ Scheduled /\ ValidSetting(setting)
      BY <2>1, OrderedPlan DEF PlanOK, PlanTypes
  <2>4. PlanIsTopological
      BY <2>1, <2>3 DEF PlanIsTopological, Scheduled, Wanted, PlanTypes
  <2>5. CyclesAreFound
      BY <2>3 DEF CyclesAreFound, PlanOK
  <2>6. changes = 0 /\ phase = "run" => Carried
      BY DEF PlanOK
  <2>7. WavesBoundedWhenQuiet /\ WavesSufficeWhenQuiet /\ PhasesSuffice
      BY <2>1, <2>3, <2>6, WaveCount
         DEF WavesBoundedWhenQuiet, WavesSufficeWhenQuiet, PhasesSuffice, PlanOK, Carried
  <2>. QED BY <2>2, <2>4, <2>5, <2>7 DEF PlanInv
<1>. QED BY <1>1, PlanInvariant, ScriptBehaves, PTL

==============================================================================
