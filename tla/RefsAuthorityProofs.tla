------------------------ MODULE RefsAuthorityProofs ------------------------
(***************************************************************************)
(* Theorems about RefsAuthority, for every set of launchers and gates run  *)
(* by hand, every order of modules, every umbrella, batch size and budget. *)
(*                                                                         *)
(* Everything rests on two facts.  A gate that started carries the nonce   *)
(* of a launcher that wrote its authority, and that launcher never writes  *)
(* it again (Capabilities): the manifest and the plan are constants of the *)
(* gate.  And every write of a source or a product happens at a time later *)
(* than every time recorded so far (Types): a file with the recorded time  *)
(* is still the file that was recorded, a file that once differed differs  *)
(* for good, and what a loop established of the files it has passed stays  *)
(* true while the loop goes on (Scanned).                                  *)
(***************************************************************************)
EXTENDS RefsAuthority, WellFoundedInduction, TLAPS

LPlaces == {"idle", "gate", "plan", "build", "replan", "hash", "stat", "spawn", "wait",
            "unlink", "ended", "killed"}

GPlaces == {"idle", "read", "remove", "tool", "enumerate", "entries", "discover", "scan",
            "lines", "passed", "failed", "refused", "raised", "killed"}

Built == Texts \cup {"absent"}

Types ==
    /\ TypeOK
    /\ lpc \in [Launchers -> LPlaces] /\ gpc \in [Gates -> GPlaces]
    /\ manifest \in [Launchers ->
           [Files -> [text : Texts, at : 0 .. clock, of : Built, built : 0 .. clock]]]
    /\ accepted \in [Gates -> BOOLEAN] /\ sound \in [Gates -> BOOLEAN]
    /\ seen \in [Gates -> SUBSET Modules]
    /\ loaded \in [Gates -> [Modules -> Built]]
    /\ lines \in [Gates -> [Modules -> Texts]]

-----------------------------------------------------------------------------

(* The places of a launcher that has written its authority.                *)
Late == {"spawn", "wait", "unlink", "ended", "killed"}

Scanning == {"discover", "scan", "lines"}

(* Whose token may exist, who authorised a gate, and how far it has come.  *)
Capabilities ==
    /\ \A l \in tokens : lpc[l] \in {"spawn", "wait", "unlink", "killed"}
    /\ \A l \in Launchers :
          /\ nonce[l] = l
          /\ lpc[l] = "stat" => Left(plan[l], at[l]) # {}
          /\ gpc[l] # "idle" => lpc[l] \in {"wait", "unlink", "ended", "killed"}
    /\ \A g \in Gates :
          /\ gpc[g] # "idle" => nonce[g] \in Launchers /\ lpc[nonce[g]] \in Late
          /\ accepted[g] => gpc[g] \notin {"idle", "read", "remove"} /\ nonce[g] \notin tokens
          /\ gpc[g] \in {"idle", "read", "remove"} => pass[g] = 0
          /\ gpc[g] \in Scanning => pass[g] = 1
          /\ gpc[g] \in {"tool", "enumerate", "entries"} => pass[g] \in 1 .. 3
          /\ gpc[g] \in {"passed", "failed"} => pass[g] = 3

-----------------------------------------------------------------------------

(* What has the recorded time has the recorded contents, and the product   *)
(* was compiled from the source: what the first verification established.  *)
Verified(g, m) ==
    /\ source[m].at = Entry(g, m).at => source[m].text = Entry(g, m).text
    /\ product[m].at = Entry(g, m).built => product[m].of = Entry(g, m).of
    /\ Entry(g, m).of = Entry(g, m).text

(* What was loaded, and the citations read, are those of the files with    *)
(* the recorded times.                                                     *)
LoadedAsRecorded(g, m) ==
    loaded[g][m] # "absent" /\ product[m].at = Entry(g, m).built => product[m].of = loaded[g][m]

ReadAsRecorded(g, m) == source[m].at = Entry(g, m).at => source[m].text = lines[g][m]

(* A barrier that cannot end in a pass although the tree is not sound: the *)
(* verdict is no pass, or the loop has still to come to a changed file.    *)
Stopped(g) ==
    \/ Verdict(g) # "passed"
    \/ \E j \in Positions :
          at[g] <= j /\ Order[j] \in plan[nonce[g]] /\ ~StatMatches(g, Order[j])

Passed(g, m) == \E j \in Positions : j < at[g] /\ Order[j] = m

Scanned(g) ==
    /\ gpc[g] = "entries" =>
          \A m \in plan[nonce[g]] : Passed(g, m) => Verified(g, m)
    /\ gpc[g] \in Scanning \/ pass[g] >= 2 => \A m \in plan[nonce[g]] : Verified(g, m)
    /\ gpc[g] \in Scanning \ {"discover"} \/ pass[g] >= 2 =>
          \A m \in Modules : LoadedAsRecorded(g, m)
    /\ gpc[g] = "lines" => \A m \in seen[g] : Passed(g, m) => ReadAsRecorded(g, m)
    /\ pass[g] >= 2 => \A m \in seen[g] : ReadAsRecorded(g, m)
    /\ gpc[g] = "entries" /\ pass[g] = 3 => sound[g] \/ Stopped(g)
    /\ gpc[g] = "passed" => sound[g]

-----------------------------------------------------------------------------

Calm == edits = 0 /\ retracks = 0 /\ kills = 0 /\ \A g \in Raws : gpc[g] = "idle"

(* The product is there and is what the launcher recorded.                 *)
Accurate(l, f) ==
    /\ product[f].of = "none"
    /\ manifest[l][f].at = 0
    /\ manifest[l][f].of = "none"
    /\ manifest[l][f].built = product[f].at

Planned == {"build", "replan", "hash", "stat", "spawn", "wait"}

Running(g) == gpc[g] # "idle" /\ ~GateEnded(g)

(* A checkout nobody touches, and a launcher in it.                        *)
Untouched ==
    /\ \A f \in Files : /\ source[f] = [text |-> "none", at |-> 0]
                        /\ product[f] = Absent \/ product[f].of = "none"
    /\ census = Modules

OnCourse(l) ==
    /\ \A f \in Files : manifest[l][f].text = "none"
    /\ lpc[l] \in Planned => plan[l] = Modules
    /\ lpc[l] \in Planned \cup {"plan"} => product[Tool].of = "none"
    /\ lpc[l] = "stat" => product[Current(l, plan[l])].of = "none"
    /\ lpc[l] \in {"hash", "stat"} => \A m \in Modules : Passed(l, m) => Accurate(l, m)
    /\ lpc[l] \in {"spawn", "wait"} => \A f \in Files : Accurate(l, f)
    /\ lpc[l] = "spawn" \/ gpc[l] \in {"read", "remove"} => l \in tokens
    /\ Running(l) => lpc[l] = "wait"
    /\ gpc[l] # "refused"

Undisturbed == Untouched /\ \A l \in Launchers : OnCourse(l)

(* Every nonempty set of positions has its first one.                      *)
LEMMA LeastNat ==
    ASSUME NEW T \in SUBSET Nat, T # {}
    PROVE  \E n \in T : \A m \in T : n <= m
<1> DEFINE Below == {p \in Nat \X Nat : p[1] < p[2]}
<1>1. IsWellFoundedOn(Below, Nat)
  BY NatLessThanWellFounded DEF OpToRel
<1>2. \A m, n \in Nat : m < n => <<m, n>> \in Below
  OBVIOUS
<1> HIDE DEF Below
<1>3. PICK n \in T : \A m \in T : <<m, n>> \notin Below
  BY <1>1, WFMin
<1>4. \A m \in T : ~(m < n)
  BY <1>2, <1>3
<1> QED BY <1>4

LEMMA Ordered ==
    /\ Len(Order) \in Nat
    /\ Positions = 1 .. Len(Order)
    /\ \A i \in Positions : Order[i] \in Modules
    /\ \A m \in Modules : \E i \in Positions : m = Order[i]
    /\ \A i, j \in Positions : Order[i] = Order[j] => i = j
BY RefsAuthorityAssumption DEF Positions, Modules

LEMMA FirstOf ==
    ASSUME NEW S \in SUBSET Positions, S # {}
    PROVE  First(S) \in S /\ \A j \in S : First(S) <= j
<1>1. S \in SUBSET Nat
  BY Ordered
<1>2. PICK n \in S : \A m \in S : n <= m
  BY <1>1, LeastNat
<1> QED BY <1>2 DEF First

(* A loop comes next to the module of the first position that is left.     *)
LEMMA NextLeft ==
    ASSUME NEW modules, NEW i \in Nat, Left(modules, i) # {}
    PROVE  /\ First(Left(modules, i)) \in Positions
           /\ Order[First(Left(modules, i))] \in modules
           /\ i <= First(Left(modules, i))
           /\ \A j \in Left(modules, i) : First(Left(modules, i)) <= j
<1>1. Left(modules, i) \in SUBSET Positions
  BY DEF Left
<1>2. First(Left(modules, i)) \in Left(modules, i)
  BY <1>1, FirstOf
<1>3. \A j \in Left(modules, i) : First(Left(modules, i)) <= j
  BY <1>1, FirstOf
<1> QED BY <1>2, <1>3 DEF Left

(* What a loop over these modules has passed when it goes on: what it had  *)
(* passed before and the module it came to; and all of them at its end.    *)
LEMMA PassedNext ==
    ASSUME NEW modules, NEW i \in Nat, NEW k, NEW j \in Positions,
           Left(modules, i) # {}, k = First(Left(modules, i)),
           j < k + 1, Order[j] \in modules
    PROVE  j < i \/ j = k
<1>1. k \in Positions /\ \A n \in Left(modules, i) : k <= n
  BY NextLeft
<1>2. j \in Nat /\ k \in Nat
  BY <1>1, Ordered
<1>3. CASE i <= j
  <2>1. j \in Left(modules, i)
    BY <1>3 DEF Left
  <2> QED BY <1>1, <1>2, <2>1
<1> QED BY <1>2, <1>3

LEMMA PassedAll ==
    ASSUME NEW modules \in SUBSET Modules, NEW i \in Nat, Left(modules, i) = {}, NEW m \in modules
    PROVE  \E j \in Positions : j < i /\ Order[j] = m
<1>1. PICK j \in Positions : m = Order[j]
  BY Ordered
<1>2. j \in Nat /\ ~(i <= j)
  BY <1>1, Ordered DEF Left
<1> QED BY <1>1, <1>2

-----------------------------------------------------------------------------
(* Types                                                                   *)

LEMMA MadeType ==
    ASSUME Types, NEW files
    PROVE  /\ Made(files) \in [Files -> [of : Built, at : 0 .. clock + 1]]
           /\ clock + 1 \in Nat
BY DEF Types, TypeOK, Made, Built

(* Times recorded so far stay within a clock that goes on.                 *)
LEMMA Later ==
    ASSUME Types, NEW c \in Nat, clock <= c
    PROVE  /\ source \in [Files -> [text : Texts, at : 0 .. c]]
           /\ product \in [Files -> [of : Built, at : 0 .. c]]
           /\ manifest \in [Launchers ->
                  [Files -> [text : Texts, at : 0 .. c, of : Built, built : 0 .. c]]]
<1>1. 0 .. clock \subseteq 0 .. c
  BY DEF Types, TypeOK
<1>2. source \in [Files -> [text : Texts, at : 0 .. c]]
  BY <1>1 DEF Types, TypeOK
<1>3. product \in [Files -> [of : Built, at : 0 .. c]]
  BY <1>1 DEF Types, TypeOK, Built
<1>4. ASSUME NEW l \in Launchers
      PROVE  manifest[l] \in [Files -> [text : Texts, at : 0 .. c, of : Built, built : 0 .. c]]
  BY <1>1 DEF Types
<1>5. manifest \in [Launchers ->
                  [Files -> [text : Texts, at : 0 .. c, of : Built, built : 0 .. c]]]
  BY <1>4 DEF Types
<1> QED BY <1>2, <1>3, <1>5

LEMMA BuildType ==
    ASSUME Types, NEW files, Build(files)
    PROVE  /\ product' \in [Files -> [of : Built, at : 0 .. clock']]
           /\ source \in [Files -> [text : Texts, at : 0 .. clock']]
           /\ manifest \in [Launchers ->
                  [Files -> [text : Texts, at : 0 .. clock', of : Built, built : 0 .. clock']]]
           /\ clock' \in Nat /\ clock' = clock + 1
<1>1. clock' = clock + 1 /\ product' = Made(files)
  BY DEF Build
<1>2. clock \in Nat
  BY DEF Types, TypeOK
<1> QED BY <1>1, <1>2, MadeType, Later

LEMMA TypesInit == Init => Types
<1> SUFFICES ASSUME Init PROVE Types
  OBVIOUS
<1> USE DEF Init
<1>1. Len(Order) + 1 \in Nat /\ 1 \in 1 .. Len(Order) + 1 /\ 0 \in 0 .. Len(Order)
  BY Ordered
<1>2. \A l \in Launchers : l # None /\ l \in Gates
  BY RefsAuthorityAssumption DEF Gates
<1>3. TypeOK
  BY <1>1, <1>2 DEF TypeOK, Absent, Texts, PoolPlaces, Gates, Files
<1>4. lpc \in [Launchers -> LPlaces] /\ gpc \in [Gates -> GPlaces]
  BY DEF LPlaces, GPlaces
<1>5. manifest \in [Launchers ->
           [Files -> [text : Texts, at : 0 .. clock, of : Built, built : 0 .. clock]]]
  BY DEF Unchecked, Texts, Built
<1>6. /\ accepted \in [Gates -> BOOLEAN] /\ sound \in [Gates -> BOOLEAN]
      /\ seen \in [Gates -> SUBSET Modules]
      /\ loaded \in [Gates -> [Modules -> Built]]
      /\ lines \in [Gates -> [Modules -> Texts]]
  BY DEF Texts, Built
<1> QED BY <1>3, <1>4, <1>5, <1>6 DEF Types

(* The position after the one a loop came to.                              *)
LEMMA AdvanceType ==
    ASSUME Types, NEW p \in Gates, NEW modules, Left(modules, at[p]) # {}, Advance(p, modules)
    PROVE  at' \in [Gates -> 1 .. Len(Order) + 1]
<1>1. at \in [Gates -> 1 .. Len(Order) + 1] /\ at[p] \in Nat
  BY Ordered DEF Types, TypeOK
<1> DEFINE k == First(Left(modules, at[p]))
<1>2. k \in Positions
  BY <1>1, NextLeft
<1>3. k + 1 \in 1 .. Len(Order) + 1
  BY <1>2, Ordered
<1>4. at' = [at EXCEPT ![p] = k + 1]
  BY DEF Advance
<1> QED BY <1>1, <1>3, <1>4

(* What a loop over the plan comes to is a file.                           *)
LEMMA CurrentIsFile ==
    ASSUME Types, NEW p \in Gates, NEW modules, Left(modules, at[p]) # {}
    PROVE  /\ Current(p, modules) \in Modules /\ Current(p, modules) \in modules
           /\ Current(p, modules) \in Files
<1>1. at[p] \in Nat
  BY Ordered DEF Types, TypeOK
<1> QED BY <1>1, NextLeft, Ordered DEF Current, Files

LEMMA RecordedType ==
    ASSUME Types, NEW l \in Launchers, NEW f \in Files
    PROVE  /\ Recorded(l, f).text = manifest[l][f].text
           /\ Recorded(l, f).at = source[f].at
           /\ Recorded(l, f).of = product[f].of
           /\ Recorded(l, f).built = product[f].at
           /\ Recorded(l, f) \in [text : Texts, at : 0 .. clock, of : Built, built : 0 .. clock]
           /\ [Recorded(l, f) EXCEPT !.text = source[f].text] \in
                  [text : Texts, at : 0 .. clock, of : Built, built : 0 .. clock]
<1>1. manifest[l][f] \in [text : Texts, at : 0 .. clock, of : Built, built : 0 .. clock]
  BY DEF Types
<1>2. source[f] \in [text : Texts, at : 0 .. clock]
  BY DEF Types, TypeOK
<1>3. product[f] \in [of : Built, at : 0 .. clock]
  BY DEF Types, TypeOK, Built
<1> QED BY <1>1, <1>2, <1>3 DEF Recorded

(* Recording one more entry.                                               *)
LEMMA ManifestType ==
    ASSUME Types, NEW l \in Launchers, NEW f \in Files,
           NEW e \in [text : Texts, at : 0 .. clock, of : Built, built : 0 .. clock]
    PROVE  [manifest EXCEPT ![l][f] = e] \in [Launchers ->
               [Files -> [text : Texts, at : 0 .. clock, of : Built, built : 0 .. clock]]]
BY DEF Types

LEMMA LaunchTypes ==
    ASSUME Types, Capabilities, NEW l \in Launchers, LaunchStep(l) \/ KillLauncher(l)
    PROVE  Types'
<1> USE DEF Types, TypeOK, LGoto, LPlaces
<1>0. /\ 1 \in 1 .. Len(Order) + 1
      /\ l \in Gates
      /\ tokens \cup {l} \subseteq Launchers /\ tokens \ {l} \subseteq Launchers
      /\ 1 + 1 \in Nat
  BY Ordered DEF Gates
<1>1. CASE Begin(l)
  BY <1>1 DEF Begin, gate, disk, bounds
<1>2. CASE Decline(l)
  BY <1>2 DEF Decline, gate, disk, bounds
<1>3. CASE BuildGate(l)
  <2>1. CASE Build({Tool}) /\ LGoto(l, "plan") /\ UNCHANGED holder
    BY <1>3, <2>1, BuildType DEF BuildGate, gate, bounds, Built
  <2>2. CASE Release(l) /\ UNCHANGED <<product, clock>>
    BY <1>3, <2>2 DEF BuildGate, gate, bounds, Release
  <2> QED BY <1>3, <2>1, <2>2 DEF BuildGate
<1>4. CASE AuthorityPlan(l)
  BY <1>0, <1>4 DEF AuthorityPlan, gate, disk, bounds, Restart
<1>5. CASE AuthorityBuild(l)
  <2>1. CASE Left(plan[l], at[l]) = {} /\ LGoto(l, "replan") /\ UNCHANGED <<product, clock, holder, at>>
    BY <1>5, <2>1 DEF AuthorityBuild, gate, bounds
  <2>2. ASSUME NEW last \in Left(plan[l], at[l]),
               Build({Order[j] : j \in Batch(l, last)}),
               at' = [at EXCEPT ![l] = last + 1],
               UNCHANGED <<lpc, holder>>
        PROVE  Types'
    <3>1. last + 1 \in 1 .. Len(Order) + 1
      BY Ordered DEF Left
    <3> QED BY <1>0, <1>5, <2>2, <3>1, BuildType DEF AuthorityBuild, gate, bounds, Built
  <2>3. CASE Release(l) /\ UNCHANGED <<product, clock, at>>
    BY <1>5, <2>3 DEF AuthorityBuild, gate, bounds, Release
  <2> QED BY <1>5, <2>1, <2>2, <2>3 DEF AuthorityBuild
<1>6. CASE Replan(l)
  BY <1>0, <1>6 DEF Replan, gate, disk, bounds, Release, Restart
<1>7. CASE HashSource(l)
  <2> DEFINE m == Current(l, plan[l])
  <2>1. m \in Files
    BY <1>0, <1>7, CurrentIsFile DEF HashSource
  <2>2. source[m].text \in Texts
    BY <2>1
  <2>3. CASE product[m] = Absent
    BY <1>7, <2>3 DEF HashSource, gate, disk, bounds, Release
  <2>4. CASE product[m] # Absent
    <3>1. manifest' = [manifest EXCEPT ![l][m].text = source[m].text]
      BY <1>7, <2>4 DEF HashSource
    <3> HIDE DEF m
    <3>2. manifest[l][m] \in [text : Texts, at : 0 .. clock, of : Built, built : 0 .. clock]
      BY <2>1
    <3>3. [manifest[l][m] EXCEPT !.text = source[m].text] \in
              [text : Texts, at : 0 .. clock, of : Built, built : 0 .. clock]
      BY <2>2, <3>2
    <3>4. manifest' = [manifest EXCEPT ![l][m] = [manifest[l][m] EXCEPT !.text = source[m].text]]
      BY <2>1, <3>1
    <3>5. manifest' \in [Launchers ->
           [Files -> [text : Texts, at : 0 .. clock, of : Built, built : 0 .. clock]]]
      BY <2>1, <3>3, <3>4, ManifestType
    <3>6. lpc' = [lpc EXCEPT ![l] = "stat"] /\ UNCHANGED holder
      BY <1>7, <2>4 DEF HashSource, m
    <3> QED BY <1>7, <3>5, <3>6 DEF HashSource, gate, disk, bounds
  <2> QED BY <2>3, <2>4
<1>8. CASE StatSource(l)
  <2>1. PICK f : f = Current(l, plan[l])
    OBVIOUS
  <2>2. Left(plan[l], at[l]) # {}
    BY <1>8 DEF StatSource, Holds, Capabilities
  <2>3. f \in Files
    BY <1>0, <2>1, <2>2, CurrentIsFile
  <2>4. manifest' = [manifest EXCEPT ![l][f] = Recorded(l, f)]
    BY <1>8, <2>1 DEF StatSource
  <2>5. manifest' \in [Launchers ->
           [Files -> [text : Texts, at : 0 .. clock, of : Built, built : 0 .. clock]]]
    BY <2>3, <2>4, ManifestType, RecordedType
  <2>6. at' \in [Gates -> 1 .. Len(Order) + 1]
    BY <1>0, <1>8, <2>2, AdvanceType DEF StatSource
  <2> QED BY <1>8, <2>5, <2>6 DEF StatSource, gate, disk, bounds
<1>9. CASE WriteAuthority(l)
  <2>1. Tool \in Files
    BY DEF Files
  <2>2. manifest' \in [Launchers ->
           [Files -> [text : Texts, at : 0 .. clock, of : Built, built : 0 .. clock]]]
    BY <1>9, <2>1, ManifestType, RecordedType DEF WriteAuthority
  <2> QED BY <1>0, <1>9, <2>2 DEF WriteAuthority, gate, disk, bounds
<1>10. CASE Spawn(l)
  <2>1. CASE Build({Tool}) /\ LGoto(l, "wait") /\ gpc' = [gpc EXCEPT ![l] = "read"]
    <3>1. nonce[l] # None
      BY <1>0, RefsAuthorityAssumption DEF Capabilities, Gates
    <3>2. gpc' \in [Gates -> GPlaces] /\ \A g \in Gates : gpc'[g] # "idle" => nonce[g] # None
      BY <1>0, <2>1, <3>1 DEF GPlaces
    <3>3. lpc' \in [Launchers -> LPlaces]
      BY <2>1
    <3> HIDE DEF LGoto, LPlaces
    <3> QED BY <1>10, <2>1, <3>2, <3>3, BuildType DEF Spawn, bounds, Built
  <2>2. CASE LGoto(l, "unlink") /\ UNCHANGED <<product, clock, gpc>>
    BY <1>10, <2>2 DEF Spawn, bounds
  <2> QED BY <1>10, <2>1, <2>2 DEF Spawn
<1>11. CASE Wait(l)
  BY <1>11 DEF Wait, gate, disk, bounds
<1>12. CASE Unlink(l)
  BY <1>0, <1>12 DEF Unlink, gate, disk, bounds, Release
<1>13. CASE KillLauncher(l)
  BY <1>13 DEF KillLauncher, gate, disk
<1>14. CASE Raises(l)
  BY <1>14 DEF Raises, gate, disk, bounds, Release
<1> QED
  BY <1>1, <1>2, <1>3, <1>4, <1>5, <1>6, <1>7, <1>8, <1>9, <1>10, <1>11, <1>12, <1>13, <1>14
  DEF LaunchStep


(* A step of one thread of the pool.                                       *)
LEMMA PoolType ==
    ASSUME Types, NEW g \in Gates, NEW p \in Payloads
    PROVE  /\ \A place \in PoolPlaces :
                  Moves(g, p, place) => pool' \in [Gates -> [Payloads -> PoolPlaces]]
           /\ \A S : [pool EXCEPT ![g] = [q \in Payloads |-> IF q \in S THEN "queued" ELSE "idle"]]
                      \in [Gates -> [Payloads -> PoolPlaces]]
<1> DEFINE fresh(S) == [q \in Payloads |-> IF q \in S THEN "queued" ELSE "idle"]
<1>1. pool \in [Gates -> [Payloads -> PoolPlaces]]
  BY DEF Types, TypeOK
<1>2. ASSUME NEW place \in PoolPlaces
      PROVE  [pool EXCEPT ![g][p] = place] \in [Gates -> [Payloads -> PoolPlaces]]
  BY <1>1
<1>3. ASSUME NEW S PROVE fresh(S) \in [Payloads -> PoolPlaces]
  BY DEF PoolPlaces
<1>4. ASSUME NEW given \in [Payloads -> PoolPlaces]
      PROVE  [pool EXCEPT ![g] = given] \in [Gates -> [Payloads -> PoolPlaces]]
  BY <1>1
<1>5. \A S : [pool EXCEPT ![g] = fresh(S)] \in [Gates -> [Payloads -> PoolPlaces]]
  BY <1>3, <1>4
<1> QED BY <1>2, <1>5 DEF Moves

(* What the threads of the pool leave alone.                               *)
LEMMA ScanFrame ==
    ASSUME NEW g \in Gates, Scan(g)
    PROVE  /\ gpc[g] = "scan"
           /\ UNCHANGED <<disk, bounds, holder, tokens, lpc, plan, manifest, at>>
           /\ UNCHANGED <<gpc, nonce, accepted, pass, seen, lines, sound>>
           /\ loaded' = loaded \/ \E given : loaded' = [loaded EXCEPT ![g] = given]
           /\ \E given : pool' = [pool EXCEPT ![g] = given]
BY DEF Scan, IssueWorker, Takes, Work, Loads, CollectWorker, Moves

LEMMA GateTypes ==
    ASSUME Types, Capabilities, NEW g \in Gates, GateStep(g) \/ KillGate(g)
    PROVE  Types'
<1> USE DEF Types, TypeOK, GGoto, GPlaces
<1>0. /\ 1 \in 1 .. Len(Order) + 1 /\ 0 \in Payloads /\ Positions \subseteq Payloads
      /\ Len(Order) \in Nat
      /\ at[g] \in Nat
      /\ 1 \in 0 .. 3 /\ 2 \in 0 .. 3 /\ 3 \in 0 .. 3
      /\ None \notin Launchers
  BY Ordered, RefsAuthorityAssumption DEF Payloads, Gates
<1>1. CASE StartRaw(g)
  BY <1>0, <1>1 DEF StartRaw, disk, bounds
<1>2. CASE ReadToken(g)
  BY <1>2 DEF ReadToken, disk, bounds, OfGate
<1>3. CASE RemoveToken(g)
  <2>1. CASE nonce[g] \in tokens
    BY <1>0, <1>3, <2>1 DEF RemoveToken, disk, bounds
  <2>2. CASE nonce[g] \notin tokens
    BY <1>3, <2>2 DEF RemoveToken, disk, bounds
  <2> QED BY <2>1, <2>2
<1>4. CASE CheckTool(g)
  BY <1>4 DEF CheckTool, disk, bounds, OfGate
<1>5. CASE Enumerate(g)
  BY <1>0, <1>5 DEF Enumerate, disk, bounds, Restart
<1>6. CASE CheckEntries(g)
  <2>1. AfterPass(g) \in GPlaces
    BY DEF AfterPass, Verdict
  <2>2. CASE Left(plan[nonce[g]], at[g]) = {}
    <3>1. PICK place \in GPlaces : place = AfterPass(g)
      BY <2>1
    <3>2. gpc' = [gpc EXCEPT ![g] = place]
      BY <1>6, <2>2, <3>1 DEF CheckEntries
    <3>3. pass' \in [Gates -> 0 .. 3]
      <4>1. pass' = [pass EXCEPT ![g] = IF pass[g] = 2 THEN 3 ELSE pass[g]]
        BY <1>6, <2>2 DEF CheckEntries
      <4>2. pass[g] \in 0 .. 3
        OBVIOUS
      <4> QED BY <1>0, <4>1, <4>2
    <3>4. gpc[g] # "idle"
      BY <1>6 DEF CheckEntries
    <3>5. UNCHANGED <<at, disk, bounds, holder, tokens, workers, lpc, plan, manifest,
                      nonce, accepted, seen, pool, loaded, lines, sound>>
      BY <1>6, <2>2 DEF CheckEntries
    <3> QED BY <3>2, <3>3, <3>4, <3>5 DEF disk, bounds
  <2>3. CASE Left(plan[nonce[g]], at[g]) # {}
    <3>1. at' \in [Gates -> 1 .. Len(Order) + 1]
      BY <1>6, <2>3, AdvanceType DEF CheckEntries
    <3> QED BY <1>6, <2>3, <3>1 DEF CheckEntries, disk, bounds
  <2> QED BY <2>2, <2>3
<1>7. CASE Discover(g)
  BY <1>0, <1>7 DEF Discover, disk, bounds, Built, PoolPlaces
<1>8. ASSUME NEW p \in Payloads, IssueWorker(g, p) PROVE Types'
  <2>1. nonce[g] \in Launchers
    BY <1>8 DEF IssueWorker, Takes, Capabilities
  <2>2. workers' \subseteq Launchers \X Payloads
    BY <1>8, <2>1 DEF IssueWorker
  <2> QED BY <1>8, <2>2, PoolType DEF IssueWorker, disk, bounds, PoolPlaces
<1>9. ASSUME NEW p \in Payloads, Work(g, p) PROVE Types'
  <2>1. Given(p) \subseteq Modules
    BY Ordered, RefsAuthorityAssumption DEF Given, Payloads
  <2>2. loaded' \in [Gates -> [Modules -> Built]]
    <3>1. CASE Loads(g, p)
      <4> DEFINE load == [m \in Modules |-> IF m \in Given(p) THEN product[m].of ELSE loaded[g][m]]
      <4>1. \A m \in Modules : product[m].of \in Built
        BY DEF Files, Built
      <4>2. load \in [Modules -> Built]
        BY <4>1
      <4>3. loaded' = [loaded EXCEPT ![g] = load]
        BY <3>1 DEF Loads
      <4> HIDE DEF load
      <4> QED BY <4>2, <4>3
    <3> QED BY <1>9, <3>1 DEF Work
  <2>3. workers' \subseteq Launchers \X Payloads
    BY <1>9 DEF Work
  <2> QED BY <1>9, <2>2, <2>3, PoolType DEF Work, disk, bounds, PoolPlaces
<1>10. ASSUME NEW p \in Payloads, CollectWorker(g, p) PROVE Types'
  <2>1. pool' \in [Gates -> [Payloads -> PoolPlaces]]
    <3>1. CASE p = 0
      <4>1. pool' = [pool EXCEPT ![g] =
                        [q \in Payloads |-> IF q \in Missing(g) THEN "queued" ELSE "idle"]]
        BY <1>10, <3>1 DEF CollectWorker
      <4> QED BY <4>1, PoolType
    <3>2. CASE p # 0
      <4>1. Moves(g, p, "idle") /\ "idle" \in PoolPlaces
        BY <1>10, <3>2 DEF CollectWorker, PoolPlaces
      <4> QED BY <4>1, PoolType
    <3> QED BY <3>1, <3>2
  <2>2. workers' \subseteq Launchers \X Payloads
    BY <1>10 DEF CollectWorker
  <2> QED BY <1>10, <2>1, <2>2 DEF CollectWorker, disk, bounds
<1>13. CASE EndScan(g)
  BY <1>0, <1>13 DEF EndScan, disk, bounds, OfGate, Restart
<1>11. CASE ReadLines(g)
  <2>1. CASE Left(seen[g], at[g]) = {}
    BY <1>0, <1>11, <2>1 DEF ReadLines, disk, bounds
  <2>2. CASE Left(seen[g], at[g]) # {}
    <3>1. at' \in [Gates -> 1 .. Len(Order) + 1]
      BY <1>11, <2>2, AdvanceType DEF ReadLines
    <3>2. PICK m : m = Current(g, seen[g])
      OBVIOUS
    <3>3. m \in Modules /\ source[m].text \in Texts
      BY <2>2, <3>2, CurrentIsFile
    <3>4. lines' = [lines EXCEPT ![g][m] = source[m].text]
      BY <1>11, <2>2, <3>2 DEF ReadLines
    <3> QED BY <1>11, <2>2, <3>1, <3>3, <3>4 DEF ReadLines, disk, bounds
  <2> QED BY <2>1, <2>2
<1>12. CASE KillGate(g)
  BY <1>12 DEF KillGate, disk, bounds, OfGate
<1> QED
  BY <1>1, <1>2, <1>3, <1>4, <1>5, <1>6, <1>7, <1>8, <1>9, <1>10, <1>11, <1>12, <1>13
  DEF GateStep, Scan

LEMMA WorldTypes ==
    ASSUME Types, \/ \E f \in Files : Edit(f)
                  \/ \E m \in Modules : Retrack(m)
                  \/ UNCHANGED vars
    PROVE  Types'
<1> USE DEF Types, TypeOK
<1>1. ASSUME NEW f \in Files, Edit(f) PROVE Types'
  <2>1. clock + 1 \in Nat /\ edits + 1 \in Nat /\ clock <= clock + 1 /\ Types
    OBVIOUS
  <2>2. CASE Build({f}) /\ UNCHANGED source
    BY <1>1, <2>1, <2>2, BuildType DEF Edit, gate, Built
  <2>3. ASSUME NEW t \in Texts, source' = [source EXCEPT ![f] = [text |-> t, at |-> clock + 1]],
               clock' = clock + 1, UNCHANGED product
        PROVE  Types'
    <3> HIDE DEF Types, TypeOK
    <3>1. /\ product' \in [Files -> [of : Built, at : 0 .. clock']]
          /\ source \in [Files -> [text : Texts, at : 0 .. clock']]
          /\ manifest \in [Launchers ->
                  [Files -> [text : Texts, at : 0 .. clock', of : Built, built : 0 .. clock']]]
      BY <2>1, <2>3, Later
    <3> USE DEF Types, TypeOK
    <3>2. [text |-> t, at |-> clock + 1] \in [text : Texts, at : 0 .. clock']
      BY <2>1, <2>3
    <3>3. source' \in [Files -> [text : Texts, at : 0 .. clock']]
      BY <2>3, <3>1, <3>2
    <3> QED BY <1>1, <2>1, <2>3, <3>1, <3>3 DEF Edit, gate, Built
  <2> QED BY <1>1, <2>2, <2>3 DEF Edit
<1>2. ASSUME NEW m \in Modules, Retrack(m) PROVE Types'
  BY <1>2 DEF Retrack, gate
<1>3. CASE UNCHANGED vars
  BY <1>3 DEF vars, gate, disk, bounds
<1> QED BY <1>1, <1>2, <1>3

-----------------------------------------------------------------------------
(* Capabilities                                                            *)

LEMMA CapabilitiesInit == Init => Capabilities
BY RefsAuthorityAssumption DEF Init, Capabilities, Scanning, Gates

(* A launcher's step moves that launcher only, past the places where it    *)
(* writes, and starts only its own gate.                                   *)
(* A launcher that has written no authority yet moves to another place: it *)
(* has no token, and no gate its nonce.                                    *)
LEMMA EarlyMove ==
    ASSUME Types, Capabilities, NEW l \in Launchers, lpc[l] \notin Late,
           NEW place, lpc' = [lpc EXCEPT ![l] = place],
           NEW i, at' = [at EXCEPT ![l] = i],
           place = "stat" => i = at[l] /\ Left(plan[l], at[l]) # {},
           UNCHANGED <<tokens, plan, gpc, nonce, accepted, pass>>
    PROVE  Capabilities'
<1>1. /\ lpc \in [Launchers -> LPlaces] /\ gpc \in [Gates -> GPlaces] /\ l \in Gates
      /\ tokens \subseteq Launchers
      /\ at \in [Gates -> 1 .. Len(Order) + 1] /\ Launchers \subseteq Gates
  BY DEF Types, TypeOK, Gates
<1>2. /\ \A h \in Launchers \ {l} : lpc'[h] = lpc[h] /\ at'[h] = at[h]
      /\ lpc'[l] = place /\ at'[l] = i
  BY <1>1
<1>3. /\ l \notin tokens /\ gpc[l] = "idle"
      /\ \A g \in Gates : gpc[g] # "idle" => nonce[g] # l
  BY <1>1 DEF Capabilities, Late
<1>4. \A h \in tokens' : lpc'[h] \in {"spawn", "wait", "unlink", "killed"}
  BY <1>1, <1>2, <1>3 DEF Capabilities
<1>5. ASSUME NEW h \in Launchers
      PROVE  /\ nonce'[h] = h
             /\ lpc'[h] = "stat" => Left(plan[h], at[h])' # {}
             /\ gpc'[h] # "idle" => lpc'[h] \in {"wait", "unlink", "ended", "killed"}
  <2>1. CASE h = l
    BY <1>2, <1>3, <2>1 DEF Capabilities, Left
  <2>2. CASE h # l
    BY <1>2, <2>2 DEF Capabilities, Left
  <2> QED BY <2>1, <2>2
<1>6. ASSUME NEW g \in Gates, gpc'[g] # "idle"
      PROVE  nonce'[g] \in Launchers /\ lpc'[nonce'[g]] \in Late
  BY <1>2, <1>3, <1>6 DEF Capabilities
<1>7. ASSUME NEW g \in Gates
      PROVE  /\ accepted'[g] => gpc'[g] \notin {"idle", "read", "remove"} /\ nonce'[g] \notin tokens'
             /\ gpc'[g] \in {"idle", "read", "remove"} => pass'[g] = 0
             /\ gpc'[g] \in Scanning => pass'[g] = 1
             /\ gpc'[g] \in {"tool", "enumerate", "entries"} => pass'[g] \in 1 .. 3
             /\ gpc'[g] \in {"passed", "failed"} => pass'[g] = 3
  BY DEF Capabilities
<1> QED BY <1>4, <1>5, <1>6, <1>7 DEF Capabilities

LEMMA LaunchCapabilities ==
    ASSUME Types, Capabilities, NEW l \in Launchers, LaunchStep(l) \/ KillLauncher(l)
    PROVE  Capabilities'
<1>0. /\ lpc \in [Launchers -> LPlaces] /\ gpc \in [Gates -> GPlaces] /\ l \in Gates
      /\ tokens \subseteq Launchers /\ nonce \in [Gates -> Launchers \cup {None}]
      /\ at \in [Gates -> 1 .. Len(Order) + 1] /\ plan \in [Launchers -> SUBSET Modules]
      /\ Launchers \subseteq Gates
  BY DEF Types, TypeOK, Gates
<1> USE <1>0 DEF LGoto, Late, Scanning, bounds, gate
<1> HIDE <1>0
<1>1. CASE Begin(l)
  BY <1>0, <1>1 DEF Begin, Capabilities
<1>2. CASE Decline(l)
  BY <1>0, <1>2 DEF Decline, Capabilities
<1>3. CASE BuildGate(l)
  <2>1. /\ lpc[l] = "gate" /\ UNCHANGED <<tokens, plan, gpc, nonce, accepted, pass>>
        /\ \E place \in {"plan", "ended"} : lpc' = [lpc EXCEPT ![l] = place]
        /\ at' = [at EXCEPT ![l] = at[l]]
    BY <1>0, <1>3 DEF BuildGate, Holds, Release
  <2>2. PICK place \in {"plan", "ended"} : lpc' = [lpc EXCEPT ![l] = place]
    BY <2>1
  <2>3. lpc[l] \notin Late /\ place # "stat"
    BY <2>1
  <2> QED BY <2>1, <2>2, <2>3, EarlyMove
<1>4. CASE AuthorityPlan(l)
  BY <1>0, <1>4 DEF AuthorityPlan, Holds, Restart, Capabilities
<1>5. CASE AuthorityBuild(l)
  <2>1. /\ \E place \in {"replan", "build", "ended"} : lpc' = [lpc EXCEPT ![l] = place]
        /\ \E i : at' = [at EXCEPT ![l] = i]
        /\ lpc[l] = "build"
        /\ UNCHANGED <<tokens, plan, gpc, nonce, accepted, pass>>
    BY <1>0, <1>5 DEF AuthorityBuild, Holds, Release
  <2>2. PICK place \in {"replan", "build", "ended"} : lpc' = [lpc EXCEPT ![l] = place]
    BY <2>1
  <2>3. PICK i : at' = [at EXCEPT ![l] = i]
    BY <2>1
  <2>4. lpc[l] \notin Late /\ place # "stat"
    BY <2>1
  <2> QED BY <2>1, <2>2, <2>3, <2>4, EarlyMove
<1>6. CASE Replan(l)
  <2>1. /\ \E place \in {"hash", "ended"} : lpc' = [lpc EXCEPT ![l] = place]
        /\ \E i : at' = [at EXCEPT ![l] = i]
        /\ lpc[l] = "replan"
        /\ UNCHANGED <<tokens, plan, gpc, nonce, accepted, pass>>
    BY <1>6 DEF Replan, Holds, Release, Restart
  <2>2. PICK place \in {"hash", "ended"} : lpc' = [lpc EXCEPT ![l] = place]
    BY <2>1
  <2>3. PICK i : at' = [at EXCEPT ![l] = i]
    BY <2>1
  <2>4. lpc[l] \notin Late /\ place # "stat"
    BY <2>1
  <2> QED BY <2>1, <2>2, <2>3, <2>4, EarlyMove
<1>7. CASE HashSource(l)
  <2>1. /\ lpc[l] = "hash" /\ Left(plan[l], at[l]) # {}
        /\ \E place \in {"stat", "ended"} : lpc' = [lpc EXCEPT ![l] = place]
        /\ at' = [at EXCEPT ![l] = at[l]]
        /\ UNCHANGED <<tokens, plan, gpc, nonce, accepted, pass>>
    BY <1>0, <1>7 DEF HashSource, Holds, Release
  <2>2. PICK place \in {"stat", "ended"} : lpc' = [lpc EXCEPT ![l] = place]
    BY <2>1
  <2>3. lpc[l] \notin Late
    BY <2>1
  <2> QED BY <2>1, <2>2, <2>3, EarlyMove
<1>8. CASE StatSource(l)
  <2>1. /\ lpc' = [lpc EXCEPT ![l] = "hash"] /\ lpc[l] = "stat"
        /\ \E i : at' = [at EXCEPT ![l] = i]
        /\ UNCHANGED <<tokens, plan, gpc, nonce, accepted, pass>>
    BY <1>8 DEF StatSource, Holds, Advance
  <2>2. PICK place \in {"hash"} : lpc' = [lpc EXCEPT ![l] = place]
    BY <2>1
  <2>3. PICK i : at' = [at EXCEPT ![l] = i]
    BY <2>1
  <2>4. lpc[l] \notin Late /\ place # "stat"
    BY <2>1
  <2> QED BY <2>1, <2>2, <2>3, <2>4, EarlyMove
<1>9. CASE WriteAuthority(l)
  BY <1>0, <1>9 DEF WriteAuthority, Holds, Capabilities
<1>10. CASE Spawn(l)
  <2>1. CASE Build({Tool}) /\ LGoto(l, "wait") /\ gpc' = [gpc EXCEPT ![l] = "read"]
    <3>1. /\ lpc[l] = "spawn" /\ lpc' = [lpc EXCEPT ![l] = "wait"]
          /\ gpc' = [gpc EXCEPT ![l] = "read"]
          /\ UNCHANGED <<tokens, plan, at, nonce, accepted, pass>>
      BY <1>10, <2>1 DEF Spawn, Holds
    <3>2. gpc[l] = "idle" /\ nonce[l] = l
      BY <3>1 DEF Capabilities
    <3>3. \A h \in Launchers \ {l} : lpc'[h] = lpc[h]
      BY <1>0, <3>1
    <3>4. lpc'[l] = "wait" /\ gpc'[l] = "read" /\ \A h \in Gates \ {l} : gpc'[h] = gpc[h]
      BY <1>0, <3>1
    <3> HIDE DEF LGoto
    <3> QED BY <1>0, <3>1, <3>2, <3>3, <3>4 DEF Capabilities
  <2>2. CASE LGoto(l, "unlink") /\ UNCHANGED <<product, clock, gpc>>
    BY <1>0, <1>10, <2>2 DEF Spawn, Holds, Capabilities
  <2> QED BY <1>10, <2>1, <2>2 DEF Spawn
<1>11. CASE Wait(l)
  BY <1>0, <1>11 DEF Wait, Holds, Capabilities
<1>12. CASE Unlink(l)
  BY <1>0, <1>12 DEF Unlink, Holds, Release, Capabilities
<1>13. CASE KillLauncher(l)
  BY <1>0, <1>13 DEF KillLauncher, Capabilities
<1>14. CASE Raises(l)
  <2>1. /\ lpc' = [lpc EXCEPT ![l] = "ended"] /\ lpc[l] \notin Late
        /\ at' = [at EXCEPT ![l] = at[l]]
        /\ UNCHANGED <<tokens, plan, gpc, nonce, accepted, pass>>
    BY <1>0, <1>14 DEF Raises, Holds, Release
  <2>2. PICK place \in {"ended"} : lpc' = [lpc EXCEPT ![l] = place]
    BY <2>1
  <2> QED BY <2>1, <2>2, EarlyMove
<1> QED
  BY <1>1, <1>2, <1>3, <1>4, <1>5, <1>6, <1>7, <1>8, <1>9, <1>10, <1>11, <1>12, <1>13, <1>14
  DEF LaunchStep

LEMMA GateCapabilities ==
    ASSUME Types, Capabilities, NEW g \in Gates, GateStep(g) \/ KillGate(g)
    PROVE  Capabilities'
<1>0. /\ gpc \in [Gates -> GPlaces] /\ Launchers \subseteq Gates
      /\ tokens \subseteq Launchers /\ nonce \in [Gates -> Launchers \cup {None}]
      /\ at \in [Gates -> 1 .. Len(Order) + 1] /\ pass \in [Gates -> 0 .. 3]
      /\ accepted \in [Gates -> BOOLEAN]
      /\ 1 \in 1 .. 3 /\ 2 \in 1 .. 3 /\ 3 \in 1 .. 3
  BY DEF Types, TypeOK, Gates
<1> USE DEF GGoto, Late, Scanning, disk, bounds, OfGate
<1>1. CASE StartRaw(g)
  <2>1. g \notin Launchers
    BY <1>1, RefsAuthorityAssumption DEF StartRaw
  <2> QED BY <1>0, <1>1, <2>1 DEF StartRaw, Capabilities
<1>2. CASE ReadToken(g)
  BY <1>0, <1>2 DEF ReadToken, Capabilities
<1>3. CASE RemoveToken(g)
  <2>1. CASE nonce[g] \in tokens
    BY <1>0, <1>3, <2>1 DEF RemoveToken, Capabilities
  <2>2. CASE nonce[g] \notin tokens
    BY <1>0, <1>3, <2>2 DEF RemoveToken, Capabilities
  <2> QED BY <2>1, <2>2
<1>4. CASE CheckTool(g)
  BY <1>0, <1>4 DEF CheckTool, Capabilities
<1>5. CASE Enumerate(g)
  BY <1>0, <1>5 DEF Enumerate, Restart, Capabilities
<1>6. CASE CheckEntries(g)
  <2>0. /\ gpc[g] = "entries" /\ pass[g] \in 1 .. 3
        /\ UNCHANGED <<tokens, lpc, plan, nonce, accepted>>
        /\ \E i : at' = [at EXCEPT ![g] = i]
    <3>1. UNCHANGED at => at' = [at EXCEPT ![g] = at[g]]
      BY <1>0
    <3> QED BY <1>6, <3>1 DEF CheckEntries, Capabilities, Advance
  <2>1. CASE Left(plan[nonce[g]], at[g]) = {}
    <3>1. /\ gpc' = [gpc EXCEPT ![g] = AfterPass(g)]
          /\ pass' = [pass EXCEPT ![g] = IF pass[g] = 2 THEN 3 ELSE pass[g]]
      BY <1>6, <2>1 DEF CheckEntries
    <3>2. /\ pass[g] = 1 => AfterPass(g) = "discover"
          /\ pass[g] = 2 => AfterPass(g) = "tool"
          /\ pass[g] = 3 => AfterPass(g) \in {"passed", "failed"}
      BY DEF AfterPass, Verdict
    <3>3. pass[g] = 1 \/ pass[g] = 2 \/ pass[g] = 3
      BY <2>0
    <3>4. CASE pass[g] = 1
      BY <1>0, <2>0, <3>1, <3>2, <3>4 DEF Capabilities
    <3>5. CASE pass[g] = 2
      BY <1>0, <2>0, <3>1, <3>2, <3>5 DEF Capabilities
    <3>6. CASE pass[g] = 3
      BY <1>0, <2>0, <3>1, <3>2, <3>6 DEF Capabilities
    <3> QED BY <3>3, <3>4, <3>5, <3>6
  <2>2. CASE Left(plan[nonce[g]], at[g]) # {}
    <3>1. /\ \E place \in {"entries", "refused"} : gpc' = [gpc EXCEPT ![g] = place]
          /\ UNCHANGED pass
      BY <1>6, <2>2 DEF CheckEntries
    <3>2. PICK place \in {"entries", "refused"} : gpc' = [gpc EXCEPT ![g] = place]
      BY <3>1
    <3>3. \A h \in Gates : gpc'[h] = IF h = g THEN place ELSE gpc[h]
      BY <1>0, <3>2
    <3>4. PICK i : at' = [at EXCEPT ![g] = i]
      BY <2>0
    <3>5. \A l \in Launchers : l # g => at'[l] = at[l]
      BY <1>0, <3>4
    <3>6. g \in Launchers => lpc[g] # "stat"
      BY <1>0, <2>0 DEF Capabilities
    <3> QED BY <1>0, <2>0, <3>1, <3>2, <3>3, <3>5, <3>6 DEF Capabilities
  <2> QED BY <2>1, <2>2
<1>7. CASE Discover(g)
  BY <1>0, <1>7 DEF Discover, Capabilities
<1>8. CASE Scan(g)
  <2>1. UNCHANGED <<gpc, tokens, lpc, plan, at, nonce, accepted, pass>>
    BY <1>8, ScanFrame
  <2> QED BY <2>1 DEF Capabilities
<1>9. CASE EndScan(g)
  <2>1. /\ gpc[g] = "scan"
        /\ \E i : at' = [at EXCEPT ![g] = i]
        /\ UNCHANGED <<tokens, lpc, plan, nonce, accepted, pass>>
    <3>1. UNCHANGED at => at' = [at EXCEPT ![g] = at[g]]
      BY <1>0
    <3> QED BY <1>9, <3>1 DEF EndScan, Restart
  <2>2. PICK place \in {"lines", "raised"} : gpc' = [gpc EXCEPT ![g] = place]
    BY <1>9 DEF EndScan
  <2>3. \A h \in Gates : gpc'[h] = IF h = g THEN place ELSE gpc[h]
    BY <1>0, <2>2
  <2>4. PICK i : at' = [at EXCEPT ![g] = i]
    BY <2>1
  <2>5. \A l \in Launchers : l # g => at'[l] = at[l]
    BY <1>0, <2>4
  <2>6. g \in Launchers => lpc[g] # "stat"
    BY <1>0, <2>1 DEF Capabilities
  <2> QED BY <1>0, <2>1, <2>2, <2>3, <2>5, <2>6 DEF Capabilities
<1>11. CASE ReadLines(g)
  <2>1. CASE Left(seen[g], at[g]) = {}
    BY <1>0, <1>11, <2>1 DEF ReadLines, Capabilities
  <2>2. CASE Left(seen[g], at[g]) # {}
    <3>1. /\ gpc[g] = "lines"
          /\ \E i : at' = [at EXCEPT ![g] = i]
          /\ UNCHANGED <<gpc, tokens, lpc, plan, nonce, accepted, pass>>
      BY <1>11, <2>2 DEF ReadLines, Advance
    <3> QED BY <1>0, <3>1 DEF Capabilities
  <2> QED BY <2>1, <2>2
<1>10. CASE KillGate(g)
  BY <1>0, <1>10 DEF KillGate, GateEnded, Capabilities
<1> QED
  BY <1>1, <1>2, <1>3, <1>4, <1>5, <1>6, <1>7, <1>8, <1>9, <1>10, <1>11 DEF GateStep

LEMMA WorldCapabilities ==
    ASSUME Capabilities, \/ \E f \in Files : Edit(f)
                         \/ \E m \in Modules : Retrack(m)
                         \/ UNCHANGED vars
    PROVE  Capabilities'
<1>1. UNCHANGED <<tokens, lpc, plan, at, gpc, nonce, accepted, pass>>
  BY DEF Edit, Retrack, vars, gate
<1> QED BY <1>1 DEF Capabilities

(* The worker of the umbrella has the scan for itself.                     *)
UmbrellaFirst ==
    \A g \in Gates : pool[g][0] # "idle" => \A p \in Positions : pool[g][p] = "idle"

LEMMA UmbrellaInit == Init => UmbrellaFirst
BY DEF Init, UmbrellaFirst, Payloads

LEMMA UmbrellaStep ==
    ASSUME Types, UmbrellaFirst, Next \/ UNCHANGED vars
    PROVE  UmbrellaFirst'
<1>0. /\ pool \in [Gates -> [Payloads -> PoolPlaces]]
      /\ Payloads = {0} \cup Positions /\ 0 \notin Positions
  <2>1. 0 \notin Positions
    BY Ordered
  <2> QED BY <2>1 DEF Types, TypeOK, Payloads
<1>1. ASSUME NEW g \in Gates, NEW given,
             pool' = [pool EXCEPT ![g] = given],
             given[0] # "idle" => \A p \in Positions : given[p] = "idle"
      PROVE  UmbrellaFirst'
  BY <1>0, <1>1 DEF UmbrellaFirst
<1>2. ASSUME NEW g \in Gates, Discover(g) PROVE UmbrellaFirst'
  <2>1. \A p \in Positions : p # 0 /\ p \in Payloads
    BY <1>0
  <2> QED BY <1>1, <1>2, <2>1 DEF Discover
<1>3. ASSUME NEW g \in Gates, NEW p \in Payloads, NEW place, Moves(g, p, place),
             pool[g][p] # "idle"
      PROVE  UmbrellaFirst'
  <2>1. pool' = [pool EXCEPT ![g] = [pool[g] EXCEPT ![p] = place]]
    BY <1>0, <1>3 DEF Moves
  <2>2. \A q \in Payloads : q # p => [pool[g] EXCEPT ![p] = place][q] = pool[g][q]
    BY <1>0
  <2> QED BY <1>0, <1>1, <1>3, <2>1, <2>2 DEF UmbrellaFirst
<1>4. ASSUME NEW g \in Gates, NEW p \in Payloads, IssueWorker(g, p) PROVE UmbrellaFirst'
  <2>1. pool[g][p] # "idle"
    BY <1>4 DEF IssueWorker, Takes, In
  <2> QED BY <1>3, <1>4, <2>1 DEF IssueWorker
<1>5. ASSUME NEW g \in Gates, NEW p \in Payloads, Work(g, p) PROVE UmbrellaFirst'
  <2>1. pool[g][p] # "idle"
    BY <1>5 DEF Work, In
  <2> QED BY <1>3, <1>5, <2>1 DEF Work
<1>6. ASSUME NEW g \in Gates, NEW p \in Payloads, CollectWorker(g, p) PROVE UmbrellaFirst'
  <2>1. pool[g][p] # "idle"
    BY <1>6 DEF CollectWorker, In
  <2>2. CASE p = 0
    <3>1. 0 \notin Missing(g) /\ 0 \in Payloads
      BY <1>0 DEF Missing
    <3> QED BY <1>1, <1>6, <2>2, <3>1 DEF CollectWorker
  <2> QED BY <1>3, <1>6, <2>1, <2>2 DEF CollectWorker
<1>7. CASE pool' = pool
  BY <1>7 DEF UmbrellaFirst
<1>8. \/ pool' = pool
      \/ \E g \in Gates : Discover(g) \/ Scan(g)
  BY ScanFrame
  DEF Next, LaunchStep, GateStep, Begin, Decline, BuildGate, AuthorityPlan, AuthorityBuild,
         Replan, HashSource, StatSource, WriteAuthority, Spawn, Wait, Unlink, Raises, KillLauncher,
         StartRaw, ReadToken, RemoveToken, CheckTool, Enumerate, CheckEntries, EndScan, ReadLines,
         KillGate, Edit, Retrack, Terminated, vars, gate, OfGate
<1> QED BY <1>2, <1>4, <1>5, <1>6, <1>7, <1>8 DEF Scan

(* One gate to a token, and none left but by a kill or an exception.       *)
LEMMA ServedInit == Init => OneAttempt /\ NothingLeft
BY DEF Init, OneAttempt, NothingLeft

Scans == {"scan", "raised", "killed"}

Serves(g, w) == w[1] = nonce[g] /\ w[2] \in Taken(g) /\ gpc[g] \in Scans

LEMMA ServedStep ==
    ASSUME Types, Capabilities, OneAttempt, NothingLeft, UmbrellaFirst, Next \/ UNCHANGED vars,
           Capabilities'
    PROVE  OneAttempt' /\ NothingLeft'
<1>0. /\ gpc \in [Gates -> GPlaces] /\ accepted \in [Gates -> BOOLEAN]
      /\ nonce \in [Gates -> Launchers \cup {None}]
      /\ pool \in [Gates -> [Payloads -> PoolPlaces]]
  BY DEF Types, TypeOK
<1> USE DEF GGoto
(* A token a launcher left behind would be one it still has.               *)
<1>1. \A l \in Launchers : lpc'[l] = "ended" => l \notin tokens'
  BY DEF Capabilities
<1>2. ASSUME \A w \in workers' : \E h \in Gates : Serves(h, w)' PROVE NothingLeft'
  BY <1>1, <1>2 DEF NothingLeft, Serves, Scans
<1>3. ASSUME NEW g \in Gates, RemoveToken(g) PROVE OneAttempt'
  <2>1. CASE nonce[g] \in tokens
    <3>1. /\ accepted' = [accepted EXCEPT ![g] = TRUE] /\ nonce' = nonce
      BY <1>3, <2>1 DEF RemoveToken
    <3>2. ASSUME NEW h \in Gates, accepted[h] PROVE nonce[h] # nonce[g]
      BY <2>1, <3>2 DEF Capabilities
    <3> QED BY <1>0, <3>1, <3>2 DEF OneAttempt
  <2>2. CASE nonce[g] \notin tokens
    BY <1>3, <2>2 DEF RemoveToken, OneAttempt
  <2> QED BY <2>1, <2>2
<1>4. ASSUME NEW g \in Gates, StartRaw(g) PROVE OneAttempt'
  <2>1. ~accepted[g] /\ accepted' = accepted /\ \A h \in Gates : h # g => nonce'[h] = nonce[h]
    BY <1>0, <1>4 DEF StartRaw, Capabilities
  <2> QED BY <2>1 DEF OneAttempt
<1>5. ASSUME UNCHANGED <<accepted, nonce>> PROVE OneAttempt'
  <2>1. accepted' = accepted /\ nonce' = nonce
    BY <1>5
  <2> QED BY <2>1, Zenon DEF OneAttempt
<1>6. OneAttempt'
  <2>1. UNCHANGED <<accepted, nonce>> \/ (\E g \in Gates : RemoveToken(g) \/ StartRaw(g))
    BY ScanFrame
  DEF Next, LaunchStep, GateStep, Begin, Decline, BuildGate, AuthorityPlan, AuthorityBuild,
           Replan, HashSource, StatSource, WriteAuthority, Spawn, Wait, Unlink, Raises, KillLauncher,
           ReadToken, CheckTool, Enumerate, CheckEntries, Discover,
           EndScan, ReadLines, KillGate, Edit, Retrack, Terminated, vars, gate, OfGate
  <2> QED BY <1>3, <1>4, <1>5, <2>1
<1>served. \A w \in workers : \E h \in Gates : Serves(h, w)
  BY DEF NothingLeft, Serves, Scans
<1>7. ASSUME workers' \subseteq workers,
             \A h \in Gates : gpc[h] \in Scans /\ Taken(h) # {} =>
                 nonce'[h] = nonce[h] /\ pool'[h] = pool[h] /\ gpc'[h] \in Scans
      PROVE  NothingLeft'
  <2>1. \A h \in Gates : pool'[h] = pool[h] => Taken(h)' = Taken(h)
    BY DEF Taken, In
  <2>2. \A w \in workers' : \E h \in Gates : Serves(h, w)'
    BY <1>7, <1>served, <2>1 DEF Serves
  <2> QED BY <1>2, <2>2
<1>8. ASSUME NEW g \in Gates, NEW S,
             workers' \subseteq workers \cup S, gpc' = gpc, nonce' = nonce,
             \A h \in Gates \ {g} : pool'[h] = pool[h],
             gpc[g] = "scan", S \subseteq {<<nonce[g], p>> : p \in Taken(g)'},
             \A w \in workers' : Serves(g, w) => w[2] \in Taken(g)'
      PROVE  NothingLeft'
  <2>1. \A h \in Gates : pool'[h] = pool[h] => Taken(h)' = Taken(h)
    BY DEF Taken, In
  <2>2. ASSUME NEW w \in workers' PROVE \E h \in Gates : Serves(h, w)'
    <3>1. CASE w \in S
      BY <1>8, <3>1 DEF Serves, Scans
    <3>2. CASE w \in workers
      <4>1. PICK h \in Gates : Serves(h, w)
        BY <1>served, <3>2
      <4>2. w[2] \in Taken(h)'
        BY <1>8, <2>1, <4>1 DEF Serves
      <4> QED BY <1>8, <4>1, <4>2 DEF Serves
    <3> QED BY <1>8, <3>1, <3>2
  <2> QED BY <1>2, <2>2
<1>9. ASSUME NEW g \in Gates, NEW p \in Payloads, NEW place, Moves(g, p, place)
      PROVE  /\ \A h \in Gates \ {g} : pool'[h] = pool[h]
             /\ \A q \in Payloads \ {p} : pool'[g][q] = pool[g][q]
             /\ pool'[g][p] = place
  BY <1>0, <1>9 DEF Moves
<1>10. ASSUME NEW g \in Gates, NEW p \in Payloads, IssueWorker(g, p) PROVE NothingLeft'
  <2>1. PICK place \in {"issued", "failed"} : Moves(g, p, place)
    BY <1>10 DEF IssueWorker
  <2>2. Taken(g) \subseteq Taken(g)' /\ p \in Taken(g)'
    BY <1>9, <2>1 DEF Taken, In
  <2>3. /\ workers' \subseteq workers \cup {<<nonce[g], p>>}
        /\ gpc' = gpc /\ nonce' = nonce /\ gpc[g] = "scan"
    BY <1>10 DEF IssueWorker, Takes
  <2>4. \A h \in Gates \ {g} : pool'[h] = pool[h]
    BY <1>9, <2>1
  <2>5. \A w : Serves(g, w) => w[2] \in Taken(g)'
    BY <2>2 DEF Serves
  <2> QED BY <1>8, <2>2, <2>3, <2>4, <2>5
<1>11. ASSUME NEW g \in Gates, NEW p \in Payloads, Work(g, p) PROVE NothingLeft'
  <2>1. Moves(g, p, "answered") /\ p \in In(g, "issued")
    BY <1>11 DEF Work
  <2>2. Taken(g) \subseteq Taken(g)'
    BY <1>9, <2>1 DEF Taken, In
  <2>3. workers' \subseteq workers \cup {} /\ gpc' = gpc /\ nonce' = nonce /\ gpc[g] = "scan"
    BY <1>11 DEF Work
  <2>4. \A h \in Gates \ {g} : pool'[h] = pool[h]
    BY <1>9, <2>1
  <2>5. \A w : Serves(g, w) => w[2] \in Taken(g)'
    BY <2>2 DEF Serves
  <2> QED BY <1>8, <2>3, <2>4, <2>5
<1>12. ASSUME NEW g \in Gates, NEW p \in Payloads, CollectWorker(g, p) PROVE NothingLeft'
  <2>1. /\ workers' = workers \ {<<nonce[g], p>>} /\ workers' \subseteq workers \cup {}
        /\ gpc' = gpc /\ nonce' = nonce /\ gpc[g] = "scan" /\ p \in In(g, "answered")
    BY <1>12 DEF CollectWorker
  <2>2. \A h \in Gates \ {g} : pool'[h] = pool[h]
    BY <1>0, <1>9, <1>12 DEF CollectWorker
  <2>3. ASSUME NEW w \in workers', Serves(g, w) PROVE w[2] \in Taken(g)'
    <3>1. w = <<w[1], w[2]>>
      BY <2>1 DEF Types, TypeOK
    <3>2. w[2] # p /\ w[2] \in Taken(g) /\ w[2] \in Payloads
      BY <2>1, <2>3, <3>1 DEF Serves, Taken, In
    <3>3. CASE p = 0
      <4>1. pool[g][0] # "idle"
        BY <2>1, <3>3 DEF In
      <4>2. \A q \in Positions : pool[g][q] = "idle"
        BY <4>1 DEF UmbrellaFirst
      <4> QED BY <3>2, <3>3, <4>2 DEF Payloads, Taken, In
    <3>4. CASE p # 0
      <4>1. Moves(g, p, "idle")
        BY <1>12, <3>4 DEF CollectWorker
      <4>2. pool'[g][w[2]] = pool[g][w[2]]
        BY <1>9, <3>2, <4>1
      <4> QED BY <3>2, <4>2 DEF Taken, In
    <3> QED BY <3>3, <3>4
  <2> QED BY <1>8, <2>1, <2>2, <2>3
<1>13. ASSUME NEW l \in Launchers, Spawn(l) PROVE NothingLeft'
  <2>1. gpc[l] = "idle"
    BY <1>13 DEF Spawn, Holds, Capabilities
  <2>2. /\ UNCHANGED <<workers, nonce, pool>>
        /\ \A h \in Gates : gpc[h] # "idle" => gpc'[h] = gpc[h]
    BY <1>0, <1>13, <2>1 DEF Spawn
  <2> QED BY <1>7, <2>2 DEF Scans
<1>14. ASSUME NEW g \in Gates,
              StartRaw(g) \/ ReadToken(g) \/ RemoveToken(g) \/ CheckTool(g) \/ Enumerate(g)
                \/ CheckEntries(g) \/ Discover(g) \/ ReadLines(g)
       PROVE  NothingLeft'
  <2>1. gpc[g] \notin Scans /\ workers' = workers
    BY <1>14 DEF StartRaw, ReadToken, RemoveToken, CheckTool, Enumerate, CheckEntries, Discover,
       ReadLines, Scans
  <2>2. \A h \in Gates \ {g} : nonce'[h] = nonce[h]
    BY <1>0, <1>14 DEF StartRaw, ReadToken, RemoveToken, CheckTool, Enumerate, CheckEntries,
       Discover, ReadLines, OfGate
  <2>3. \A h \in Gates \ {g} : pool'[h] = pool[h] /\ gpc'[h] = gpc[h]
    BY <1>0, <1>14 DEF StartRaw, ReadToken, RemoveToken, CheckTool, Enumerate, CheckEntries,
       Discover, ReadLines, OfGate
  <2> QED BY <1>7, <2>1, <2>2, <2>3
<1>15. ASSUME NEW g \in Gates, EndScan(g) PROVE NothingLeft'
  <2>1. UNCHANGED <<workers, nonce, pool>> /\ \A h \in Gates \ {g} : gpc'[h] = gpc[h]
    BY <1>0, <1>15 DEF EndScan, OfGate
  <2>2. gpc'[g] \in Scans \/ Taken(g) = {}
    <3>1. CASE In(g, "idle") = Payloads
      BY <3>1 DEF Taken, In
    <3>2. CASE gpc' = [gpc EXCEPT ![g] = "raised"]
      BY <1>0, <3>2 DEF Scans
    <3> QED BY <1>15, <3>1, <3>2 DEF EndScan
  <2> QED BY <1>7, <2>1, <2>2
<1>16. ASSUME NEW g \in Gates, KillGate(g) PROVE NothingLeft'
  <2>1. /\ gpc' = [gpc EXCEPT ![g] = "killed"] /\ UNCHANGED <<workers, nonce, pool>>
    BY <1>16 DEF KillGate, OfGate
  <2>2. \A h \in Gates : gpc'[h] = gpc[h] \/ gpc'[h] = "killed"
    BY <1>0, <2>1
  <2> QED BY <1>7, <2>1, <2>2 DEF Scans
<1>17. ASSUME UNCHANGED <<workers, nonce, pool, gpc>> PROVE NothingLeft'
  BY <1>7, <1>17
<1>18. \/ UNCHANGED <<workers, nonce, pool, gpc>>
       \/ \E l \in Launchers : Spawn(l)
       \/ \E g \in Gates : GateStep(g) \/ KillGate(g)
  BY DEF Next, LaunchStep, Begin, Decline, BuildGate, AuthorityPlan, AuthorityBuild,
         Replan, HashSource, StatSource, WriteAuthority, Wait, Unlink, Raises, KillLauncher,
         Edit, Retrack, Terminated, vars, gate
<1>19. NothingLeft'
  BY <1>10, <1>11, <1>12, <1>13, <1>14, <1>15, <1>16, <1>17, <1>18 DEF GateStep, Scan
<1> QED BY <1>6, <1>19

-----------------------------------------------------------------------------
(* What is recorded stays true                                             *)

(* Whoever writes a file writes it later than everything recorded.         *)
Writes ==
    \A f \in Files : /\ source'[f] = source[f] \/ source'[f].at = clock + 1
                     /\ product'[f] = product[f] \/ product'[f].at = clock + 1

(* The authority of a gate that runs is not written again.                 *)
Frozen(g) ==
    /\ nonce'[g] = nonce[g]
    /\ manifest'[nonce[g]] = manifest[nonce[g]]
    /\ plan'[nonce[g]] = plan[nonce[g]]

LEMMA BuildWrites ==
    ASSUME Types, NEW files, Build(files), UNCHANGED source
    PROVE  Writes
BY DEF Types, TypeOK, Build, Made, Writes

LEMMA EveryoneWrites ==
    ASSUME Types, Next \/ UNCHANGED vars
    PROVE  Writes
<1>1. CASE UNCHANGED <<source, product>>
  BY <1>1 DEF Writes
<1>2. ASSUME NEW l \in Launchers, BuildGate(l) \/ AuthorityBuild(l) \/ Spawn(l) PROVE Writes
  BY <1>1, <1>2, BuildWrites DEF BuildGate, AuthorityBuild, Spawn
<1>3. ASSUME NEW f \in Files, Edit(f) PROVE Writes
  <2>1. CASE Build({f}) /\ UNCHANGED source
    BY <2>1, BuildWrites
  <2>2. ASSUME NEW t \in Texts, source' = [source EXCEPT ![f] = [text |-> t, at |-> clock + 1]],
               UNCHANGED product
        PROVE  Writes
    BY <2>2 DEF Types, TypeOK, Writes
  <2> QED BY <1>3, <2>1, <2>2 DEF Edit
<1>4. \/ UNCHANGED <<source, product>>
      \/ \E l \in Launchers : BuildGate(l) \/ AuthorityBuild(l) \/ Spawn(l)
      \/ \E f \in Files : Edit(f)
  BY ScanFrame DEF Next, LaunchStep, GateStep, Begin, Decline, AuthorityPlan,
         Replan, HashSource, StatSource, WriteAuthority, Wait, Unlink, Raises, KillLauncher,
         StartRaw, ReadToken, RemoveToken, CheckTool, Enumerate, CheckEntries, Discover,
         EndScan, ReadLines, KillGate, Retrack, Terminated, vars, disk
<1> QED BY <1>1, <1>2, <1>3, <1>4

(* A launcher records in its own manifest, while it hashes.                *)
LEMMA ManifestOfOthers ==
    ASSUME Types, NEW l \in Launchers, LaunchStep(l)
    PROVE  /\ manifest' = manifest \/ lpc[l] \in {"hash", "stat"}
           /\ \A k \in Launchers \ {l} : manifest'[k] = manifest[k]
<1>1. ASSUME NEW f, NEW e, manifest' = [manifest EXCEPT ![l][f] = e]
      PROVE  \A k \in Launchers \ {l} : manifest'[k] = manifest[k]
  BY <1>1 DEF Types
<1>2. CASE HashSource(l)
  <2>1. PICK f : f = Current(l, plan[l])
    OBVIOUS
  <2>2. lpc[l] = "hash"
    BY <1>2 DEF HashSource, Holds
  <2>3. manifest' = manifest \/ manifest' = [manifest EXCEPT ![l][f].text = source[f].text]
    BY <1>2, <2>1 DEF HashSource
  <2> QED BY <2>2, <2>3 DEF Types
<1>3. CASE StatSource(l)
  <2>1. PICK f : f = Current(l, plan[l])
    OBVIOUS
  <2>2. lpc[l] = "stat" /\ manifest' = [manifest EXCEPT ![l][f] = Recorded(l, f)]
    BY <1>3, <2>1 DEF StatSource, Holds
  <2> QED BY <1>1, <2>2
<1>4. CASE WriteAuthority(l)
  BY <1>1, <1>4 DEF WriteAuthority, Holds
<1>5. CASE manifest' = manifest
  BY <1>5
<1> QED
  BY <1>2, <1>3, <1>4, <1>5
  DEF LaunchStep, Begin, Decline, BuildGate, AuthorityPlan, AuthorityBuild, Replan, Spawn, Wait,
      Unlink, Raises

(* Nobody but its own step moves a gate, and its authority is frozen.      *)
LEMMA LauncherKeeps ==
    ASSUME Types, Capabilities, NEW l \in Launchers, LaunchStep(l) \/ KillLauncher(l),
           NEW g \in Gates, gpc[g] # "idle"
    PROVE  /\ Frozen(g) /\ at'[g] = at[g]
           /\ gpc'[g] = gpc[g] /\ UNCHANGED <<pass, seen, loaded, lines, sound>>
<1>1. /\ nonce[g] \in Launchers /\ lpc[nonce[g]] \in Late
      /\ g = l => lpc[l] \in {"wait", "unlink", "ended", "killed"}
      /\ manifest \in [Launchers -> [Files -> [text : Texts, at : 0 .. clock, of : Built, built : 0 .. clock]]]
      /\ plan \in [Launchers -> SUBSET Modules] /\ at \in [Gates -> 1 .. Len(Order) + 1]
      /\ gpc \in [Gates -> GPlaces]
  BY DEF Capabilities, Types, TypeOK
<1>2. UNCHANGED <<nonce, pass, seen, loaded, lines, sound>>
  BY DEF LaunchStep, Begin, Decline, BuildGate, AuthorityPlan, AuthorityBuild, Replan, HashSource,
         StatSource, WriteAuthority, Spawn, Wait, Unlink, Raises, KillLauncher, gate
<1>3. /\ gpc' = gpc \/ (lpc[l] = "spawn" /\ gpc' = [gpc EXCEPT ![l] = "read"])
  BY DEF LaunchStep, Begin, Decline, BuildGate, AuthorityPlan, AuthorityBuild, Replan, HashSource,
         StatSource, WriteAuthority, Spawn, Wait, Unlink, Raises, KillLauncher, gate, Holds
<1>4. \/ plan' = plan
      \/ lpc[l] = "plan" /\ plan' = [plan EXCEPT ![l] = census]
  BY DEF LaunchStep, Begin, Decline, BuildGate, AuthorityPlan, AuthorityBuild, Replan, HashSource,
         StatSource, WriteAuthority, Spawn, Wait, Unlink, Raises, KillLauncher, Holds
<1>5. \/ manifest' = manifest
      \/ lpc[l] \in {"hash", "stat"} /\ \A k \in Launchers \ {l} : manifest'[k] = manifest[k]
  BY ManifestOfOthers DEF KillLauncher
<1>6. \/ at' = at
      \/ lpc[l] \in {"plan", "build", "replan", "stat"} /\ \E i : at' = [at EXCEPT ![l] = i]
  BY DEF LaunchStep, Begin, Decline, BuildGate, AuthorityPlan, AuthorityBuild, Replan, HashSource,
         StatSource, WriteAuthority, Spawn, Wait, Unlink, Raises, KillLauncher, Holds, Restart, Advance
<1>7. Frozen(g)
  BY <1>1, <1>2, <1>4, <1>5 DEF Frozen, Late
<1>8. at'[g] = at[g]
  BY <1>1, <1>6
<1>9. gpc'[g] = gpc[g]
  BY <1>1, <1>3
<1> QED BY <1>2, <1>7, <1>8, <1>9

LEMMA GateKeeps ==
    ASSUME Types, NEW h \in Gates, GateStep(h) \/ KillGate(h),
           NEW g \in Gates, g # h
    PROVE  /\ Frozen(g) /\ at'[g] = at[g] /\ gpc'[g] = gpc[g] /\ pass'[g] = pass[g]
           /\ seen'[g] = seen[g] /\ loaded'[g] = loaded[g] /\ lines'[g] = lines[g]
           /\ sound'[g] = sound[g]
<1>1. UNCHANGED <<plan, manifest>>
  BY ScanFrame DEF GateStep, StartRaw, ReadToken, RemoveToken, CheckTool, Enumerate, CheckEntries, Discover,
         EndScan, ReadLines, KillGate
<1>2. nonce'[g] = nonce[g] /\ gpc'[g] = gpc[g] /\ pass'[g] = pass[g]
  BY ScanFrame DEF Types, TypeOK, GateStep, StartRaw, ReadToken, RemoveToken, CheckTool, Enumerate,
         CheckEntries, Discover, EndScan, ReadLines, KillGate, OfGate, GGoto
<1>3. at'[g] = at[g] /\ seen'[g] = seen[g] /\ sound'[g] = sound[g]
  <2> /\ at \in [Gates -> 1 .. Len(Order) + 1]
      /\ seen \in [Gates -> SUBSET Modules]
      /\ sound \in [Gates -> BOOLEAN]
    BY DEF Types, TypeOK
  <2>1. sound' = sound \/ \E b : sound' = [sound EXCEPT ![h] = b]
    BY ScanFrame DEF GateStep, StartRaw, ReadToken, RemoveToken, CheckTool, Enumerate,
         CheckEntries, Discover, EndScan, ReadLines, KillGate, OfGate
  <2>2. at' = at \/ \E i : at' = [at EXCEPT ![h] = i]
    BY ScanFrame DEF GateStep, StartRaw, ReadToken, RemoveToken, CheckTool, Enumerate, Restart, Advance,
         CheckEntries, Discover, EndScan, ReadLines, KillGate, OfGate
  <2>3. seen' = seen \/ \E s : seen' = [seen EXCEPT ![h] = s]
    BY ScanFrame DEF GateStep, StartRaw, ReadToken, RemoveToken, CheckTool, Enumerate,
         CheckEntries, Discover, EndScan, ReadLines, KillGate, OfGate
  <2> QED BY <2>1, <2>2, <2>3
<1>4. loaded'[g] = loaded[g] /\ lines'[g] = lines[g]
  <2>1. loaded' = loaded \/ \E s : loaded' = [loaded EXCEPT ![h] = s]
    BY ScanFrame DEF GateStep, StartRaw, ReadToken, RemoveToken, CheckTool, Enumerate, Loads,
         CheckEntries, Discover, EndScan, ReadLines, KillGate, OfGate
  <2>2. lines' = lines \/ \E m, t : lines' = [lines EXCEPT ![h][m] = t]
    BY ScanFrame DEF GateStep, StartRaw, ReadToken, RemoveToken, CheckTool, Enumerate,
         CheckEntries, Discover, EndScan, ReadLines, KillGate, OfGate
  <2> QED BY <2>1, <2>2 DEF Types
<1> QED BY <1>1, <1>2, <1>3, <1>4 DEF Frozen

(* What a gate has established of a file, or knows against it, outlives    *)
(* every step that is not its own.                                         *)
LEMMA RecordedStays ==
    ASSUME Types, Writes, NEW g \in Gates, NEW m \in Modules,
           nonce[g] \in Launchers, Frozen(g)
    PROVE  /\ Verified(g, m) => Verified(g, m)'
           /\ loaded'[g] = loaded[g] /\ LoadedAsRecorded(g, m) => LoadedAsRecorded(g, m)'
           /\ lines'[g] = lines[g] /\ ReadAsRecorded(g, m) => ReadAsRecorded(g, m)'
           /\ ~StatMatches(g, m) => ~StatMatches(g, m)'
<1>1. m \in Files
  BY DEF Files
<1>2. /\ Entry(g, m)' = Entry(g, m)
      /\ Entry(g, m).at <= clock /\ Entry(g, m).built <= clock
      /\ Entry(g, m).at \in Nat /\ Entry(g, m).built \in Nat /\ clock \in Nat
  BY <1>1 DEF Entry, Frozen, Types, TypeOK
<1>3. /\ source'[m] = source[m] \/ source'[m].at = clock + 1
      /\ product'[m] = product[m] \/ product'[m].at = clock + 1
  BY <1>1 DEF Writes
<1>4. clock + 1 # Entry(g, m).at /\ clock + 1 # Entry(g, m).built
  BY <1>2
<1>5. Verified(g, m) => Verified(g, m)'
  BY <1>2, <1>3, <1>4 DEF Verified
<1>6. loaded'[g] = loaded[g] /\ LoadedAsRecorded(g, m) => LoadedAsRecorded(g, m)'
  BY <1>2, <1>3, <1>4 DEF LoadedAsRecorded
<1>7. lines'[g] = lines[g] /\ ReadAsRecorded(g, m) => ReadAsRecorded(g, m)'
  BY <1>2, <1>3, <1>4 DEF ReadAsRecorded
<1>8. ~StatMatches(g, m) => ~StatMatches(g, m)'
  BY <1>2, <1>3, <1>4 DEF StatMatches
<1> QED BY <1>5, <1>6, <1>7, <1>8

LEMMA OthersKeepScanned ==
    ASSUME Types, Capabilities, Writes, NEW g \in Gates, Scanned(g),
           gpc[g] # "idle", Frozen(g), at'[g] = at[g], gpc'[g] = gpc[g], pass'[g] = pass[g],
           seen'[g] = seen[g], loaded'[g] = loaded[g], lines'[g] = lines[g], sound'[g] = sound[g]
    PROVE  Scanned(g)'
<1>1. nonce[g] \in Launchers /\ plan[nonce[g]] \subseteq Modules /\ seen[g] \subseteq Modules
  BY DEF Capabilities, Types, TypeOK
<1>2. \A m \in Modules : /\ Verified(g, m) => Verified(g, m)'
                         /\ LoadedAsRecorded(g, m) => LoadedAsRecorded(g, m)'
                         /\ ReadAsRecorded(g, m) => ReadAsRecorded(g, m)'
                         /\ ~StatMatches(g, m) => ~StatMatches(g, m)'
  BY <1>1, RecordedStays
<1>3. plan'[nonce'[g]] = plan[nonce[g]]
  BY DEF Frozen
<1>4. \A m \in Modules : Passed(g, m)' <=> Passed(g, m)
  BY DEF Passed
<1>5. Verdict(g)' = Verdict(g)
  BY DEF Verdict
<1>6. Stopped(g) => Stopped(g)'
  <2>1. ASSUME NEW j \in Positions, at[g] <= j, Order[j] \in plan[nonce[g]], ~StatMatches(g, Order[j])
        PROVE  Stopped(g)'
    <3>1. ~StatMatches(g, Order[j])'
      BY <1>1, <1>2, <2>1
    <3>2. at'[g] <= j /\ Order[j] \in plan'[nonce'[g]]
      BY <1>3, <2>1
    <3> QED BY <2>1, <3>1, <3>2 DEF Stopped
  <2>2. ASSUME Verdict(g) # "passed" PROVE Stopped(g)'
    BY <1>5, <2>2 DEF Stopped
  <2> QED BY <2>1, <2>2 DEF Stopped
<1>7. gpc'[g] = "entries" => \A m \in plan'[nonce'[g]] : Passed(g, m)' => Verified(g, m)'
  BY <1>1, <1>2, <1>3, <1>4 DEF Scanned
<1>8. gpc'[g] \in Scanning \/ pass'[g] >= 2 => \A m \in plan'[nonce'[g]] : Verified(g, m)'
  BY <1>1, <1>2, <1>3 DEF Scanned
<1>9. gpc'[g] \in Scanning \ {"discover"} \/ pass'[g] >= 2 =>
          \A m \in Modules : LoadedAsRecorded(g, m)'
  BY <1>2 DEF Scanned
<1>10. gpc'[g] = "lines" => \A m \in seen'[g] : Passed(g, m)' => ReadAsRecorded(g, m)'
  BY <1>1, <1>2, <1>4 DEF Scanned
<1>11. pass'[g] >= 2 => \A m \in seen'[g] : ReadAsRecorded(g, m)'
  BY <1>1, <1>2 DEF Scanned
<1>12. gpc'[g] = "entries" /\ pass'[g] = 3 => sound'[g] \/ Stopped(g)'
  BY <1>6 DEF Scanned
<1>13. gpc'[g] = "passed" => sound'[g]
  BY DEF Scanned
<1> QED BY <1>7, <1>8, <1>9, <1>10, <1>11, <1>12, <1>13 DEF Scanned

(* A gate that has not been let in has nothing to say.                     *)
LEMMA NotLetIn ==
    ASSUME NEW g \in Gates, gpc[g] \in {"idle", "read", "remove"}, pass[g] = 0
    PROVE  Scanned(g)
BY DEF Scanned, Scanning

-----------------------------------------------------------------------------
(* A gate's own steps                                                      *)

LEMMA SameFiles ==
    ASSUME NEW g \in Gates, UNCHANGED <<source, product, manifest, plan, nonce>>
    PROVE  /\ plan'[nonce'[g]] = plan[nonce[g]]
           /\ \A m : Verified(g, m)' = Verified(g, m)
           /\ \A m : StatMatches(g, m)' = StatMatches(g, m)
           /\ \A m : loaded'[g] = loaded[g] => LoadedAsRecorded(g, m)' = LoadedAsRecorded(g, m)
           /\ \A m : lines'[g] = lines[g] => ReadAsRecorded(g, m)' = ReadAsRecorded(g, m)
<1>1. Entry(g, 0)' = Entry(g, 0) /\ \A m : Entry(g, m)' = Entry(g, m)
  BY DEF Entry
<1>2. \A m : Verified(g, m)' = Verified(g, m)
  BY <1>1 DEF Verified
<1>3. \A m : StatMatches(g, m)' = StatMatches(g, m)
  BY <1>1 DEF StatMatches
<1>4. \A m : loaded'[g] = loaded[g] => LoadedAsRecorded(g, m)' = LoadedAsRecorded(g, m)
  BY <1>1 DEF LoadedAsRecorded
<1>5. \A m : lines'[g] = lines[g] => ReadAsRecorded(g, m)' = ReadAsRecorded(g, m)
  BY <1>1 DEF ReadAsRecorded
<1> QED BY <1>2, <1>3, <1>4, <1>5

(* Steps that end the gate or go from one check to the next.               *)
LEMMA Halts ==
    ASSUME NEW g \in Gates, Scanned(g), UNCHANGED <<source, product, manifest, plan, nonce>>,
           pass'[g] = pass[g] \/ pass'[g] = 1,
           UNCHANGED <<seen, loaded, lines, sound>>,
           gpc'[g] \notin Scanning \cup {"entries", "passed"}
    PROVE  Scanned(g)'
<1>1. /\ \A m : Verified(g, m)' = Verified(g, m)
      /\ \A m : LoadedAsRecorded(g, m)' = LoadedAsRecorded(g, m)
      /\ \A m : ReadAsRecorded(g, m)' = ReadAsRecorded(g, m)
      /\ plan'[nonce'[g]] = plan[nonce[g]]
  BY SameFiles
<1>2. pass'[g] >= 2 => pass[g] >= 2
  OBVIOUS
<1>3. gpc'[g] \notin Scanning /\ gpc'[g] # "entries" /\ gpc'[g] # "passed" /\ gpc'[g] # "lines"
  BY DEF Scanning
<1>4. ASSUME pass'[g] >= 2
      PROVE  /\ \A m \in plan[nonce[g]] : Verified(g, m)
             /\ \A m \in Modules : LoadedAsRecorded(g, m)
             /\ \A m \in seen[g] : ReadAsRecorded(g, m)
  BY <1>2, <1>4 DEF Scanned
<1>5. seen' = seen
  OBVIOUS
<1> QED BY <1>1, <1>3, <1>4, <1>5 DEF Scanned

(* The barrier begins: if not all is as recorded, the loop will stop, for  *)
(* a scanned module whose product and source both still have the recorded  *)
(* times is compiled from its source, and what was loaded and read of it   *)
(* is what is there.                                                       *)
LEMMA BarrierBegins ==
    ASSUME Types, Capabilities, NEW g \in Gates, Scanned(g), pass[g] = 3,
           NEW m \in seen[g] \cap plan[nonce[g]], ~Grounded(m), StatMatches(g, m)
    PROVE  Verdict(g) # "passed"
<1>1. m \in Modules /\ m \in Files
  BY DEF Types, TypeOK, Files
<1>2. Verified(g, m) /\ LoadedAsRecorded(g, m) /\ ReadAsRecorded(g, m)
  BY <1>1 DEF Scanned
<1>3. product[m].of = source[m].text
  BY <1>2 DEF Verified, StatMatches
<1>4. source[m].text = "uncited"
  BY <1>3 DEF Grounded
<1>5. loaded[g][m] # "absent" => loaded[g][m] = "uncited"
  BY <1>2, <1>3, <1>4 DEF LoadedAsRecorded, StatMatches
<1>6. lines[g][m] = "uncited"
  BY <1>2, <1>4 DEF ReadAsRecorded, StatMatches
<1>7. ~(loaded[g][m] = "none" \/ (loaded[g][m] # "absent" /\ lines[g][m] = "cited"))
  BY <1>5, <1>6
<1> QED BY <1>7 DEF Verdict

LEMMA EnumerateScanned ==
    ASSUME Types, Capabilities, NEW g \in Gates, Scanned(g), Enumerate(g)
    PROVE  Scanned(g)'
<1>1. /\ UNCHANGED <<source, product, manifest, plan, nonce>>
      /\ UNCHANGED <<pass, seen, loaded, lines>>
      /\ gpc[g] = "enumerate" /\ gpc'[g] \in {"entries", "refused"}
      /\ at'[g] = 1
      /\ sound'[g] = (pass[g] = 3 /\ \A m \in seen[g] \cap plan[nonce[g]] : Grounded(m))
  BY DEF Types, TypeOK, Enumerate, disk, GGoto, Restart
<1>2. /\ \A m : Verified(g, m)' = Verified(g, m)
      /\ \A m : LoadedAsRecorded(g, m)' = LoadedAsRecorded(g, m)
      /\ \A m : ReadAsRecorded(g, m)' = ReadAsRecorded(g, m)
      /\ \A m : StatMatches(g, m)' = StatMatches(g, m)
      /\ plan'[nonce'[g]] = plan[nonce[g]]
  BY <1>1, SameFiles
<1>3. \A m : ~Passed(g, m)'
  BY <1>1, Ordered DEF Passed
<1>4. ASSUME pass[g] = 3, ~sound'[g] PROVE Stopped(g)'
  <2>1. PICK m \in seen[g] \cap plan[nonce[g]] : ~Grounded(m)
    BY <1>1, <1>4
  <2>2. PICK j \in Positions : m = Order[j]
    BY <2>1, Ordered DEF Types, TypeOK
  <2>3. Verdict(g)' = Verdict(g)
    BY <1>1 DEF Verdict
  <2>4. at'[g] <= j
    BY <1>1, <2>2, Ordered
  <2>5. CASE StatMatches(g, m)
    BY <1>4, <2>1, <2>3, <2>5, BarrierBegins DEF Stopped
  <2>6. CASE ~StatMatches(g, m)
    BY <1>2, <2>1, <2>2, <2>4, <2>6 DEF Stopped
  <2> QED BY <2>5, <2>6
<1> QED BY <1>1, <1>2, <1>3, <1>4 DEF Scanned, Scanning

LEMMA EntriesScanned ==
    ASSUME Types, Capabilities, NEW g \in Gates, Scanned(g), CheckEntries(g)
    PROVE  Scanned(g)'
<1>1. /\ UNCHANGED <<source, product, manifest, plan, nonce>>
      /\ UNCHANGED <<seen, loaded, lines, sound>>
      /\ gpc[g] = "entries" /\ pass[g] \in 1 .. 3
      /\ plan[nonce[g]] \subseteq Modules /\ at[g] \in Nat
  BY Ordered DEF Types, TypeOK, CheckEntries, disk, Capabilities
<1>2. /\ \A m : Verified(g, m)' = Verified(g, m)
      /\ \A m : LoadedAsRecorded(g, m)' = LoadedAsRecorded(g, m)
      /\ \A m : ReadAsRecorded(g, m)' = ReadAsRecorded(g, m)
      /\ \A m : StatMatches(g, m)' = StatMatches(g, m)
      /\ plan'[nonce'[g]] = plan[nonce[g]]
      /\ Verdict(g)' = Verdict(g)
  BY <1>1, SameFiles DEF Verdict
<1>3. CASE Left(plan[nonce[g]], at[g]) = {}
  <2>1. /\ gpc'[g] = AfterPass(g)
        /\ pass'[g] = IF pass[g] = 2 THEN 3 ELSE pass[g]
        /\ at' = at
    BY <1>3 DEF CheckEntries, GGoto, Types, TypeOK
  <2>2. \A m \in plan[nonce[g]] : Verified(g, m)
    BY <1>1, <1>3, PassedAll DEF Scanned, Passed
  <2>3. /\ pass[g] = 1 => AfterPass(g) = "discover"
        /\ pass[g] = 2 => AfterPass(g) = "tool"
        /\ pass[g] = 3 => AfterPass(g) = Verdict(g) /\ Verdict(g) \in {"passed", "failed"}
    BY DEF AfterPass, Verdict
  <2>4. CASE pass[g] = 1
    BY <1>2, <2>1, <2>2, <2>3, <2>4 DEF Scanned, Scanning
  <2>5. CASE pass[g] = 2
    BY <1>1, <1>2, <2>1, <2>2, <2>3, <2>5 DEF Scanned, Scanning
  <2>6. CASE pass[g] = 3
    <3>1. \A j \in Positions : ~(at[g] <= j /\ Order[j] \in plan[nonce[g]])
      BY <1>3 DEF Left
    <3>2. Verdict(g) = "passed" => sound[g]
      BY <1>1, <2>6, <3>1 DEF Scanned, Stopped
    <3> QED BY <1>1, <1>2, <2>1, <2>2, <2>3, <2>6, <3>2 DEF Scanned, Scanning
  <2> QED BY <1>1, <2>4, <2>5, <2>6
<1>4. CASE Left(plan[nonce[g]], at[g]) # {}
  <2> DEFINE k == First(Left(plan[nonce[g]], at[g]))
  <2>1. PICK m : m = Current(g, plan[nonce[g]])
    OBVIOUS
  <2>2. /\ k \in Positions /\ m = Order[k]
        /\ \A j \in Left(plan[nonce[g]], at[g]) : k <= j
    BY <1>1, <1>4, <2>1, NextLeft DEF Current
  <2>3. /\ at'[g] = k + 1 /\ pass' = pass
        /\ gpc'[g] = IF IF pass[g] = 3 THEN StatMatches(g, m) ELSE EntryVerifies(g, m)
                     THEN "entries" ELSE "refused"
    BY <1>4, <2>1 DEF CheckEntries, Advance, GGoto, Types, TypeOK
  <2>4. \A i, j \in Positions : Order[i] = Order[j] => i = j
    BY Ordered
  <2> HIDE DEF k
  <2>5. ASSUME gpc'[g] = "entries", pass[g] # 3 PROVE Verified(g, m)
    BY <2>3, <2>5 DEF EntryVerifies, Verified, StatMatches
  <2>6. ASSUME gpc'[g] = "entries", NEW x \in plan[nonce[g]], Passed(g, x)' PROVE Verified(g, x)
    <3>1. PICK j \in Positions : j < k + 1 /\ Order[j] = x
      BY <2>3, <2>6 DEF Passed
    <3>2. j < at[g] \/ j = k
      BY <1>1, <1>4, <2>6, <3>1, PassedNext DEF k
    <3>3. CASE j < at[g]
      BY <1>1, <2>6, <3>1, <3>3 DEF Scanned, Passed
    <3>4. CASE j = k /\ pass[g] # 3
      BY <2>2, <2>5, <2>6, <3>1, <3>4
    <3>5. CASE pass[g] = 3
      BY <2>6, <3>5 DEF Scanned
    <3> QED BY <3>2, <3>3, <3>4, <3>5
  <2>7. ASSUME gpc'[g] = "entries", pass[g] = 3, Stopped(g) PROVE Stopped(g)'
    <3>1. StatMatches(g, m)
      BY <2>3, <2>7
    <3>2. ASSUME NEW j \in Positions, at[g] <= j, Order[j] \in plan[nonce[g]],
                 ~StatMatches(g, Order[j])
          PROVE  Stopped(g)'
      <4>1. j \in Left(plan[nonce[g]], at[g]) /\ j # k
        BY <2>2, <3>1, <3>2 DEF Left
      <4>2. k <= j /\ j \in Nat /\ k \in Nat
        BY <2>2, <4>1, Ordered
      <4>3. at'[g] <= j
        BY <2>3, <4>1, <4>2
      <4> QED BY <1>2, <3>2, <4>3 DEF Stopped
    <3>3. ASSUME Verdict(g) # "passed" PROVE Stopped(g)'
      BY <1>2, <3>3 DEF Stopped
    <3> QED BY <2>7, <3>2, <3>3 DEF Stopped
  <2>8. gpc'[g] \in {"entries", "refused"}
    BY <2>3
  <2>9. gpc'[g] = "entries" => \A x \in plan'[nonce'[g]] : Passed(g, x)' => Verified(g, x)'
    BY <1>2, <2>6
  <2>10. gpc'[g] = "entries" /\ pass'[g] = 3 => sound'[g] \/ Stopped(g)'
    BY <1>1, <2>3, <2>7 DEF Scanned
  <2> QED BY <1>1, <1>2, <2>3, <2>8, <2>9, <2>10 DEF Scanned, Scanning
<1> QED BY <1>3, <1>4

LEMMA ReadScanned ==
    ASSUME Types, Capabilities, NEW g \in Gates, Scanned(g), ReadLines(g)
    PROVE  Scanned(g)'
<1>1. /\ UNCHANGED <<source, product, manifest, plan, nonce>>
      /\ UNCHANGED <<seen, loaded, sound>>
      /\ gpc[g] = "lines" /\ pass[g] = 1
      /\ plan[nonce[g]] \subseteq Modules /\ seen[g] \subseteq Modules /\ at[g] \in Nat
  BY Ordered DEF Types, TypeOK, ReadLines, disk, Capabilities, Scanning
<1>2. /\ \A m : Verified(g, m)' = Verified(g, m)
      /\ \A m : LoadedAsRecorded(g, m)' = LoadedAsRecorded(g, m)
      /\ plan'[nonce'[g]] = plan[nonce[g]]
  BY <1>1, SameFiles
<1>3. CASE Left(seen[g], at[g]) = {}
  <2>1. gpc'[g] = "tool" /\ pass'[g] = 2 /\ lines' = lines
    BY <1>3 DEF ReadLines, GGoto, Types, TypeOK
  <2>2. \A m \in seen[g] : ReadAsRecorded(g, m)
    BY <1>1, <1>3, PassedAll DEF Scanned, Passed
  <2>3. \A m : ReadAsRecorded(g, m)' = ReadAsRecorded(g, m)
    BY <1>1, <2>1, SameFiles
  <2> QED BY <1>1, <1>2, <2>1, <2>2, <2>3 DEF Scanned, Scanning
<1>4. CASE Left(seen[g], at[g]) # {}
  <2> DEFINE k == First(Left(seen[g], at[g]))
  <2>1. PICK m : m = Current(g, seen[g])
    OBVIOUS
  <2>2. k \in Positions /\ m = Order[k] /\ m \in Modules
    BY <1>1, <1>4, <2>1, NextLeft, Ordered DEF Current
  <2>3. /\ at'[g] = k + 1 /\ pass' = pass /\ gpc' = gpc
        /\ lines' = [lines EXCEPT ![g][m] = source[m].text]
    BY <1>4, <2>1 DEF ReadLines, Advance, Types, TypeOK
  <2> HIDE DEF k
  <2>4. lines'[g][m] = source[m].text /\ \A x \in Modules \ {m} : lines'[g][x] = lines[g][x]
    BY <2>2, <2>3 DEF Types
  <2>5. ReadAsRecorded(g, m)'
    BY <1>1, <2>4 DEF ReadAsRecorded
  <2>6. ASSUME NEW x \in seen[g], Passed(g, x)' PROVE ReadAsRecorded(g, x)'
    <3>1. PICK j \in Positions : j < k + 1 /\ Order[j] = x
      BY <2>3, <2>6 DEF Passed
    <3>2. j < at[g] \/ j = k
      BY <1>1, <1>4, <2>6, <3>1, PassedNext DEF k
    <3>3. CASE x = m
      BY <2>5, <3>3
    <3>4. CASE x # m
      <4>1. Passed(g, x)
        BY <2>2, <3>1, <3>2, <3>4 DEF Passed
      <4>2. ReadAsRecorded(g, x)
        BY <1>1, <4>1 DEF Scanned
      <4>3. lines'[g][x] = lines[g][x]
        BY <1>1, <2>4, <3>4
      <4> QED BY <1>1, <4>2, <4>3 DEF ReadAsRecorded, Entry
    <3> QED BY <3>3, <3>4
  <2> QED BY <1>1, <1>2, <2>3, <2>6 DEF Scanned, Scanning
<1> QED BY <1>3, <1>4

LEMMA WorkScanned ==
    ASSUME Types, Capabilities, NEW g \in Gates, Scanned(g),
           Discover(g) \/ Scan(g) \/ EndScan(g)
    PROVE  Scanned(g)'
<1>1. /\ UNCHANGED <<source, product, manifest, plan, nonce>>
      /\ UNCHANGED <<lines, sound, pass>>
      /\ gpc[g] \in {"discover", "scan"} /\ pass[g] = 1
      /\ gpc'[g] \in {"scan", "lines", "raised"}
  <2>1. UNCHANGED <<source, product, manifest, plan, nonce, lines, sound, pass>>
    BY ScanFrame DEF Discover, EndScan, OfGate, disk
  <2>2. gpc[g] \in {"discover", "scan"} /\ gpc'[g] \in {"scan", "lines", "raised"}
    BY ScanFrame DEF Types, Discover, EndScan, GGoto
  <2> QED BY <2>1, <2>2 DEF Capabilities, Scanning
<1>2. /\ \A m : Verified(g, m)' = Verified(g, m)
      /\ plan'[nonce'[g]] = plan[nonce[g]]
  BY <1>1, SameFiles
<1>3. \A m \in Modules : LoadedAsRecorded(g, m)'
  <2>1. CASE Discover(g)
    <3>1. \A m \in Modules : loaded'[g][m] = "absent"
      BY <2>1 DEF Discover, Types, TypeOK
    <3> QED BY <3>1 DEF LoadedAsRecorded
  <2>2. CASE loaded' = loaded /\ gpc[g] = "scan"
    <3>1. \A m \in Modules : LoadedAsRecorded(g, m)
      BY <2>2 DEF Scanned, Scanning
    <3> QED BY <1>1, <2>2, <3>1, SameFiles
  <2>3. ASSUME NEW p \in Payloads, Work(g, p), Loads(g, p)
        PROVE  \A m \in Modules : LoadedAsRecorded(g, m)'
    <3>1. \A m \in Modules : LoadedAsRecorded(g, m)
      BY <2>3 DEF Scanned, Scanning, Work
    <3>2. ASSUME NEW m \in Modules PROVE LoadedAsRecorded(g, m)'
      <4>1. loaded'[g][m] = IF m \in Given(p) THEN product[m].of ELSE loaded[g][m]
        BY <2>3 DEF Loads, Types
      <4>2. CASE m \in Given(p)
        BY <1>1, <4>1, <4>2 DEF LoadedAsRecorded
      <4>3. CASE m \notin Given(p)
        BY <1>1, <3>1, <4>1, <4>3 DEF LoadedAsRecorded, Entry
      <4> QED BY <4>2, <4>3
    <3> QED BY <3>2
  <2>4. ASSUME NEW p \in Payloads, IssueWorker(g, p) \/ CollectWorker(g, p) \/ Work(g, p)
        PROVE  gpc[g] = "scan" /\ (loaded' = loaded \/ (Work(g, p) /\ Loads(g, p)))
    BY <2>4 DEF IssueWorker, Takes, Work, CollectWorker
  <2>5. EndScan(g) => loaded' = loaded /\ gpc[g] = "scan"
    BY DEF EndScan, OfGate
  <2> QED BY <2>1, <2>2, <2>3, <2>4, <2>5 DEF Scan
<1>4. gpc'[g] = "lines" => \A m : ~Passed(g, m)'
  <2>1. gpc'[g] = "lines" => at'[g] = 1
    <3>1. CASE Scan(g) \/ Discover(g)
      BY <3>1, ScanFrame DEF Types, Discover, GGoto
    <3>2. CASE EndScan(g)
      BY <3>2 DEF Types, TypeOK, EndScan, GGoto, Restart
    <3> QED BY <3>1, <3>2
  <2> QED BY <2>1, Ordered DEF Passed
<1> QED BY <1>1, <1>2, <1>3, <1>4 DEF Scanned, Scanning

LEMMA OwnScanned ==
    ASSUME Types, Capabilities, Capabilities', NEW g \in Gates, Scanned(g),
           GateStep(g) \/ KillGate(g)
    PROVE  Scanned(g)'
<1>1. CASE StartRaw(g)
  <2>1. gpc'[g] = "read"
    BY <1>1 DEF StartRaw, GGoto, Types
  <2>2. gpc'[g] \in {"idle", "read", "remove"} /\ pass'[g] = 0
    BY <2>1 DEF Capabilities
  <2> QED BY <2>2 DEF Scanned, Scanning
<1>2. CASE ReadToken(g) \/ CheckTool(g) \/ KillGate(g)
  <2>1. /\ UNCHANGED <<source, product, manifest, plan, nonce, pass, seen, loaded, lines, sound>>
        /\ gpc'[g] \notin Scanning \cup {"entries", "passed"}
    BY <1>2 DEF ReadToken, CheckTool, KillGate, OfGate, disk, GGoto, Types, Scanning
  <2> QED BY <2>1, Halts
<1>3. CASE RemoveToken(g)
  <2>1. /\ UNCHANGED <<source, product, manifest, plan, nonce, seen, loaded, lines, sound>>
        /\ gpc'[g] \notin Scanning \cup {"entries", "passed"}
        /\ pass'[g] = pass[g] \/ pass'[g] = 1
    BY <1>3 DEF RemoveToken, disk, GGoto, Types, TypeOK, Scanning
  <2> QED BY <2>1, Halts
<1> QED
  BY <1>1, <1>2, <1>3, EnumerateScanned, EntriesScanned, ReadScanned, WorkScanned DEF GateStep

-----------------------------------------------------------------------------
(* The invariant and the first two theorems                                *)

Inv ==
    Types /\ Capabilities /\ OneAttempt /\ NothingLeft /\ UmbrellaFirst /\ \A g \in Gates : Scanned(g)

LEMMA InvInit == Init => Inv
<1> SUFFICES ASSUME Init PROVE Inv
  OBVIOUS
<1>1. Types /\ Capabilities /\ OneAttempt /\ NothingLeft /\ UmbrellaFirst
  BY TypesInit, CapabilitiesInit, ServedInit, UmbrellaInit
<1>2. \A g \in Gates : gpc[g] = "idle" /\ pass[g] = 0
  BY DEF Init
<1>3. \A g \in Gates : Scanned(g)
  BY <1>2, NotLetIn
<1> QED BY <1>1, <1>3 DEF Inv

LEMMA InvStep == Inv /\ [Next]_vars => Inv'
<1> SUFFICES ASSUME Inv, Next \/ UNCHANGED vars PROVE Inv'
  OBVIOUS
<1>0. /\ Types /\ Capabilities /\ OneAttempt /\ NothingLeft /\ UmbrellaFirst
      /\ \A g \in Gates : Scanned(g)
  BY DEF Inv
<1>1. \/ \E l \in Launchers : LaunchStep(l) \/ KillLauncher(l)
      \/ \E g \in Gates : GateStep(g) \/ KillGate(g)
      \/ \E f \in Files : Edit(f)
      \/ \E m \in Modules : Retrack(m)
      \/ UNCHANGED vars
  BY DEF Next, Terminated
<1>2. Types'
  BY <1>0, <1>1, LaunchTypes, GateTypes, WorldTypes
<1>3. Capabilities'
  BY <1>0, <1>1, LaunchCapabilities, GateCapabilities, WorldCapabilities
<1>4. OneAttempt' /\ NothingLeft' /\ UmbrellaFirst'
  BY <1>0, <1>3, ServedStep, UmbrellaStep
<1>5. Writes
  BY <1>0, EveryoneWrites
<1>6. ASSUME NEW g \in Gates PROVE Scanned(g)'
  <2>1. CASE gpc'[g] = "idle"
    <3>1. pass'[g] = 0
      BY <1>3, <2>1 DEF Capabilities
    <3> QED BY <2>1, <3>1 DEF Scanned, Scanning
  <2>2. ASSUME gpc[g] # "idle", Frozen(g), at'[g] = at[g], gpc'[g] = gpc[g], pass'[g] = pass[g],
               seen'[g] = seen[g], loaded'[g] = loaded[g], lines'[g] = lines[g],
               sound'[g] = sound[g]
        PROVE  Scanned(g)'
    BY <1>0, <1>5, <2>2, OthersKeepScanned
  <2>3. CASE gpc[g] # "idle"
    <3>1. ASSUME NEW l \in Launchers, LaunchStep(l) \/ KillLauncher(l) PROVE Scanned(g)'
      BY <1>0, <2>2, <2>3, <3>1, LauncherKeeps
    <3>2. ASSUME NEW h \in Gates, GateStep(h) \/ KillGate(h) PROVE Scanned(g)'
      <4>1. CASE h = g
        BY <1>0, <1>3, <3>2, <4>1, OwnScanned
      <4>2. CASE h # g
        BY <1>0, <2>2, <2>3, <3>2, <4>2, GateKeeps
      <4> QED BY <4>1, <4>2
    <3>3. ASSUME \/ \E f \in Files : Edit(f)
                 \/ \E m \in Modules : Retrack(m)
                 \/ UNCHANGED vars
          PROVE  Scanned(g)'
      <4>1. UNCHANGED <<plan, manifest, at, gate>>
        BY <3>3 DEF Edit, Retrack, vars
      <4>2. Frozen(g)
        BY <4>1 DEF Frozen, gate
      <4>3. /\ at'[g] = at[g] /\ gpc'[g] = gpc[g] /\ pass'[g] = pass[g] /\ seen'[g] = seen[g]
            /\ loaded'[g] = loaded[g] /\ lines'[g] = lines[g] /\ sound'[g] = sound[g]
        BY <4>1 DEF gate
      <4> QED BY <2>2, <2>3, <4>2, <4>3
    <3> QED BY <1>1, <3>1, <3>2, <3>3
  <2>4. CASE gpc[g] = "idle" /\ gpc'[g] # "idle"
    <3>1. gpc'[g] = "read"
      <4>1. ASSUME NEW l \in Launchers, LaunchStep(l) \/ KillLauncher(l) PROVE gpc'[g] = "read"
        <5>1. gpc' = gpc \/ gpc' = [gpc EXCEPT ![l] = "read"]
          BY <4>1
          DEF LaunchStep, Begin, Decline, BuildGate, AuthorityPlan, AuthorityBuild, Replan,
              HashSource, StatSource, WriteAuthority, Spawn, Wait, Unlink, Raises, KillLauncher, gate
        <5> QED BY <1>0, <2>4, <5>1 DEF Types
      <4>2. ASSUME NEW h \in Gates, GateStep(h) \/ KillGate(h) PROVE gpc'[g] = "read"
        <5>1. h = g
          BY <1>0, <2>4, <4>2, GateKeeps
        <5>2. StartRaw(g)
          BY <2>4, <4>2, <5>1, ScanFrame
          DEF GateStep, ReadToken, RemoveToken, CheckTool, Enumerate, CheckEntries, Discover,
              EndScan, ReadLines, KillGate
        <5> QED BY <1>0, <5>2 DEF StartRaw, GGoto, Types
      <4>3. gpc' = gpc \/ (\E l \in Launchers : LaunchStep(l) \/ KillLauncher(l))
                       \/ (\E h \in Gates : GateStep(h) \/ KillGate(h))
        BY <1>1 DEF Edit, Retrack, vars, gate
      <4> QED BY <2>4, <4>1, <4>2, <4>3
    <3>2. pass'[g] = 0
      BY <1>3, <3>1 DEF Capabilities
    <3> QED BY <3>1, <3>2 DEF Scanned, Scanning
  <2> QED BY <2>1, <2>3, <2>4
<1> QED BY <1>2, <1>3, <1>4, <1>6 DEF Inv

LEMMA InvAlways == Spec => []Inv
BY InvInit, InvStep, PTL DEF Spec

(* The one-time capabilities: one gate at most is let in by a token, no    *)
(* launcher comes to its end and leaves its token, and the token of a      *)
(* worker outlives it only where its gate was killed or ended by another   *)
(* worker's exception (CapabilityInv), for every interleaving of           *)
(* launchers, gates run by hand, the threads of the pool and kills.        *)
THEOREM TokensAreOneTime == Spec => []CapabilityInv
<1>1. Inv => CapabilityInv
  BY DEF Inv, Types, CapabilityInv
<1> QED BY <1>1, InvAlways, PTL

(* A verdict of 0 is about one state of the tree, whoever wrote, built,    *)
(* tracked or was killed during the run (PassIsGrounded).                  *)
THEOREM VerdictIsGrounded == Spec => []PassIsGrounded
<1>1. Inv => PassIsGrounded
  BY DEF Inv, Scanned, PassIsGrounded
<1> QED BY <1>1, InvAlways, PTL

-----------------------------------------------------------------------------
(* No false refusal                                                        *)

(* A build in an untouched checkout leaves what is already built.          *)
LEMMA QuietBuild ==
    ASSUME Types, Untouched, NEW files, Build(files), UNCHANGED <<source, census>>
    PROVE  /\ Untouched'
           /\ \A f \in Files : product[f].of = "none" => product'[f] = product[f]
           /\ \A f \in Files \cap files : product'[f].of = "none"
<1>1. \A f \in Files : product'[f] = IF f \in files /\ product[f].of # source[f].text
                     THEN [of |-> source[f].text, at |-> clock + 1] ELSE product[f]
  BY DEF Build, Made
<1>2. \A f \in Files : source[f].text = "none" /\ (product[f] = Absent \/ product[f].of = "none")
  BY DEF Untouched
<1>3. ASSUME NEW f \in Files
      PROVE  /\ product'[f] = Absent \/ product'[f].of = "none"
             /\ product[f].of = "none" => product'[f] = product[f]
             /\ f \in files => product'[f].of = "none"
  <2>1. CASE f \in files /\ product[f].of # source[f].text
    <3>0. product'[f] = [of |-> source[f].text, at |-> clock + 1]
      BY <1>1, <2>1
    <3>1. product'[f].of = source[f].text
      BY <3>0
    <3> QED BY <1>2, <2>1, <3>1
  <2>2. CASE ~(f \in files /\ product[f].of # source[f].text)
    BY <1>1, <1>2, <2>2
  <2> QED BY <2>1, <2>2
<1>4. Untouched'
  BY <1>3 DEF Untouched
<1> QED BY <1>3, <1>4

LEMMA StaysOnCourse ==
    ASSUME NEW l \in Launchers, OnCourse(l),
           \A f \in Files : product[f].of = "none" => product'[f] = product[f],
           plan'[l] = plan[l], manifest'[l] = manifest[l], lpc'[l] = lpc[l], gpc'[l] = gpc[l],
           lpc[l] = "stat" => Current(l, plan[l]) \in Files,
           lpc[l] \in {"hash", "stat"} => at'[l] = at[l], l \in tokens => l \in tokens'
    PROVE  OnCourse(l)'
<1>1. \A f \in Files : Accurate(l, f) => Accurate(l, f)'
  BY DEF Accurate
<1>2. /\ Tool \in Files /\ Modules \subseteq Files
  BY DEF Files
<1>3. lpc[l] \in {"hash", "stat"} => \A m : Passed(l, m)' <=> Passed(l, m)
  BY DEF Passed
<1>4. lpc[l] = "stat" => Current(l, plan[l])' = Current(l, plan[l])
  BY DEF Current
<1>5. Running(l)' <=> Running(l)
  BY DEF Running, GateEnded
<1>6. /\ \A f \in Files : manifest'[l][f].text = "none"
      /\ lpc'[l] \in Planned => plan'[l] = Modules
      /\ gpc'[l] # "refused"
      /\ Running(l)' => lpc'[l] = "wait"
      /\ lpc'[l] = "spawn" \/ gpc'[l] \in {"read", "remove"} => l \in tokens'
  BY <1>5 DEF OnCourse
<1>7. lpc'[l] \in Planned \cup {"plan"} => product'[Tool].of = "none"
  BY <1>2 DEF OnCourse
<1>8. lpc'[l] = "stat" => product'[Current(l, plan[l])'].of = "none"
  BY <1>4 DEF OnCourse
<1>9. lpc'[l] \in {"hash", "stat"} => \A m \in Modules : Passed(l, m)' => Accurate(l, m)'
  BY <1>1, <1>2, <1>3 DEF OnCourse
<1>10. lpc'[l] \in {"spawn", "wait"} => \A f \in Files : Accurate(l, f)'
  BY <1>1 DEF OnCourse
<1> QED BY <1>6, <1>7, <1>8, <1>9, <1>10 DEF OnCourse

(* The gate that verifies a quiet launcher's authority finds nothing.      *)
LEMMA GateOnCourse ==
    ASSUME Types, Capabilities, Untouched, NEW l \in Launchers, OnCourse(l),
           GateStep(l), ~StartRaw(l)
    PROVE  OnCourse(l)'
<1>0. /\ l \in Gates /\ Tool \in Files /\ Modules \subseteq Files
      /\ nonce[l] = l /\ gpc \in [Gates -> GPlaces]
      /\ \A f \in Files : product[f].at \in Nat
      /\ tokens \subseteq Launchers
      /\ pass \in [Gates -> 0 .. 3]
  BY DEF Types, TypeOK, Gates, Files, Capabilities
<1>1. Running(l) /\ lpc[l] = "wait"
  <2>1. gpc[l] \notin {"idle", "passed", "failed", "refused", "raised", "killed"}
    BY <1>0, ScanFrame
    DEF GateStep, ReadToken, RemoveToken, CheckTool, Enumerate, CheckEntries, Discover, EndScan,
        ReadLines
  <2> QED BY <2>1 DEF Running, GateEnded, OnCourse
<1>2. /\ plan[l] = Modules /\ \A f \in Files : Accurate(l, f)
      /\ \A f \in Files : manifest[l][f].text = "none"
      /\ product[Tool].of = "none"
  BY <1>1 DEF OnCourse, Planned
<1>3. ASSUME NEW f \in Files
      PROVE  /\ StatMatches(l, f) /\ source[f].text = Entry(l, f).text
             /\ product[f].of = Entry(l, f).of
             /\ product[f].at >= source[f].at /\ product[f].of = source[f].text
  BY <1>0, <1>2 DEF Accurate, StatMatches, Entry, Untouched
<1>4. /\ UNCHANGED <<product, plan, manifest, lpc>>
  BY <1>0, ScanFrame
  DEF GateStep, ReadToken, RemoveToken, CheckTool, Enumerate, CheckEntries, Discover, EndScan,
      ReadLines, disk
<1>5. ASSUME gpc'[l] # "refused", gpc'[l] \in {"read", "remove"} => l \in tokens'
      PROVE  OnCourse(l)'
  <2>1. \A f \in Files : Accurate(l, f)'
    BY <1>2, <1>4 DEF Accurate
  <2>2. lpc'[l] = "wait" /\ plan'[l] = Modules /\ product'[Tool].of = "none"
    BY <1>1, <1>2, <1>4
  <2> QED BY <1>2, <1>4, <1>5, <2>1, <2>2 DEF OnCourse
<1> USE DEF GGoto
<1>6. CASE ReadToken(l)
  <2>1. l \in tokens
    BY <1>6 DEF ReadToken, OnCourse
  <2> QED BY <1>0, <1>5, <1>6, <2>1 DEF ReadToken
<1>7. CASE RemoveToken(l)
  <2>1. l \in tokens
    BY <1>7 DEF RemoveToken, OnCourse
  <2> QED BY <1>0, <1>5, <1>7, <2>1 DEF RemoveToken
<1>8. CASE CheckTool(l)
  <2>1. ToolVerifies(l)
    BY <1>0, <1>3 DEF ToolVerifies
  <2> QED BY <1>0, <1>5, <1>8, <2>1 DEF CheckTool
<1>9. CASE Enumerate(l)
  <2>1. census = plan[nonce[l]]
    BY <1>0, <1>2 DEF Untouched
  <2> QED BY <1>0, <1>5, <1>9, <2>1 DEF Enumerate
<1>10. CASE CheckEntries(l)
  <2>1. CASE Left(plan[nonce[l]], at[l]) = {}
    <3>1. AfterPass(l) \in {"discover", "tool", "passed", "failed"}
      BY DEF AfterPass, Verdict
    <3> QED BY <1>0, <1>5, <1>10, <2>1, <3>1 DEF CheckEntries
  <2>2. CASE Left(plan[nonce[l]], at[l]) # {}
    <3>1. PICK m : m = Current(l, plan[nonce[l]])
      OBVIOUS
    <3>2. m \in Files
      BY <1>0, <2>2, <3>1, CurrentIsFile
    <3>3. StatMatches(l, m) /\ EntryVerifies(l, m)
      BY <1>3, <3>2 DEF EntryVerifies
    <3>4. gpc'[l] = "entries"
      BY <1>0, <1>10, <2>2, <3>1, <3>3 DEF CheckEntries
    <3> QED BY <1>5, <3>4
  <2> QED BY <2>1, <2>2
<1>11. CASE Discover(l) \/ Scan(l) \/ EndScan(l) \/ ReadLines(l)
  <2>1. gpc'[l] \in {"scan", "lines", "tool", "raised"}
    BY <1>0, <1>11, ScanFrame DEF Discover, EndScan, ReadLines
  <2> QED BY <1>5, <2>1
<1> QED BY <1>6, <1>7, <1>8, <1>9, <1>10, <1>11 DEF GateStep

(* A launcher's step in an untouched checkout.                             *)
LEMMA LaunchOnCourse ==
    ASSUME Types, Capabilities, Untouched, NEW l \in Launchers, OnCourse(l), LaunchStep(l)
    PROVE  /\ Untouched' /\ OnCourse(l)'
           /\ \A f \in Files : product[f].of = "none" => product'[f] = product[f]
<1>0. /\ l \in Gates /\ Tool \in Files /\ Modules \subseteq Files
      /\ lpc \in [Launchers -> LPlaces] /\ gpc \in [Gates -> GPlaces]
      /\ tokens \subseteq Launchers /\ plan \in [Launchers -> SUBSET Modules]
      /\ at \in [Gates -> 1 .. Len(Order) + 1] /\ at[l] \in Nat
      /\ manifest \in [Launchers ->
             [Files -> [text : Texts, at : 0 .. clock, of : Built, built : 0 .. clock]]]
  <2>1. l \in Gates /\ Tool \in Files /\ Modules \subseteq Files
    BY DEF Gates, Files
  <2>2. at \in [Gates -> 1 .. Len(Order) + 1]
    BY DEF Types, TypeOK
  <2>3. at[l] \in Nat
    BY <2>1, <2>2, Ordered
  <2> QED BY <2>1, <2>2, <2>3 DEF Types, TypeOK
<1>1. gpc[l] # "idle" => lpc[l] \in {"wait", "unlink", "ended", "killed"}
  BY DEF Capabilities
<1> USE DEF LGoto
(* What holds of a launcher that only moves.                               *)
<1>2. ASSUME UNCHANGED <<source, product, census>>
      PROVE  /\ Untouched' /\ \A f \in Files : product[f].of = "none" => product'[f] = product[f]
  BY <1>2 DEF Untouched
<1>3. ASSUME manifest' = manifest, gpc'[l] = gpc[l],
             lpc'[l] \notin Planned \cup {"plan", "stat", "hash"},
             ~Running(l), gpc[l] \notin {"read", "remove"}
      PROVE  OnCourse(l)'
  <2>1. ~Running(l)'
    BY <1>3 DEF Running, GateEnded
  <2> QED BY <1>3, <2>1 DEF OnCourse, Planned
<1>4. ASSUME lpc[l] \in {"idle", "gate", "plan", "build", "replan", "hash", "stat", "spawn"}
      PROVE  gpc[l] = "idle" /\ ~Running(l) /\ gpc[l] \notin {"read", "remove"}
  BY <1>1, <1>4 DEF Running
(* Leaving the lease block.                                                *)
<1>5. ASSUME lpc[l] \in {"idle", "gate", "plan", "build", "replan", "hash", "stat", "spawn"},
             lpc'[l] \in {"ended", "gate", "unlink"},
             UNCHANGED <<source, product, census, manifest, gpc>>
      PROVE  /\ Untouched' /\ OnCourse(l)'
             /\ \A f \in Files : product[f].of = "none" => product'[f] = product[f]
  BY <1>2, <1>3, <1>4, <1>5 DEF Planned
<1>6. CASE Begin(l) \/ Decline(l)
  <2>1. /\ lpc[l] = "idle" /\ lpc'[l] \in {"ended", "gate"}
        /\ UNCHANGED <<source, product, census, manifest, gpc>>
    BY <1>0, <1>6 DEF Begin, Decline, disk, gate
  <2> QED BY <1>5, <2>1
<1>7. CASE BuildGate(l)
  <2>1. CASE Build({Tool}) /\ LGoto(l, "plan") /\ UNCHANGED holder
    <3>1. UNCHANGED <<source, census, manifest, gpc>> /\ lpc'[l] = "plan" /\ lpc[l] = "gate"
      BY <1>0, <1>7, <2>1 DEF BuildGate, gate, Holds
    <3>2. /\ Untouched' /\ \A f \in Files : product[f].of = "none" => product'[f] = product[f]
          /\ product'[Tool].of = "none"
      BY <1>0, <2>1, <3>1, QuietBuild
    <3>3. ~Running(l)' /\ gpc'[l] = "idle"
      BY <1>4, <3>1 DEF Running
    <3> QED BY <3>1, <3>2, <3>3 DEF OnCourse, Planned
  <2>2. CASE Release(l) /\ UNCHANGED <<product, clock>>
    BY <1>0, <1>5, <1>7, <2>2 DEF BuildGate, Holds, Release, gate
  <2> QED BY <1>7, <2>1, <2>2 DEF BuildGate
<1>8. CASE AuthorityPlan(l)
  <2>1. /\ UNCHANGED <<source, product, census, manifest, gpc>> /\ lpc'[l] = "build" /\ lpc[l] = "plan"
        /\ plan'[l] = Modules
    BY <1>0, <1>8 DEF AuthorityPlan, disk, gate, Holds, Untouched
  <2>2. ~Running(l)' /\ gpc'[l] = "idle"
    BY <1>4, <2>1 DEF Running
  <2>3. product'[Tool].of = "none"
    BY <2>1 DEF OnCourse
  <2> QED BY <1>2, <2>1, <2>2, <2>3 DEF OnCourse, Planned
<1>9. CASE AuthorityBuild(l)
  <2>0. lpc[l] = "build" /\ UNCHANGED <<source, census, plan, manifest, gpc>>
    BY <1>9 DEF AuthorityBuild, Holds, gate
  <2>1. CASE Release(l) /\ UNCHANGED <<product, clock, at>>
    BY <1>0, <1>5, <2>0, <2>1 DEF Release
  <2>2. /\ ~Running(l)' /\ gpc'[l] = "idle"
        /\ plan'[l] = Modules /\ product[Tool].of = "none"
    BY <1>4, <2>0 DEF Running, OnCourse, Planned
  <2>3. CASE Left(plan[l], at[l]) = {} /\ LGoto(l, "replan") /\ UNCHANGED <<product, clock, holder, at>>
    <3>1. lpc'[l] = "replan"
      BY <1>0, <2>3
    <3> QED BY <1>2, <2>0, <2>2, <2>3, <3>1 DEF OnCourse, Planned
  <2>4. ASSUME NEW files, Build(files), lpc' = lpc
        PROVE  /\ Untouched' /\ OnCourse(l)'
               /\ \A f \in Files : product[f].of = "none" => product'[f] = product[f]
    <3>1. /\ Untouched'
          /\ \A f \in Files : product[f].of = "none" => product'[f] = product[f]
      BY <2>0, <2>4, QuietBuild
    <3>2. product'[Tool].of = "none"
      BY <1>0, <2>2, <3>1
    <3> QED BY <2>0, <2>2, <2>4, <3>1, <3>2 DEF OnCourse, Planned
  <2> QED BY <1>9, <2>1, <2>3, <2>4 DEF AuthorityBuild
<1>10. CASE Replan(l)
  <2>1. /\ UNCHANGED <<source, product, census, plan, manifest, gpc>> /\ lpc[l] = "replan"
        /\ plan[l] = Modules /\ census = Modules
    BY <1>10 DEF Replan, disk, gate, Holds, OnCourse, Planned, Untouched
  <2>2. lpc'[l] = "hash" /\ at'[l] = 1
    BY <1>0, <1>10, <2>1 DEF Replan, Restart
  <2>3. \A m : ~Passed(l, m)'
    BY <2>2, Ordered DEF Passed
  <2>4. ~Running(l)' /\ gpc'[l] = "idle" /\ product'[Tool].of = "none"
    BY <1>4, <2>1 DEF Running, OnCourse, Planned
  <2> QED BY <1>2, <2>1, <2>2, <2>3, <2>4 DEF OnCourse, Planned
<1>11. CASE HashSource(l)
  <2>0. /\ UNCHANGED <<source, product, census, plan, at, gpc>> /\ lpc[l] = "hash"
        /\ Left(plan[l], at[l]) # {}
    BY <1>11 DEF HashSource, disk, gate, Holds
  <2>1. PICK m : m = Current(l, plan[l])
    OBVIOUS
  <2>2. m \in Files
    BY <1>0, <2>0, <2>1, CurrentIsFile
  <2>3. CASE product[m] = Absent
    BY <1>0, <1>5, <1>11, <2>0, <2>1, <2>3 DEF HashSource, Release
  <2>4. CASE product[m] # Absent
    <3>1. product[m].of = "none" /\ source[m].text = "none"
      BY <2>2, <2>4 DEF Untouched
    <3>2. lpc'[l] = "stat" /\ manifest' = [manifest EXCEPT ![l][m].text = "none"]
      BY <1>0, <1>11, <2>1, <2>4, <3>1 DEF HashSource
    <3>3. \A f \in Files : /\ manifest'[l][f].text = "none"
                           /\ manifest'[l][f].at = manifest[l][f].at
                           /\ manifest'[l][f].of = manifest[l][f].of
                           /\ manifest'[l][f].built = manifest[l][f].built
      <4>1. \A f \in Files : manifest[l][f].text = "none"
        BY DEF OnCourse
      <4>2. \A f \in Files \ {m} : manifest'[l][f] = manifest[l][f]
        BY <1>0, <3>2
      <4>3. manifest'[l][m] = [manifest[l][m] EXCEPT !.text = "none"]
        BY <1>0, <2>2, <3>2
      <4>4. manifest[l][m] \in [text : Texts, at : 0 .. clock, of : Built, built : 0 .. clock]
        BY <1>0, <2>2
      <4> QED BY <4>1, <4>2, <4>3, <4>4
    <3>4. \A f \in Files : Accurate(l, f) => Accurate(l, f)'
      BY <2>0, <3>3 DEF Accurate
    <3>5. \A f : Passed(l, f)' <=> Passed(l, f)
      BY <2>0 DEF Passed
    <3>6. Current(l, plan[l])' = m
      BY <2>0, <2>1 DEF Current
    <3>7. ~Running(l)' /\ gpc'[l] = "idle" /\ product'[Tool].of = "none" /\ plan'[l] = Modules
      BY <1>4, <2>0 DEF Running, OnCourse, Planned
    <3>8. \A x \in Modules : Passed(l, x)' => Accurate(l, x)'
      BY <1>0, <2>0, <3>4, <3>5 DEF OnCourse
    <3>9. product'[Current(l, plan[l])'].of = "none"
      BY <2>0, <3>1, <3>6
    <3> QED BY <1>2, <2>0, <3>2, <3>3, <3>7, <3>8, <3>9 DEF OnCourse, Planned
  <2> QED BY <2>3, <2>4
<1>12. CASE StatSource(l)
  <2>0. /\ UNCHANGED <<source, product, census, plan, gpc>> /\ lpc[l] = "stat"
        /\ lpc'[l] = "hash" /\ plan[l] = Modules
    BY <1>0, <1>12 DEF StatSource, disk, gate, Holds, OnCourse, Planned
  <2>1. Left(plan[l], at[l]) # {}
    BY <2>0 DEF Capabilities
  <2> DEFINE k == First(Left(plan[l], at[l]))
  <2>2. PICK m : m = Current(l, plan[l])
    OBVIOUS
  <2>3. m \in Files /\ m = Order[k] /\ m \in Modules
    BY <1>0, <2>1, <2>2, CurrentIsFile DEF Current
  <2>4. product[m].of = "none"
    BY <2>0, <2>2 DEF OnCourse
  <2>5. /\ manifest' = [manifest EXCEPT ![l][m] = Recorded(l, m)]
        /\ at'[l] = k + 1
    BY <1>0, <1>12, <2>2 DEF StatSource, Advance
  <2> HIDE DEF k
  <2>6. /\ manifest'[l][m] = Recorded(l, m)
        /\ \A f \in Files \ {m} : manifest'[l][f] = manifest[l][f]
    BY <1>0, <2>3, <2>5
  <2>7. /\ Recorded(l, m).text = "none" /\ Recorded(l, m).at = 0
        /\ Recorded(l, m).of = "none" /\ Recorded(l, m).built = product[m].at
    <3>1. /\ Recorded(l, m).text = manifest[l][m].text /\ Recorded(l, m).at = source[m].at
          /\ Recorded(l, m).of = product[m].of /\ Recorded(l, m).built = product[m].at
      BY <2>3, RecordedType
    <3>2. manifest[l][m].text = "none" /\ source[m].at = 0
      BY <2>3 DEF OnCourse, Untouched
    <3> QED BY <2>4, <3>1, <3>2
  <2>8. \A f \in Files : manifest'[l][f].text = "none"
    BY <2>6, <2>7 DEF OnCourse
  <2>9. Accurate(l, m)' /\ \A f \in Files \ {m} : Accurate(l, f) => Accurate(l, f)'
    BY <2>0, <2>4, <2>6, <2>7 DEF Accurate
  <2>10. ASSUME NEW x \in Modules, Passed(l, x)' PROVE Accurate(l, x)'
    <3>1. PICK j \in Positions : j < k + 1 /\ Order[j] = x
      BY <2>5, <2>10 DEF Passed
    <3>2. j < at[l] \/ j = k
      BY <1>0, <2>0, <2>1, <2>10, <3>1, PassedNext DEF k
    <3>3. CASE x = m
      BY <2>9, <3>3
    <3>4. CASE x # m
      <4>1. Passed(l, x)
        BY <2>3, <3>1, <3>2, <3>4 DEF Passed
      <4>2. Accurate(l, x)
        BY <2>0, <2>10, <4>1 DEF OnCourse
      <4> QED BY <1>0, <2>9, <2>10, <3>4, <4>2
    <3> QED BY <3>3, <3>4
  <2>11. ~Running(l)' /\ gpc'[l] = "idle" /\ product'[Tool].of = "none" /\ plan'[l] = Modules
    BY <1>4, <2>0 DEF Running, OnCourse, Planned
  <2> QED BY <1>2, <2>0, <2>8, <2>10, <2>11 DEF OnCourse, Planned
<1>13. CASE WriteAuthority(l)
  <2>0. /\ UNCHANGED <<source, product, census, plan, gpc>> /\ lpc[l] = "hash"
        /\ lpc'[l] = "spawn" /\ plan[l] = Modules /\ Left(plan[l], at[l]) = {}
        /\ l \in tokens'
    BY <1>0, <1>13 DEF WriteAuthority, disk, gate, Holds, OnCourse, Planned
  <2> DEFINE e == [Recorded(l, Tool) EXCEPT !.text = source[Tool].text]
  <2>1. manifest' = [manifest EXCEPT ![l][Tool] = e]
    BY <1>13 DEF WriteAuthority
  <2>2. product[Tool].of = "none"
    BY <2>0 DEF OnCourse, Planned
  <2>3. e.text = "none" /\ e.at = 0 /\ e.of = "none" /\ e.built = product[Tool].at
    <3>1. /\ Recorded(l, Tool) \in [text : Texts, at : 0 .. clock, of : Built, built : 0 .. clock]
          /\ Recorded(l, Tool).at = source[Tool].at
          /\ Recorded(l, Tool).of = product[Tool].of /\ Recorded(l, Tool).built = product[Tool].at
      BY <1>0, RecordedType
    <3>2. source[Tool].text = "none" /\ source[Tool].at = 0
      BY <1>0 DEF Untouched
    <3> QED BY <2>2, <3>1, <3>2
  <2> HIDE DEF e
  <2>4. manifest'[l][Tool] = e /\ \A f \in Files \ {Tool} : manifest'[l][f] = manifest[l][f]
    <3>1. manifest[l] \in [Files -> [text : Texts, at : 0 .. clock, of : Built, built : 0 .. clock]]
      BY <1>0
    <3>2. manifest'[l] = [manifest[l] EXCEPT ![Tool] = e]
      BY <1>0, <2>1
    <3> QED BY <1>0, <3>1, <3>2
  <2>5. \A m \in Modules : Accurate(l, m)
    <3>1. ASSUME NEW m \in plan[l] PROVE Passed(l, m)
      <4>1. plan[l] \in SUBSET Modules /\ at[l] \in Nat /\ Left(plan[l], at[l]) = {}
        BY <1>0, <2>0
      <4>2. \E j \in Positions : j < at[l] /\ Order[j] = m
        BY <3>1, <4>1, PassedAll
      <4> QED BY <4>2 DEF Passed
    <3> QED BY <2>0, <3>1 DEF OnCourse
  <2>6. \A f \in Files : Accurate(l, f)'
    BY <2>0, <2>2, <2>3, <2>4, <2>5 DEF Accurate, Files
  <2>7. \A f \in Files : manifest'[l][f].text = "none"
    BY <2>3, <2>4 DEF OnCourse
  <2>8. ~Running(l)' /\ gpc'[l] = "idle" /\ product'[Tool].of = "none" /\ plan'[l] = Modules
    BY <1>4, <2>0, <2>2 DEF Running
  <2> QED BY <1>2, <2>0, <2>6, <2>7, <2>8 DEF OnCourse, Planned
<1>14. CASE Spawn(l)
  <2>0. lpc[l] = "spawn" /\ UNCHANGED <<source, census, plan, manifest, tokens>>
    BY <1>14 DEF Spawn, Holds
  <2>1. CASE LGoto(l, "unlink") /\ UNCHANGED <<product, clock, gpc>>
    BY <1>0, <1>5, <2>0, <2>1
  <2>2. CASE Build({Tool}) /\ LGoto(l, "wait") /\ gpc' = [gpc EXCEPT ![l] = "read"]
    <3>1. /\ Untouched'
          /\ \A f \in Files : product[f].of = "none" => product'[f] = product[f]
      BY <2>0, <2>2, QuietBuild
    <3>2. lpc'[l] = "wait" /\ gpc'[l] = "read"
      BY <1>0, <2>2
    <3>3. /\ \A f \in Files : Accurate(l, f)
          /\ plan[l] = Modules /\ l \in tokens /\ product[Tool].of = "none"
      BY <2>0 DEF OnCourse, Planned
    <3>4. \A f \in Files : Accurate(l, f)'
      BY <2>0, <3>1, <3>3 DEF Accurate
    <3>5. product'[Tool].of = "none"
      BY <1>0, <3>1, <3>3
    <3> QED BY <2>0, <3>1, <3>2, <3>3, <3>4, <3>5 DEF OnCourse
  <2> QED BY <1>14, <2>1, <2>2 DEF Spawn
<1>15. CASE Wait(l)
  <2>1. /\ GateEnded(l) /\ lpc'[l] = "unlink"
        /\ UNCHANGED <<source, product, census, manifest, gpc>>
    BY <1>0, <1>15 DEF Wait, disk, gate
  <2>2. ~Running(l) /\ gpc[l] \notin {"read", "remove"}
    BY <2>1 DEF Running, GateEnded
  <2> QED BY <1>2, <1>3, <2>1, <2>2 DEF Planned
<1>16. CASE Unlink(l)
  <2>1. /\ lpc[l] = "unlink" /\ lpc'[l] = "ended"
        /\ UNCHANGED <<source, product, census, manifest, gpc>>
    BY <1>0, <1>16 DEF Unlink, Release, Holds, disk, gate
  <2>2. ~Running(l)
    BY <2>1 DEF OnCourse
  <2>3. gpc[l] \notin {"read", "remove"}
    BY <2>2 DEF Running, GateEnded
  <2> QED BY <1>2, <1>3, <2>1, <2>2, <2>3 DEF Planned
<1>17. CASE Raises(l)
  <2>1. /\ lpc[l] \in {"gate", "plan", "build", "replan", "hash", "stat"} /\ lpc'[l] = "ended"
        /\ UNCHANGED <<source, product, census, manifest, gpc>>
    BY <1>0, <1>17 DEF Raises, Release, Holds, disk, gate
  <2>2. ~Running(l)
    BY <2>1 DEF OnCourse
  <2>3. gpc[l] \notin {"read", "remove"}
    BY <2>2 DEF Running, GateEnded
  <2> QED BY <1>2, <1>3, <2>1, <2>2, <2>3 DEF Planned
<1> QED
  BY <1>6, <1>7, <1>8, <1>9, <1>10, <1>11, <1>12, <1>13, <1>14, <1>15, <1>16, <1>17
  DEF LaunchStep


LEMMA InitUndisturbed == Init => Undisturbed
<1> SUFFICES ASSUME Init PROVE Undisturbed
  OBVIOUS
<1>1. Untouched
  BY DEF Init, Untouched
<1>2. ASSUME NEW l \in Launchers PROVE OnCourse(l)
  <2>1. /\ lpc[l] = "idle" /\ gpc[l] = "idle"
        /\ \A f \in Files : manifest[l][f].text = "none"
    BY DEF Init, Unchecked, Gates
  <2> QED BY <2>1 DEF OnCourse, Planned, Running
<1> QED BY <1>1, <1>2 DEF Undisturbed

(* The disturbances do not take themselves back.                           *)
LEMMA CalmBefore ==
    ASSUME Types, Next \/ UNCHANGED vars, Calm'
    PROVE  /\ Calm
           /\ \/ \E l \in Launchers : LaunchStep(l)
              \/ \E l \in Launchers : GateStep(l) /\ ~StartRaw(l)
              \/ UNCHANGED vars
<1>0. edits \in Nat /\ retracks \in Nat /\ kills \in Nat /\ gpc \in [Gates -> GPlaces]
  BY DEF Types, TypeOK
<1>1. CASE UNCHANGED vars
  BY <1>1 DEF Calm, vars, bounds, gate
<1>2. ASSUME NEW l \in Launchers, LaunchStep(l) PROVE Calm
  <2>1. UNCHANGED bounds /\ (gpc' = gpc \/ gpc' = [gpc EXCEPT ![l] = "read"])
    BY <1>2
    DEF LaunchStep, Begin, Decline, BuildGate, AuthorityPlan, AuthorityBuild, Replan,
        HashSource, StatSource, WriteAuthority, Spawn, Wait, Unlink, Raises, gate
  <2>2. \A g \in Raws : gpc'[g] = gpc[g]
    BY <1>0, <2>1, RefsAuthorityAssumption DEF Gates
  <2> QED BY <2>1, <2>2 DEF Calm, bounds
<1>3. ASSUME NEW g \in Gates, GateStep(g) PROVE Calm /\ g \in Launchers /\ ~StartRaw(g)
  <2>1. UNCHANGED bounds
    BY <1>3, ScanFrame DEF GateStep, StartRaw, ReadToken, RemoveToken, CheckTool, Enumerate, CheckEntries,
       Discover, EndScan, ReadLines, OfGate
  <2>2. \A h \in Gates \ {g} : gpc'[h] = gpc[h]
    BY <1>3, GateKeeps
  <2>3. ASSUME g \in Raws PROVE FALSE
    <3>1. gpc'[g] = "idle"
      BY <2>3 DEF Calm
    <3>2. CASE StartRaw(g)
      BY <1>0, <3>1, <3>2 DEF StartRaw, GGoto
    <3>3. CASE CheckEntries(g)
      <4>1. AfterPass(g) # "idle"
        BY DEF AfterPass, Verdict
      <4> QED BY <1>0, <3>1, <3>3, <4>1 DEF CheckEntries, GGoto
    <3>4. CASE GateStep(g) /\ ~StartRaw(g) /\ ~CheckEntries(g)
      BY <1>0, <3>1, <3>4, ScanFrame
      DEF GateStep, ReadToken, RemoveToken, CheckTool, Enumerate, Discover, EndScan, ReadLines, GGoto
    <3> QED BY <1>3, <3>2, <3>3, <3>4
  <2>4. g \in Launchers /\ g \notin Raws
    BY <2>3 DEF Gates
  <2>5. ~StartRaw(g)
    BY <2>4 DEF StartRaw
  <2>6. \A h \in Raws : gpc'[h] = gpc[h]
    BY <2>2, <2>4 DEF Gates
  <2> QED BY <2>1, <2>4, <2>5, <2>6 DEF Calm, bounds
<1>4. ASSUME NEW l \in Launchers, KillLauncher(l) PROVE FALSE
  BY <1>0, <1>4 DEF KillLauncher, Calm
<1>5. ASSUME NEW g \in Gates, KillGate(g) PROVE FALSE
  BY <1>0, <1>5 DEF KillGate, Calm
<1>6. ASSUME NEW f \in Files, Edit(f) PROVE FALSE
  BY <1>0, <1>6 DEF Edit, Calm
<1>7. ASSUME NEW m \in Modules, Retrack(m) PROVE FALSE
  BY <1>0, <1>7 DEF Retrack, Calm
<1>8. Terminated => UNCHANGED vars
  BY DEF Terminated
<1> QED BY <1>1, <1>2, <1>3, <1>4, <1>5, <1>6, <1>7, <1>8 DEF Next

LEMMA UndisturbedStep ==
    ASSUME Inv, Calm => Undisturbed, Next \/ UNCHANGED vars, Calm'
    PROVE  Undisturbed'
<1>0. Types /\ Capabilities /\ Calm /\ Untouched /\ \A l \in Launchers : OnCourse(l)
  BY CalmBefore DEF Inv, Undisturbed
<1>1. ASSUME NEW k \in Launchers PROVE lpc[k] = "stat" => Current(k, plan[k]) \in Files
  <2>1. k \in Gates
    BY DEF Gates
  <2> QED BY <1>0, <2>1, CurrentIsFile DEF Capabilities
<1>2. ASSUME NEW l \in Launchers, LaunchStep(l) PROVE Undisturbed'
  <2>1. /\ Untouched' /\ OnCourse(l)'
        /\ \A f \in Files : product[f].of = "none" => product'[f] = product[f]
    BY <1>0, <1>2, LaunchOnCourse
  <2>2. ASSUME NEW k \in Launchers, k # l PROVE OnCourse(k)'
    <3>1. /\ plan'[k] = plan[k] /\ lpc'[k] = lpc[k] /\ gpc'[k] = gpc[k]
          /\ at'[k] = at[k] /\ (k \in tokens => k \in tokens')
      <4> USE DEF LaunchStep, Begin, Decline, BuildGate, AuthorityPlan, AuthorityBuild, Replan,
        HashSource, StatSource, WriteAuthority, Spawn, Wait, Unlink, Raises, gate
      <4> /\ plan \in [Launchers -> SUBSET Modules] /\ lpc \in [Launchers -> LPlaces]
          /\ gpc \in [Gates -> GPlaces] /\ at \in [Gates -> 1 .. Len(Order) + 1] /\ k \in Gates
        BY <1>0 DEF Types, TypeOK, Gates
      <4>1. plan' = plan \/ \E s : plan' = [plan EXCEPT ![l] = s]
        BY <1>2
      <4>2. \E place : lpc' = lpc \/ lpc' = [lpc EXCEPT ![l] = place]
        BY <1>2 DEF LGoto, Release
      <4>3. gpc' = gpc \/ gpc' = [gpc EXCEPT ![l] = "read"]
        BY <1>2
      <4>4. at' = at \/ \E i : at' = [at EXCEPT ![l] = i]
        BY <1>2 DEF Restart, Advance
      <4>5. k \in tokens => k \in tokens'
        BY <1>2, <2>2
      <4> HIDE DEF LaunchStep
      <4> QED BY <2>2, <4>1, <4>2, <4>3, <4>4, <4>5
    <3>2. manifest'[k] = manifest[k]
      BY <1>0, <1>2, <2>2, ManifestOfOthers
    <3> QED BY <1>0, <1>1, <2>1, <3>1, <3>2, StaysOnCourse
  <2> QED BY <2>1, <2>2 DEF Undisturbed
<1>3. ASSUME NEW l \in Launchers, GateStep(l), ~StartRaw(l) PROVE Undisturbed'
  <2>1. l \in Gates /\ nonce[l] = l /\ tokens \subseteq Launchers
    BY <1>0 DEF Gates, Capabilities, Types, TypeOK
  <2>2. OnCourse(l)'
    BY <1>0, <1>3, GateOnCourse
  <2>3. UNCHANGED <<source, product, census, plan, manifest, lpc>>
    BY <1>3, <2>1, ScanFrame
    DEF GateStep, ReadToken, RemoveToken, CheckTool, Enumerate, CheckEntries, Discover, EndScan,
        ReadLines, disk
  <2>4. tokens \ {l} \subseteq tokens'
    BY <1>3, <2>1, ScanFrame DEF GateStep, ReadToken, RemoveToken, CheckTool, Enumerate, CheckEntries, Discover,
         EndScan, ReadLines, disk
  <2>5. ASSUME NEW k \in Launchers, k # l PROVE OnCourse(k)'
    <3>1. gpc'[k] = gpc[k] /\ at'[k] = at[k]
      BY <1>0, <1>3, <2>1, <2>5, GateKeeps DEF Gates
    <3>2. k \in tokens => k \in tokens'
      BY <2>4, <2>5
    <3> QED BY <1>0, <1>1, <2>3, <3>1, <3>2, StaysOnCourse
  <2>6. Untouched'
    BY <1>0, <2>3 DEF Untouched
  <2> QED BY <2>2, <2>5, <2>6 DEF Undisturbed
<1>4. CASE UNCHANGED vars
  <2>1. UNCHANGED <<source, product, census, plan, manifest, lpc, gpc, at, tokens>>
    BY <1>4 DEF vars, disk, gate
  <2>2. ASSUME NEW k \in Launchers PROVE OnCourse(k)'
    BY <1>0, <1>1, <2>1, StaysOnCourse
  <2>3. Untouched'
    BY <1>0, <2>1 DEF Untouched
  <2> QED BY <2>2, <2>3 DEF Undisturbed
<1> QED BY <1>0, <1>2, <1>3, <1>4, CalmBefore

(* A launcher whose checkout nobody touched gets its gate's verdict and no *)
(* refusal: what Python recorded is what Lean verifies (NoFalseRefusal),   *)
(* also when other launchers build in turn.                                *)
THEOREM QuietRunsAreNotRefused == Spec => []NoFalseRefusal
<1>1. Init => (Inv /\ (Calm => Undisturbed))
  BY InvInit, InitUndisturbed
<1>2. (Inv /\ (Calm => Undisturbed)) /\ [Next]_vars => (Inv /\ (Calm => Undisturbed))'
  <2>1. Inv /\ [Next]_vars => Inv'
    BY InvStep
  <2>2. ASSUME Inv, Calm => Undisturbed, [Next]_vars, Calm' PROVE Undisturbed'
    BY <2>2, UndisturbedStep
  <2> QED BY <2>1, <2>2
<1>3. (Inv /\ (Calm => Undisturbed)) => NoFalseRefusal
  BY DEF Calm, Undisturbed, OnCourse, NoFalseRefusal
<1> QED BY <1>1, <1>2, <1>3, PTL DEF Spec

=====
